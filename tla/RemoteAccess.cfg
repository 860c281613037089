SPECIFICATION FairSpec
CONSTANTS
  Routers = {"r1", "r2"}
  Tenants = {"t1"}
  Owner <- MCOwner
  Start <- MCStart
  Addresses = {1, 2}
  Sources = {"s1"}
  Calls = {1, 2}
  Cycles = {1, 2}
  OpKinds = {"provision", "resync", "revoke", "adminRevoke", "delete", "withdraw", "open", "close", "deactivate", "accept", "closeTenant"}
  MaxCalls = 2
  MaxTime = 2
  MaxTroubles = 1
INVARIANTS TypeOK UndisturbedCycleRepairs
PROPERTIES AddressIsStable VpsFollowsDatabase DeletedTenantIsCutOff
