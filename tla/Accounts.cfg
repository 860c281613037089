SPECIFICATION Spec
CONSTANTS
  Owner = "owner"
  Verifiers = {"v1"}
  Routers = {"r1"}
  Calls = {1, 2, 3}
  OpKinds = {"login", "rotate", "logout", "revokeAll", "setUserStatus", "setTenantStatus", "create", "assign", "unassign", "setStatus", "softDelete", "deleteAccount"}
  UserLimit = 2
  MaxCalls = 5
  MaxTokens = 5
INVARIANTS TypeOK OneHeirPerFamily ReuseIsFatal
PROPERTIES DeadFamilyStaysDead DisabledIsCutOff
CHECK_DEADLOCK FALSE
