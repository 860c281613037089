SPECIFICATION FairSpec
CONSTANTS
  Tiers = {1}
  Requests = {r1}
  Hooks = {h1}
  Admins = {a1}
  AdminKinds = {"reject", "status", "deactivate"}
  MaxInvoices = 1
  MaxIntents = 1
  Period = 1
  Duplicates = FALSE
  MaxTime = 3
  MaxEnd = 2
  MaxCrashes = 1
CHECK_DEADLOCK FALSE
PROPERTIES PaymentSettles OverdueReverts
