SPECIFICATION Spec
CONSTANTS
  Tiers = {1}
  Requests = {r1}
  Hooks = {h1}
  Admins = {a1}
  AdminKinds = {"validate"}
  MaxInvoices = 2
  MaxIntents = 1
  Period = 1
  Duplicates = FALSE
  MaxTime = 3
  MaxEnd = 2
  MaxCrashes = 0
CHECK_DEADLOCK FALSE
PROPERTY OnlyExpiredReverts
