SPECIFICATION Spec
CONSTANTS
  Tiers = {1}
  Requests = {r1}
  Hooks = {h1, h2}
  Admins = {a1}
  AdminKinds = {"validate", "activate", "reject"}
  MaxInvoices = 1
  MaxIntents = 2
  Period = 1
  Duplicates = TRUE
  MaxTime = 1
  MaxEnd = 2
  MaxCrashes = 0
SYMMETRY ProcSymmetry
CHECK_DEADLOCK FALSE
INVARIANTS TypeOK ActivatedIsPaid
PROPERTIES SettledOnce OnePeriodPerInvoice DeletedGetsNoActivation
