SPECIFICATION Spec
CONSTANTS
  Tiers = {1, 2}
  Requests = {r1}
  Hooks = {h1}
  Admins = {a1}
  AdminKinds = {}
  MaxInvoices = 1
  MaxIntents = 1
  Period = 1
  Duplicates = FALSE
  MaxTime = 1
  MaxEnd = 2
  MaxCrashes = 0
CHECK_DEADLOCK FALSE
INVARIANT PaymentCoversInvoice
