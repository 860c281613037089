\* Two tickets of a batch: server push, LAN push, confirmation and failure
\* report against withdrawals, a mode change and a restart.  No sync runs.
SPECIFICATION Spec
CONSTANTS
  Tickets = {t1, t2}
  Syncs = {}
  Operators = {o1, o2}
  OpKinds = {"force", "revoke", "remove", "bulk"}
  Prices = {100}
  Modes = {"LOCAL", "REMOTE"}
  Lengthens = FALSE
  OmitsIds = TRUE
  MaxSwitches = 1
  MaxCrashes = 1
SYMMETRY Symmetry
CHECK_DEADLOCK FALSE
INVARIANTS
  CompletedIsPushed
