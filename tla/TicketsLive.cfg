\* One ticket on a REMOTE router with a plan that may be lengthened: progress of
\* the syncs and of the expiry cron, through disconnections, router failures, a
\* deletion and a restart; and the life cycle of the ticket.
SPECIFICATION FairSpec
CONSTANTS
  Tickets = {t1}
  Syncs = {s1}
  Operators = {o1}
  OpKinds = {"terminate", "bulk"}
  Prices = {100}
  Modes = {"REMOTE"}
  Lengthens = TRUE
  OmitsIds = FALSE
  MaxSwitches = 0
  MaxCrashes = 1
CHECK_DEADLOCK FALSE
PROPERTIES
  SessionCloses
  ExpiryPersisted
  ExpiredLeavesRouter
  ImplementsLifecycle
