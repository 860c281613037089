\* One ticket seen by two phones, each sync with the plan price of its own
\* read, while the owner edits the plan and deletes the ticket.
SPECIFICATION Spec
CONSTANTS
  Tickets = {t1}
  Syncs = {s1, s2}
  Operators = {o1}
  OpKinds = {"remove"}
  Prices = {0, 100}
  Modes = {"LOCAL"}
  Lengthens = FALSE
  OmitsIds = TRUE
  MaxSwitches = 0
  MaxCrashes = 0
SYMMETRY Symmetry
CHECK_DEADLOCK FALSE
INVARIANTS
  TypeOK
  SessionOnlyOfSale
  NotifiedOnce
PROPERTIES
  SaleIsFinal
  PriceFrozen
