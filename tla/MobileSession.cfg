SPECIFICATION MobileSpec
CONSTANTS
  Owner = "owner"
  Verifiers = {}
  Routers = {}
  Calls = {1, 2}
  OpKinds = {"login", "rotate", "logout", "revokeAll"}
  UserLimit = 1
  MaxCalls = 6
  MaxTokens = 7
  Requests = {1, 2}
  MaxRequests = 3
  MaxTroubles = 1
INVARIANTS MobileTypeOK SignedOutForCause
PROPERTIES NeverPostedTwice EveryRequestSettles
CHECK_DEADLOCK FALSE
