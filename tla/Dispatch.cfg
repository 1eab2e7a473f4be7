SPECIFICATION Spec
CONSTANTS
  Jobs = {j1, j2}
  Conversations = {c}
  ConversationOf <- OneConversation
  Dispatchers = {d1, d2}
  Attempts = {a1, a2}
  Bars = {"owner", "profile", "binding", "incognito", "locked"}
  LeaseOutlivesWindow = TRUE
  MaxCrashes = 1
  NULL = NULL
SYMMETRY AllInterchangeable
INVARIANTS TypeOK OneLiveCall ForegroundMatchesCalls JobMatchesCall
CHECK_DEADLOCK FALSE
