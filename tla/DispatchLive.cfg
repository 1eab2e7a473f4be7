SPECIFICATION LiveSpec
CONSTANTS
  Jobs = {j1}
  Conversations = {c}
  ConversationOf <- OneConversation
  Dispatchers = {d1, d2}
  Attempts = {a1, a2}
  Bars = {"profile"}
  LeaseOutlivesWindow = FALSE
  MaxCrashes = 1
  NULL = NULL
INVARIANT OnePost
PROPERTIES UnknownSettles DispatchingEnds
CHECK_DEADLOCK FALSE
