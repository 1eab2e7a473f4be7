SPECIFICATION Spec
CONSTANTS
  Jobs = {j1}
  Conversations = {c}
  ConversationOf <- OneConversation
  Dispatchers = {d1}
  Attempts = {a1}
  Bars = {"owner"}
  LeaseOutlivesWindow = TRUE
  MaxCrashes = 0
  NULL = NULL
INVARIANT KeepsScanning
CHECK_DEADLOCK FALSE
