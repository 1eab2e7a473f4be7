SPECIFICATION Spec
CONSTANTS
  turn = turn
  chat = chat
  other = other
  owner = owner
  teammate = teammate
  NULL = NULL
  Requests = {turn, chat, other}
  Turns = {turn}
  Users = {teammate}
  Accounts = {owner, teammate}
  UserOf <- MCUserOf
  Pinned <- MCPinned
  Entries = {1, 2, 3}
  Items = 1
  QueueSize = 1
  Tries = 2
INVARIANTS
  TypeOK
  MutualExclusion
  RegistryMatchesLeases
  ProviderRunsUnderLock
  StreamComplete
