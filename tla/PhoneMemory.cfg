SPECIFICATION Spec
CONSTANTS
  c1 = c1
  c2 = c2
  m1 = m1
  m2 = m2
  Calls = {c1, c2}
  Messages = {m1, m2}
  CallOf <- OneEach
  Ending = {c1}
  Workers = {w1, w2}
  Providers = {"atagia", "mem0"}
  MaxAttempts = 2
  MaxCrashes = 1
  NULL = NULL
SYMMETRY Interchangeable
INVARIANTS TypeOK AskedOnce DeletedIsForgotten SettledIsRemembered
CHECK_DEADLOCK FALSE
