SPECIFICATION Spec
CONSTANTS
  Dispatchers = {d}
  Gates = {g}
  Meters = {m}
  Callbacks = {k1, k2}
  Recovering = TRUE
  Tranches <- TwoTranches
  TrancheUnits = 2
  Durations = {1, 5}
  Rate = 1
  Funds = 4
  MaxCrashes = 1
  NULL = NULL
SYMMETRY Interchangeable
INVARIANTS TypeOK HoldsFollowRows MinutesPaidOnce AnsweredMeansClosed BooksBalance
CHECK_DEADLOCK FALSE
