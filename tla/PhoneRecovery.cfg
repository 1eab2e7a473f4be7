SPECIFICATION Spec
CONSTANTS
  Dispatchers = {d}
  Gates = {g}
  Meters = {m}
  Callbacks = {k1, k2}
  Recovering = TRUE
  Tranches <- OneTranche
  TrancheUnits = 2
  Durations = {1, 5}
  Rate = 1
  Funds = 4
  MaxCrashes = 1
  NULL = NULL
SYMMETRY Interchangeable
PROPERTY RecoveryRefundsOnlyUnstarted
CHECK_DEADLOCK FALSE
