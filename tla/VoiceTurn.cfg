SPECIFICATION LiveSpec
CONSTANTS
  Voices = {v1, v2, v3}
  MaxCalls = 2
  MaxFaults = 2
INVARIANTS TypeOK SavedOnce UsageIsCharged
PROPERTY TurnEnds
CHECK_DEADLOCK FALSE
