CONSTANTS
  MaxTime = 5
  MAX_TPS = 2
  MaxBurst = 3
SPECIFICATION Spec
PROPERTIES ClearedOnlyWhenStale
CHECK_DEADLOCK FALSE
