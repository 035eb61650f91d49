CONSTANTS
  MaxTime = 5
  MAX_TPS = 2
  MaxBurst = 3
SPECIFICATION Spec
INVARIANTS TypeOK AdmissionBound RatesAgree
PROPERTIES RefusedOnlyAtLimit
CHECK_DEADLOCK FALSE
