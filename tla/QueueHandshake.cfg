CONSTANTS
  MAX_SIZE_QUEUE = 2
  Data = {d1, d2}
  NoData = none
  MaxTime = 6
  TIME_QUEUE_WAIT = 1000
  MaxPushed = 4
SPECIFICATION FairSpec
INVARIANTS TypeOK PopFindsData ServedInOrder FlagsTellTheTruth
PROPERTIES OnlyEarlyResumeStrands ParkedThreadServes BusyThreadDrains
CHECK_DEADLOCK FALSE
