CONSTANTS
  MAX_SIZE_QUEUE = 2
  Data = {d1, d2}
  NoData = none
  MaxTime = 6
  TIME_QUEUE_WAIT = 1000
  MaxPushed = 2
SPECIFICATION FairSpec
PROPERTIES ResumedThreadServes
CHECK_DEADLOCK FALSE
