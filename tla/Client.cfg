CONSTANTS
  MSG_INTERVAL = 1
  KEEP_INTERVAL = 2
  MaxRequests = 4
  MaxWatchdogs = 4
  MaxStrays = 2
SPECIFICATION Spec
INVARIANTS TypeOK AnswerComing OwnAnswer LagsByUnmatched
CHECK_DEADLOCK FALSE
