CONSTANTS
  c1 = c1
  c2 = c2
  Conns = {c1}
  NoConn = NoConn
  NoRev = NoRev
  NoData = NoData
  Script <- OneClient
  Data <- ServerData
  MAX_FDS = 1
  MAX_EVENTS = 2
  MAX_SIZE_QUEUE = 2
  MAX_TPS = 2
  TIME_QUEUE_WAIT = 0
  MaxTime = 3
SPECIFICATION FairSpec
INVARIANTS TypeOK RequestAccounted QueuedAnswersInOrder
PROPERTIES ImplementsHandshake ImplementsIncome EventsHandled
CHECK_DEADLOCK FALSE
