CONSTANTS
  c1 = c1
  c2 = c2
  Conns = {c1, c2}
  NoConn = NoConn
  NoRev = NoRev
  NoData = NoData
  Script <- TwoClients
  Data <- ServerData
  MAX_FDS = 1
  MAX_EVENTS = 2
  MAX_SIZE_QUEUE = 2
  MAX_TPS = 2
  TIME_QUEUE_WAIT = 0
  MaxTime = 2
SPECIFICATION FairSpec
PROPERTIES BacklogAccepted
CHECK_DEADLOCK FALSE
