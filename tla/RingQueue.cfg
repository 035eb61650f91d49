CONSTANTS
  MAX_SIZE_QUEUE = 3
  Data = {d1, d2, d3}
  NoData = NoData
SPECIFICATION Spec
INVARIANTS TypeOK RingConsistent
PROPERTIES ImplementsFifo
