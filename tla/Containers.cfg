CONSTANTS
  k1 = k1
  k2 = k2
  k3 = k3
  k4 = k4
  Key = {k1, k2, k3, k4}
  Hash <- Hashes
  Value = {v1, v2}
  Pointers = {p1, p2, p3, p4, p5, p6, p7}
  NULL = NULL
  MAX_CHAIN_LENGTH = 3
  TABLE_SIZE = 4
  MAX_LENGTH = 5
SPECIFICATION Spec
INVARIANTS TypeOK PresentKeysAnswered RemovedKeysMissing SizeCoversUse VectorIsList
CHECK_DEADLOCK FALSE
