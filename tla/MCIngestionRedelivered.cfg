SPECIFICATION Spec
CONSTANTS
  red = red
  blue = blue
  Bad = Bad
  Lines = {1, 2, 3, 4}
  Sku <- BadAround
  Ranges <- OneLong
  Splitters = {s1}
  Workers = {w1, w2}
  SendBatch = 1
  UpsertBatch = 1
  ErrorCap = 1
  MaxReceives = 2
  Notices = 1
  Garbled = {0}
  MaxChunks = 3
  MaxFaults = 2
INVARIANTS
  TypeOK
  LinesCovered
  RejectionsKept
CHECK_DEADLOCK FALSE
