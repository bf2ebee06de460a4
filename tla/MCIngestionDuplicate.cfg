SPECIFICATION Spec
CONSTANTS
  red = red
  blue = blue
  Bad = Bad
  Lines = {1, 2, 3}
  Sku <- ThreeLines
  Ranges <- OneChunk
  Splitters = {s1}
  Workers = {w1, w2}
  SendBatch = 1
  UpsertBatch = 1
  ErrorCap = 1000
  MaxReceives = 3
  Notices = 1
  Garbled = {}
  MaxChunks = 3
  MaxFaults = 1
INVARIANTS
  CountersMatchChunks
CHECK_DEADLOCK FALSE
