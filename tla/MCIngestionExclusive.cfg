SPECIFICATION ExclusiveSpec
CONSTANTS
  red = red
  blue = blue
  Bad = Bad
  Lines = {1, 2, 3}
  Sku <- ThreeLines
  Ranges <- TwoShort
  Splitters = {s1}
  Workers = {w1, w2}
  SendBatch = 1
  UpsertBatch = 1
  ErrorCap = 1000
  MaxReceives = 2
  Notices = 2
  Garbled = {}
  MaxChunks = 3
  MaxFaults = 2
INVARIANTS
  CountersMatchChunks
  FinishedMeansLanded
PROPERTIES
  FileImported
  JobFinishes
CHECK_DEADLOCK FALSE
