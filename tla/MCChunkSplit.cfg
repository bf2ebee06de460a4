SPECIFICATION Spec
CONSTANTS
  MaxSize = 7
  ChunkBytes = 3
  Overlap = 1
INVARIANTS
  TypeOK
  LineOwnership
  ReadWhole
PROPERTIES
  EachLineOnce
  EveryLineGiven
CHECK_DEADLOCK FALSE
