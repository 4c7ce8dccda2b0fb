\* Every failure of libfuse, one thread and several.
CONSTANTS
  Name <- SomeNames
  Other = 16
  Uninit = 256
  MaxSize = 6
  MaxOffset = 3
  MaxCount = 3
SPECIFICATION Spec
CHECK_DEADLOCK FALSE
INVARIANTS
  TypeOK
  RealstoreReached
  EndsClean
  ReadRight
