\* A file is read after it has been renamed.
CONSTANTS
  Name <- SomeNames
  Other = 16
  Uninit = 256
  MaxSize = 6
  MaxOffset = 3
  MaxCount = 3
SPECIFICATION Spec
CHECK_DEADLOCK FALSE
INVARIANTS
  PresentNameRead
