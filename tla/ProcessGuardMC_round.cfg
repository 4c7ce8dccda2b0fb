\* A process that ends during a round of samples.
CONSTANTS
  Pid = {c1, p1, p2}
  Child = {c1}
  Window = 3
  Timeouts = {5}
  Monitor = TRUE
  Forking = TRUE
  Others = {}
  ScanRace = FALSE
  Unreadable = {}
  Interrupts = FALSE
  EarlyTerm = FALSE
SPECIFICATION Spec
CHECK_DEADLOCK FALSE
PROPERTIES
  NoneSkipped
