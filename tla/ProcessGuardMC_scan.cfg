\* A process that ends while /proc is read.
CONSTANTS
  Pid = {c1, p1}
  Child = {c1}
  Window = 3
  Timeouts = {5}
  Monitor = FALSE
  Forking = FALSE
  Others = {p1}
  ScanRace = TRUE
  Unreadable = {}
  Interrupts = FALSE
  EarlyTerm = FALSE
SPECIFICATION Spec
CHECK_DEADLOCK FALSE
INVARIANTS
  AllKilled
