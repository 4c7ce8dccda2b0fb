\* SIGTERM right after the start.
CONSTANTS
  Pid = {c1}
  Child = {c1}
  Window = 2
  Timeouts = {2}
  Monitor = FALSE
  Forking = FALSE
  Others = {}
  ScanRace = FALSE
  Unreadable = {}
  Interrupts = FALSE
  EarlyTerm = TRUE
SPECIFICATION Spec
CHECK_DEADLOCK FALSE
INVARIANTS
  AllKilled
