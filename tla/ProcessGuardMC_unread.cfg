\* A command that turns into a process that may not be read.
CONSTANTS
  Pid = {c1}
  Child = {c1}
  Window = 2
  Timeouts = {0}
  Monitor = TRUE
  Forking = FALSE
  Others = {}
  ScanRace = FALSE
  Unreadable = {c1}
  Interrupts = FALSE
  EarlyTerm = FALSE
SPECIFICATION Spec
CHECK_DEADLOCK FALSE
PROPERTIES
  EveryoneReallyDead
