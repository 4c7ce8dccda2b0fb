\* A command that goes into the background.
CONSTANTS
  Pid = {c1, p1}
  Child = {c1}
  Window = 2
  Timeouts = {2}
  Monitor = FALSE
  Forking = TRUE
  Others = {}
  ScanRace = FALSE
  Unreadable = {}
  Interrupts = FALSE
  EarlyTerm = FALSE
SPECIFICATION Spec
CHECK_DEADLOCK FALSE
PROPERTIES
  EveryoneReallyDead
