\* Everything may happen, with a timeout or without.
CONSTANTS
  Pid = {c1, c2, p1}
  Child = {c1, c2}
  Window = 2
  Timeouts = {0, 1}
  Monitor = TRUE
  Forking = TRUE
  Others = {c1}
  ScanRace = TRUE
  Unreadable = {c1, c2}
  Interrupts = TRUE
  EarlyTerm = TRUE
SPECIFICATION Spec
CHECK_DEADLOCK FALSE
INVARIANTS
  TypeOK
  RunningChildMonitored
  NoEarlyKill
  ChildrenKilled
PROPERTIES
  EndsInTime
  StopEnds
  EndsAfterAll
