\* Any kernel.
CONSTANTS
  MaxTime = 5
  MaxWait = 1
SPECIFICATION Spec
INVARIANTS
  TypeOK
  TimesTrue
  TimesAddUp
  WaitIsSleep
