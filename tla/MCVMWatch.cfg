\* Safety of the VMWatch supervision.
SPECIFICATION Spec
CONSTANTS
  MaxCycles = 2
  AttemptsPerCycle = 2
  SuccessTicks = 1
  MayStop = TRUE
  None = None
INVARIANTS
  TypeOK
  AtMostOneVMWatch
  AliveIsReportedRunning
  WatchersPaired
  AttemptsBounded
  StopIsClean
PROPERTY
  ImplementsSupervision
\* enable exits.
CHECK_DEADLOCK FALSE
