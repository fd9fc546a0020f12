\* Liveness of the VMWatch supervision.
SPECIFICATION FairSpec
CONSTANTS
  MaxCycles = 2
  AttemptsPerCycle = 1
  SuccessTicks = 1
  MayStop = FALSE
  None = None
PROPERTIES
  HungIsKilled
  SupervisorGoesOn
  EndIsReported
  GivenUpIsPublished
  ShutdownEndsVMWatch
\* enable exits.
CHECK_DEADLOCK FALSE
