\* A VMWatch that runs long enough to reset the retry counters.
SPECIFICATION Spec
CONSTANTS
  MaxCycles = 2
  AttemptsPerCycle = 2
  SuccessTicks = 2
  MayStop = FALSE
  None = None
INVARIANT
  ResetRestartsCycles
\* enable exits.
CHECK_DEADLOCK FALSE
