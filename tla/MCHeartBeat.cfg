\* The heartbeat of handler.log against the staleness threshold.
SPECIFICATION Spec
CONSTANTS
  Settings <- SomeIntervals
  ProbeDurations = {2, 30}
  MaxStart = 4
INVARIANTS
  TypeOK
  NoFalseTakeOver
