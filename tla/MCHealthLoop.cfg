\* Safety, refinement and liveness of the health loop.
SPECIFICATION HFairSpec
CONSTANTS
  Settings <- SomeSettings
  Answers <- SomeAnswers
  ProbeDurations <- SomeDurations
INVARIANTS
  TypeOK
  InitializingIffGrace
  LateWorkBound
  ReturnsInTime
  GraceOverrunBound
  PromptHealthyNeverCondemned
PROPERTIES
  ImplementsVerdict
  ShutdownStops
  GraceEnds
  Responsive
\* enable returns: the process then stops.
CHECK_DEADLOCK FALSE
