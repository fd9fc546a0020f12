\* One enable at a time, with hangs, a stop and failing starts.
SPECIFICATION Spec
CONSTANTS
  Proc = {p1, p2, p3}
  NoProc = NoProc
  MaxSeq = 2
  InvalidSeqs = {}
  MaxStops = 1
  StaleAge = 2
  Overlap = FALSE
  CrashAt <- BeforeService
  MayHang = TRUE
  ScanMayFail = FALSE
SYMMETRY Symmetry
INVARIANT
  KillsOnlyOlder
PROPERTIES
  SeqNumNeverRegresses
  IdempotentExitIsCovered
  ImplementsSuccession
\* Every process may have ended.
CHECK_DEADLOCK FALSE
