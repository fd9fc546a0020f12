\* One enable at a time: liveness.
SPECIFICATION FairSpec
CONSTANTS
  Proc = {p1, p2}
  NoProc = NoProc
  MaxSeq = 1
  InvalidSeqs = {}
  MaxStops = 1
  StaleAge = 2
  Overlap = FALSE
  CrashAt = {}
  MayHang = TRUE
  ScanMayFail = TRUE
PROPERTIES
  EnableAnswered
  OldProcessesEnd
\* Every process may have ended.
CHECK_DEADLOCK FALSE
