\* One enable at a time, a polling process that hangs.
SPECIFICATION Spec
CONSTANTS
  Proc = {p1, p2, p3}
  NoProc = NoProc
  MaxSeq = 1
  InvalidSeqs = {}
  MaxStops = 0
  StaleAge = 2
  Overlap = FALSE
  CrashAt = {}
  MayHang = TRUE
  ScanMayFail = FALSE
PROPERTY
  FreshMeansAlive
\* Every process may have ended.
CHECK_DEADLOCK FALSE
