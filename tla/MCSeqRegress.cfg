\* Overlapping enables of two sequence numbers.
SPECIFICATION Spec
CONSTANTS
  Proc = {p1, p2}
  NoProc = NoProc
  MaxSeq = 2
  InvalidSeqs = {}
  MaxStops = 0
  StaleAge = 2
  Overlap = TRUE
  CrashAt = {}
  MayHang = FALSE
  ScanMayFail = FALSE
PROPERTY
  SeqNumNeverRegresses
\* Every process may have ended.
CHECK_DEADLOCK FALSE
