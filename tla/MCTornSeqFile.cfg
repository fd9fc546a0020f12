\* A crash inside SetSequenceNumber.
SPECIFICATION Spec
CONSTANTS
  Proc = {p1, p2}
  NoProc = NoProc
  MaxSeq = 1
  InvalidSeqs = {}
  MaxStops = 0
  StaleAge = 2
  Overlap = FALSE
  CrashAt <- Anywhere
  MayHang = FALSE
  ScanMayFail = FALSE
INVARIANT
  SeqFileReadable
\* Every process may have ended.
CHECK_DEADLOCK FALSE
