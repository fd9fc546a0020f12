\* Overlapping enables, with crashes, hangs and a stop.
SPECIFICATION Spec
CONSTANTS
  Proc = {p1, p2, p3}
  NoProc = NoProc
  MaxSeq = 1
  InvalidSeqs = {0}
  MaxStops = 1
  StaleAge = 2
  Overlap = TRUE
  CrashAt <- Anywhere
  MayHang = TRUE
  ScanMayFail = FALSE
SYMMETRY Symmetry
INVARIANTS
  TypeOK
  AtMostOneServing
  PlaceholderCoversNothing
PROPERTY
  NobodyElseReports
\* Every process may have ended.
CHECK_DEADLOCK FALSE
