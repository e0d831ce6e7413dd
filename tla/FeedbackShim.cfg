SPECIFICATION MCSpec
CONSTANTS
  FirstPid = p1
  Pid = {p1, p2}
  Agent = {a1}
  None = None
  MaxPerAgent = 1
  FileLimit = 1
  HTTPLimit = 1
  Grace = 0
  Wait = 0
  MaxTime = 2
  MaxProcs = 2
  MaxDenials = 2
  MaxCrashes = 1
INVARIANTS TypeOK ShownIsOwn RecordedIsShown
PROPERTY ShimEnds
CHECK_DEADLOCK FALSE
