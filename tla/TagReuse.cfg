SPECIFICATION Spec
CONSTANTS
  Pid = {p1, p2}
  InitPid = InitPid
  Running = {}
  WalkDepth = 2
  MaxTime = 6
  RingCap = 3
  MaxTags = 4
  PromptReuse = FALSE
SYMMETRY PidSymmetry
INVARIANT ReuseNotMisattributed
CHECK_DEADLOCK FALSE
