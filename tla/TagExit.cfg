SPECIFICATION Spec
CONSTANTS
  Pid = {p1, p2, p3}
  InitPid = InitPid
  Running = {}
  WalkDepth = 2
  MaxTime = 5
  RingCap = 3
  MaxTags = 4
  PromptReuse = FALSE
SYMMETRY PidSymmetry
INVARIANT ExitDeletesTag
CHECK_DEADLOCK FALSE
