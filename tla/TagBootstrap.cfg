SPECIFICATION FairSpec
CONSTANTS
  Pid = {p1, p2, p3}
  InitPid = InitPid
  Running = {p1, p2}
  WalkDepth = 2
  MaxTime = 2
  RingCap = 2
  MaxTags = 4
  PromptReuse = TRUE
INVARIANT LineageTagged
PROPERTY EventuallyTagged
CHECK_DEADLOCK FALSE
