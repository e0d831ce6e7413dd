SPECIFICATION Spec
CONSTANTS
  Pid = {p1, p2, p3}
  InitPid = InitPid
  Running = {}
  WalkDepth = 2
  MaxTime = 5
  RingCap = 3
  MaxTags = 2
  PromptReuse = TRUE
SYMMETRY PidSymmetry
INVARIANTS TypeOK LineageTagged LineageKnown TaggedOrQueued
PROPERTY TagSticks
CHECK_DEADLOCK FALSE
