SPECIFICATION MCSpec
CONSTANTS
  Pid = {p1}
  Target = {t1, t2}
  DeniedTarget = t1
  Policy <- MCPolicy
  ConnectRule <- MCConnectRule
  None = None
  RingCap = 2
  MaxDenials = 3
  MaxReloads = 2
INVARIANT EachDenyExplained
CHECK_DEADLOCK FALSE
