SPECIFICATION MCSpec
CONSTANTS
  t1 = t1
  t2 = t2
  t3 = t3
  p1 = p1
  p2 = p2
  secret = secret
  public = public
  Thread <- MCThread
  Process <- MCProcess
  ProcessOf <- MCProcessOf
  Cpu = {c1, c2}
  Target <- MCTarget
  Denied <- MCDenied
  Kind = {"rename"}
  MapCap = 2
  MaxCalls = 3
SYMMETRY StagingSymmetry
INVARIANT UnresolvedDenied
