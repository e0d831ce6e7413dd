SPECIFICATION MCSpec
CONSTANTS
  t1 = t1
  t2 = t2
  t3 = t3
  p1 = p1
  p2 = p2
  secret = secret
  public = public
  Thread <- MCThread
  Process <- MCProcess
  ProcessOf <- MCProcessOf
  Cpu = {c1, c2}
  Target <- MCTarget
  Denied <- MCDenied
  Kind = {"open", "connect", "unlink", "rename"}
  MapCap = 1
  MaxCalls = 3
SYMMETRY StagingSymmetry
INVARIANTS TypeOK OwnVerdict UnlinkNeverUnjudged
PROPERTY NeverOthersTarget
