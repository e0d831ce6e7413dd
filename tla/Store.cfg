SPECIFICATION Spec
CONSTANTS
  Signed <- MCSigned
  Ctl = {c1, c2}
  Absent = Absent
  Empty = Empty
  MaxOps = 3
  MaxCrashes = 1
SYMMETRY CtlSymmetry
INVARIANTS TypeOK PointerAfterFiles RewrittenWhole
PROPERTY LoadTakesEffect
CHECK_DEADLOCK FALSE
