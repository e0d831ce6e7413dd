SPECIFICATION Spec
CONSTANTS
  Signed <- MCSigned
  Ctl = {c1, c2}
  Absent = Absent
  Empty = Empty
  MaxOps = 2
  MaxCrashes = 0
SYMMETRY CtlSymmetry
INVARIANT ManifestListsAll
CHECK_DEADLOCK FALSE
