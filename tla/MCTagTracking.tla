--------------------------- MODULE MCTagTracking ---------------------------
(* Small instances of TagTracking: two or three pids besides init, which are  *)
(* interchangeable.                                                           *)
EXTENDS TagTracking, TLC

PidSymmetry == Permutations(Pid)
=============================================================================
