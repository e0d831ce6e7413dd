--------------------------- MODULE MCFeedbackShim ---------------------------
(* A small instance of FeedbackShim.  Pids are interchangeable: nothing in   *)
(* Init, Next or the properties tells them apart.  TLC's symmetry sets are    *)
(* not sound for liveness, so the first process is given a fixed pid instead. *)
EXTENDS FeedbackShim

CONSTANT FirstPid

FirstGets(p) == used.procs = 0 => p = FirstPid

MCNext ==
  \/ \E p \in Pid, a \in Agent \cup {None} : FirstGets(p) /\ (StartOther(p, a) \/ Spawn(p, a))
  \/ \E p \in Pid : ExitOther(p) \/ Deny(p)
  \/ Record \/ EndLine \/ Crash \/ Restart
  \/ \E a \in Agent \cup {None} : ShimBegin(a)
  \/ (\E failed \in BOOLEAN : CommandEnds(failed)) \/ Poll
  \/ Tick

MCSpec == Init /\ [][MCNext]_vars /\ WF_vars(Poll) /\ WF_vars(Tick)
=============================================================================
