-------------------------- MODULE MCSyscallStaging --------------------------
(* Small instances of SyscallStaging: a process of two threads and one of a   *)
(* single thread, two CPUs, one target that is denied and one that is not.    *)
EXTENDS SyscallStaging, TLC

CONSTANTS t1, t2, t3, p1, p2, secret, public

MCProcessOf == (t1 :> p1) @@ (t2 :> p1) @@ (t3 :> p2)
MCThread == {t1, t2, t3}
MCProcess == {p1, p2}
MCTarget == {secret, public}
MCDenied == {secret}
\* CPUs are interchangeable, and so are the threads of a process.
StagingSymmetry == Permutations(Cpu) \cup Permutations({t1, t2})

\* Nothing depends on the targets of a call that the tracepoint cannot read.
MCArg(k) == {arg \in Arg(k) : arg.readable \/ arg.names = MCDenied}

\* Calls of different kinds share no map: one kind per behaviour is enough.
VARIABLE kind

MCInit == Init /\ kind \in Kind

MCNext ==
  /\ \/ \E t \in Thread, cpu \in Cpu : \E arg \in MCArg(kind) : Enter(t, kind, arg, cpu)
     \/ \E t \in Thread, cpu \in Cpu : Hook(t, cpu)
     \/ \E p \in Process : SetTag(p)
  /\ UNCHANGED kind

MCSpec == MCInit /\ [][MCNext]_<<vars, kind>>
=============================================================================
