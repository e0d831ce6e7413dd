------------------------ MODULE SyscallStagingProofs ------------------------
(* Theorems about SyscallStaging, for any processes, threads, CPUs, targets   *)
(* and number of calls.                                                       *)
EXTENDS SyscallStaging, FiniteSetTheorems, TLAPS

\* The part of an argument the proofs depend on.
ArgType == [names : SUBSET Target, readable : BOOLEAN, empty : BOOLEAN]

CallType ==
  [at : {"user", "kernel"}, kind : Kind \cup {"none"}, arg : ArgType, fresh : BOOLEAN,
   gated : BOOLEAN, judged : SUBSET Target, by : Process \cup {"none"}, res : {"allow", "deny"}]

\* The type invariant in the form the proofs need.
Typed ==
  /\ tagged \subseteq Process
  /\ calls \in 0..MaxCalls
  /\ pending \in [Kind -> UNION {[D -> Entry] : D \in SUBSET Process}]
  /\ percpu \in [Kind -> [Cpu -> Entry \cup {Zeroed}]]
  /\ call \in [Thread -> CallType]

\* What a call stages under its process.
EntryOf(t) ==
  [names |-> StagedNames(call[t].arg), empty |-> call[t].arg.empty, by |-> ProcessOf[t]]

\* A call in the kernel, not judged yet: its kind is known, only an unlink may
\* have an empty path, and its process's entry is the call's own while fresh.
InKernel(t) ==
  call[t].at = "kernel" =>
    /\ call[t].kind \in Kind
    /\ call[t].arg.empty => call[t].kind = "unlink"
    /\ call[t].fresh => /\ ProcessOf[t] \in DOMAIN pending[call[t].kind]
                        /\ pending[call[t].kind][ProcessOf[t]] = EntryOf(t)

\* The inductive invariant.
StagingInv ==
  /\ Typed
  /\ \A t \in Thread : InKernel(t)
  /\ OwnVerdict /\ UnlinkNeverUnjudged

-----------------------------------------------------------------------------

\* Arguments are of their type, and only unlinks have an empty path.
LEMMA ArgTyped ==
  ASSUME NEW kind, NEW arg \in Arg(kind)
  PROVE  arg \in ArgType /\ (arg.empty => kind = "unlink")
BY Zenon DEF Arg, ArgType

\* A thread that has not called anything yet.
LEMMA IdleTyped == Idle \in CallType
BY Zenon DEF Idle, CallType, ArgType

\* A step of Enter, by its effect on the maps and on the threads.
LEMMA EnterKeeps ==
  ASSUME StagingInv, NEW t \in Thread, NEW kind \in Kind, NEW cpu \in Cpu, NEW arg \in Arg(kind),
         Enter(t, kind, arg, cpu)
  PROVE  StagingInv'
<1> DEFINE p == ProcessOf[t]
           staged == p \in tagged /\ Stages(kind, arg)
           stored == staged /\ HasRoom(kind, p)
           entry == [names |-> StagedNames(arg), empty |-> arg.empty, by |-> p]
           mine == [Idle EXCEPT !.at = "kernel", !.kind = kind, !.arg = arg, !.fresh = stored]
           new == [q \in DOMAIN pending[kind] \cup {p} |-> IF q = p THEN entry ELSE pending[kind][q]]
<1>1. p \in Process /\ \A u \in Thread : ProcessOf[u] \in Process
  BY StagingAssumption, Zenon
<1>2. arg \in ArgType /\ (arg.empty => kind = "unlink")
  BY ArgTyped, Zenon
<1>3. entry \in Entry
  BY <1>1, <1>2, Zenon DEF Entry, ArgType, StagedNames
<1>4. stored \in BOOLEAN
  BY Zenon
<1>5. mine \in CallType
  BY <1>2, <1>4, Zenon DEF CallType, Idle, ArgType
<1>6. /\ pending' = IF stored THEN [pending EXCEPT ![kind] = new] ELSE pending
      /\ percpu' = IF staged THEN [percpu EXCEPT ![kind][cpu] = entry] ELSE percpu
      /\ call' = [u \in Thread |->
                    IF u = t THEN mine
                    ELSE IF stored /\ ProcessOf[u] = p /\ call[u].at = "kernel" /\ call[u].kind = kind
                    THEN [call[u] EXCEPT !.fresh = FALSE]
                    ELSE call[u]]
      /\ tagged' = tagged /\ calls < MaxCalls /\ calls' = calls + 1
  BY Zenon DEF Enter
<1>7. new \in UNION {[D -> Entry] : D \in SUBSET Process}
  <2>1. PICK D \in SUBSET Process : pending[kind] \in [D -> Entry]
    BY DEF StagingInv, Typed
  <2>2. new \in [D \cup {p} -> Entry] /\ D \cup {p} \in SUBSET Process
    BY <1>1, <1>3, <2>1, Zenon
  <2>3. QED
    BY <2>2, Zenon
<1>8. \A u \in Thread : call[u] \in CallType /\ [call[u] EXCEPT !.fresh = FALSE] \in CallType
  BY ZenonT(30) DEF StagingInv, Typed, CallType
<1>9. Typed'
  <2>1. call' \in [Thread -> CallType]
    BY <1>5, <1>6, <1>8, Zenon
  <2>2. pending' \in [Kind -> UNION {[D -> Entry] : D \in SUBSET Process}]
    BY <1>6, <1>7, Zenon DEF StagingInv, Typed
  <2>3. percpu' \in [Kind -> [Cpu -> Entry \cup {Zeroed}]]
    BY <1>3, <1>6, Zenon DEF StagingInv, Typed
  <2>4. calls' \in 0..MaxCalls
    BY <1>6, StagingAssumption DEF StagingInv, Typed
  <2>5. QED
    BY <1>6, <2>1, <2>2, <2>3, <2>4, Zenon DEF StagingInv, Typed
<1>10. ASSUME NEW u \in Thread PROVE InKernel(u)'
  <2>1. CASE u = t
    <3>1. call'[u] = mine
      BY <1>6, <2>1, Zenon
    <3>2. /\ mine.kind = kind /\ mine.arg = arg /\ mine.fresh = stored
      BY Zenon DEF Idle
    <3>3. stored => p \in DOMAIN pending'[kind] /\ pending'[kind][p] = entry
      BY <1>6, Zenon DEF StagingInv, Typed
    <3>4. QED
      BY <1>2, <2>1, <3>1, <3>2, <3>3, ZenonT(60) DEF InKernel, EntryOf
  <2>2. CASE u # t
    <3>1. /\ call'[u].at = call[u].at /\ call'[u].kind = call[u].kind /\ call'[u].arg = call[u].arg
          /\ call'[u].fresh => call[u].fresh
          /\ call'[u].at = "kernel" /\ call'[u].fresh => ~(stored /\ ProcessOf[u] = p /\ call[u].kind = kind)
      BY <1>6, <1>8, <2>2 DEF CallType
    <3>2. InKernel(u)
      BY Zenon DEF StagingInv
    <3>3. ASSUME call'[u].at = "kernel", call'[u].fresh
          PROVE  /\ ProcessOf[u] \in DOMAIN pending'[call[u].kind]
                 /\ pending'[call[u].kind][ProcessOf[u]] = pending[call[u].kind][ProcessOf[u]]
      BY <1>6, <3>1, <3>2, <3>3, Zenon DEF InKernel, StagingInv, Typed
    <3>4. QED
      BY <3>1, <3>2, <3>3, Zenon DEF InKernel, EntryOf
  <2>3. QED
    BY <2>1, <2>2, Zenon
<1>11. ASSUME NEW u \in Thread, Judged(u)'
       PROVE  Judged(u) /\ call'[u] = call[u]
  <2>1. mine.at = "kernel"
    BY Zenon DEF Idle
  <2>2. u # t
    BY <1>6, <1>11, <2>1, Zenon DEF Judged
  <2>3. call[u].at # "kernel"
    BY <1>6, <1>8, <1>11, <2>2 DEF Judged, CallType
  <2>4. QED
    BY <1>6, <1>11, <2>2, <2>3, Zenon DEF Judged
<1>12. OwnVerdict' /\ UnlinkNeverUnjudged'
  BY <1>11, Zenon DEF StagingInv, OwnVerdict, UnlinkNeverUnjudged, Policy
<1>13. QED
  BY <1>9, <1>10, <1>12, Zenon DEF StagingInv

\* A verdict is one of the two.
LEMMA VerdictTyped ==
  ASSUME NEW kind, NEW e PROVE FromPending(kind, e) \in {"allow", "deny"}
BY Zenon DEF FromPending

\* The hook judges a call on its own argument while it is fresh, and lets no
\* unlink or rename through without a path.
LEMMA HookKeeps ==
  ASSUME StagingInv, NEW t \in Thread, NEW cpu \in Cpu, Hook(t, cpu)
  PROVE  StagingInv'
<1> DEFINE p == ProcessOf[t]
           kind == call[t].kind
           gated == p \in tagged
           e == Lookup(kind, p, cpu)
           done == [call[t] EXCEPT !.at = "user", !.gated = gated,
                      !.judged = IF gated THEN e.names ELSE {},
                      !.by = IF gated /\ Valid(e) THEN e.by ELSE "none",
                      !.res = IF gated THEN FromPending(kind, e) ELSE "allow"]
<1>1. call[t] \in CallType /\ call[t].at = "kernel" /\ kind \in Kind /\ InKernel(t)
  BY Zenon DEF StagingInv, Typed, Hook, InKernel
<1>2. e \in Entry \cup {Zeroed}
  BY <1>1 DEF Lookup, StagingInv, Typed
<1>3. e.names \subseteq Target /\ (Valid(e) => e.by \in Process)
  BY <1>2 DEF Entry, Zeroed, Valid
<1>4. done \in CallType
  <2>1. gated \in BOOLEAN /\ FromPending(kind, e) \in {"allow", "deny"}
    BY VerdictTyped
  <2>2. QED
    BY <1>1, <1>3, <2>1, ZenonT(30) DEF CallType
<1>5. call' = [call EXCEPT ![t] = done] /\ UNCHANGED <<tagged, pending, percpu, calls>>
  BY <1>1, ZenonT(30) DEF Hook, StagingInv, Typed, CallType
<1>6. Typed'
  BY <1>4, <1>5, Zenon DEF StagingInv, Typed
<1>7. \A u \in Thread : u # t => call'[u] = call[u]
  BY <1>5, Zenon DEF StagingInv, Typed
<1>8. /\ call'[t].at = "user" /\ call'[t].kind = kind /\ call'[t].arg = call[t].arg
      /\ call'[t].fresh = call[t].fresh /\ call'[t].gated = gated
      /\ gated => call'[t].judged = e.names /\ call'[t].res = FromPending(kind, e)
  BY <1>1, <1>5, Zenon DEF StagingInv, Typed, CallType
<1>9. ASSUME NEW u \in Thread PROVE InKernel(u)'
  <2>1. CASE u = t
    BY <1>8, <2>1, Zenon DEF InKernel
  <2>2. CASE u # t
    BY <1>5, <1>7, <2>2 DEF InKernel, EntryOf, StagingInv
  <2>3. QED
    BY <2>1, <2>2, Zenon
<1>10. ASSUME gated, call[t].fresh, call[t].arg.readable, call[t].arg.names # {}
       PROVE  FromPending(kind, e) = Policy(kind, call[t].arg)
  <2>1. p \in DOMAIN pending[kind] /\ pending[kind][p] = EntryOf(t)
    BY <1>1, <1>10, Zenon DEF InKernel
  <2>2. EntryOf(t).names = call[t].arg.names /\ EntryOf(t).empty = call[t].arg.empty
    BY <1>10, Zenon DEF EntryOf, StagedNames
  <2>3. e = EntryOf(t) /\ Valid(e)
    BY <1>10, <2>1, <2>2, Zenon DEF Lookup, Valid
  <2>4. e.empty => kind = "unlink"
    BY <1>1, <2>2, <2>3, Zenon DEF InKernel
  <2>5. QED
    BY <1>10, <2>2, <2>3, <2>4, Zenon DEF FromPending, Policy
<1>11. OwnVerdict'
  <2> SUFFICES ASSUME NEW u \in Thread, Judged(u)', call'[u].fresh, call'[u].arg.readable,
                      call'[u].arg.names # {}
               PROVE  call'[u].res = Policy(call'[u].kind, call'[u].arg)
    BY Zenon DEF OwnVerdict, Policy
  <2>1. CASE u = t
    BY <1>8, <1>10, <2>1, Zenon DEF Judged
  <2>2. CASE u # t
    BY <1>7, <2>2, Zenon DEF StagingInv, OwnVerdict, Judged
  <2>3. QED
    BY <2>1, <2>2, Zenon
<1>12. UnlinkNeverUnjudged'
  <2> SUFFICES ASSUME NEW u \in Thread, Judged(u)', call'[u].kind \in {"unlink", "rename"},
                      call'[u].res = "allow"
               PROVE  call'[u].judged # {}
    BY Zenon DEF UnlinkNeverUnjudged
  <2>1. CASE u = t
    <3>1. gated /\ FromPending(kind, e) = "allow" /\ kind \in {"unlink", "rename"}
      BY <1>8, <2>1, Zenon DEF Judged
    <3>2. Valid(e)
      BY <3>1, Zenon DEF FromPending
    <3>3. QED
      BY <1>8, <2>1, <3>1, <3>2, Zenon DEF Valid
  <2>2. CASE u # t
    BY <1>7, <2>2, Zenon DEF StagingInv, UnlinkNeverUnjudged, Judged
  <2>3. QED
    BY <2>1, <2>2, Zenon
<1>13. QED
  BY <1>6, <1>9, <1>11, <1>12, Zenon DEF StagingInv

\* The invariant depends on the tags by their type only.
LEMMA FrameKeeps ==
  ASSUME StagingInv, tagged' \subseteq Process, UNCHANGED <<pending, percpu, call, calls>>
  PROVE  StagingInv'
BY Zenon DEF StagingInv, Typed, InKernel, EntryOf, OwnVerdict, UnlinkNeverUnjudged, Judged, Policy

\* The invariant holds in every reachable state: whatever threads stage, on
\* whichever CPUs, and whenever tags change.
THEOREM StagingInvariant == Spec => []StagingInv
<1>1. Init => StagingInv
  <2> SUFFICES ASSUME Init PROVE StagingInv
    BY Zenon
  <2>1. << >> \in UNION {[D -> Entry] : D \in SUBSET Process}
    <3>1. << >> \in [{} -> Entry] /\ {} \in SUBSET Process
      OBVIOUS
    <3>2. QED
      BY <3>1, Zenon
  <2>2. Typed
    <3>1. pending \in [Kind -> UNION {[D -> Entry] : D \in SUBSET Process}]
      BY <2>1, Zenon DEF Init
    <3>2. percpu \in [Kind -> [Cpu -> Entry \cup {Zeroed}]] /\ call \in [Thread -> CallType]
      BY IdleTyped, Zenon DEF Init
    <3>3. tagged \subseteq Process /\ calls \in 0..MaxCalls
      BY StagingAssumption DEF Init
    <3>4. QED
      BY <3>1, <3>2, <3>3, Zenon DEF Typed
  <2>3. \A t \in Thread : call[t].at = "user" /\ ~call[t].gated
    BY Zenon DEF Init, Idle
  <2>4. QED
    BY <2>2, <2>3, Zenon DEF StagingInv, InKernel, OwnVerdict, UnlinkNeverUnjudged, Judged
<1>2. StagingInv /\ [Next]_vars => StagingInv'
  <2> SUFFICES ASSUME StagingInv, [Next]_vars PROVE StagingInv'
    BY Zenon
  <2>1. ASSUME NEW t \in Thread, NEW kind \in Kind, NEW cpu \in Cpu, NEW arg \in Arg(kind),
               Enter(t, kind, arg, cpu)
        PROVE  StagingInv'
    BY <2>1, EnterKeeps, Zenon
  <2>2. ASSUME NEW t \in Thread, NEW cpu \in Cpu, Hook(t, cpu) PROVE StagingInv'
    BY <2>2, HookKeeps, Zenon
  <2>3. ASSUME NEW p \in Process, SetTag(p) PROVE StagingInv'
    BY <2>3, FrameKeeps, Zenon DEF SetTag, StagingInv, Typed
  <2>4. CASE UNCHANGED vars
    BY <2>4, FrameKeeps, Zenon DEF vars, StagingInv, Typed
  <2>5. QED
    BY <2>1, <2>2, <2>3, <2>4, Zenon DEF Next
<1>3. QED
  BY <1>1, <1>2, PTL DEF Spec

\* A pending map never holds more than its capacity.
Capped(k) == IsFiniteSet(DOMAIN pending[k]) /\ Cardinality(DOMAIN pending[k]) <= MapCap

\* The type invariant holds, the capacity of the maps included.
THEOREM TypeCorrect == Spec => []TypeOK
<1> DEFINE Cap == \A k \in Kind : Capped(k)
<1>1. Init => Cap
  <2>1. Cardinality({}) = 0 /\ IsFiniteSet({}) /\ 0 <= MapCap
    BY FS_EmptySet, StagingAssumption
  <2>2. DOMAIN << >> = {}
    BY SMTT(30)
  <2>3. QED
    BY <2>1, <2>2, Zenon DEF Init, Capped
<1>2. StagingInv /\ Cap /\ [Next]_vars => Cap'
  <2> SUFFICES ASSUME StagingInv, Cap, [Next]_vars, NEW k \in Kind PROVE Capped(k)'
    BY Zenon
  <2>1. ASSUME NEW t \in Thread, NEW kind \in Kind, NEW cpu \in Cpu, NEW arg \in Arg(kind),
               Enter(t, kind, arg, cpu)
        PROVE  Capped(k)'
    <3> DEFINE p == ProcessOf[t]
               S == DOMAIN pending[k]
    <3>1. CASE DOMAIN pending'[k] = S
      BY <3>1, Zenon DEF Capped
    <3>2. CASE DOMAIN pending'[k] # S
      <4>1. k = kind /\ HasRoom(kind, p) /\ DOMAIN pending'[k] = S \cup {p}
        BY <2>1, <3>2, Zenon DEF Enter, StagingInv, Typed
      <4>2. p \notin S /\ Cardinality(S) < MapCap
        BY <3>2, <4>1, Zenon DEF HasRoom
      <4>3. IsFiniteSet(S) /\ Cardinality(S) \in Nat
        BY FS_CardinalityType, Zenon DEF Capped
      <4>4. IsFiniteSet(S \cup {p}) /\ Cardinality(S \cup {p}) = Cardinality(S) + 1
        BY <4>2, <4>3, FS_AddElement, Zenon
      <4>5. QED
        BY <4>1, <4>2, <4>3, <4>4, StagingAssumption DEF Capped
    <3>3. QED
      BY <3>1, <3>2, Zenon
  <2>2. CASE UNCHANGED pending
    BY <2>2, Zenon DEF Capped
  <2>3. QED
    BY <2>1, <2>2, ZenonT(30) DEF Next, Hook, SetTag, vars
<1>3. StagingInv /\ Cap => TypeOK
  <2> SUFFICES ASSUME StagingInv, Cap PROVE TypeOK
    BY Zenon
  <2>1. ASSUME NEW k \in Kind
        PROVE  /\ DOMAIN pending[k] \subseteq Process
               /\ \A p \in DOMAIN pending[k] : pending[k][p] \in Entry
    <3>1. PICK D \in SUBSET Process : pending[k] \in [D -> Entry]
      BY DEF StagingInv, Typed
    <3>2. QED
      BY <3>1, Zenon
  <2>2. \A k \in Kind : \A c \in Cpu : percpu[k][c] = Zeroed \/ percpu[k][c] \in Entry
    BY Zenon DEF StagingInv, Typed
  <2>3. \A t \in Thread : call[t] \in CallType
    BY Zenon DEF StagingInv, Typed
  <2>4. QED
    BY <2>1, <2>2, <2>3, Zenon DEF TypeOK, StagingInv, Typed, CallType, Capped
<1>4. QED
  BY <1>1, <1>2, <1>3, StagingInvariant, PTL DEF Spec

\* A call whose target is stored under its process gets the policy's verdict on
\* its own target, for any number of threads, processes and CPUs.
THEOREM VerdictIsOwn == Spec => []OwnVerdict
<1>1. StagingInv => OwnVerdict
  BY Zenon DEF StagingInv
<1>2. QED
  BY <1>1, StagingInvariant, PTL

\* No unlink or rename of a tagged process goes through unjudged.
THEOREM UnlinkJudged == Spec => []UnlinkNeverUnjudged
<1>1. StagingInv => UnlinkNeverUnjudged
  BY Zenon DEF StagingInv
<1>2. QED
  BY <1>1, StagingInvariant, PTL

\* Every entry of a map was staged by its process and, but for unlinks, names
\* something.
OwnEntries ==
  \A k \in Kind : \A p \in DOMAIN pending[k] :
    pending[k][p].by = p /\ (k # "unlink" => Valid(pending[k][p]))

\* A process that has an entry of its own is never judged on another's.
THEOREM JudgedOnOwn == Spec => NeverOthersTarget
<1> DEFINE Step == \A t \in Thread :
                     /\ call[t].at = "kernel" /\ call'[t].at = "user" /\ call'[t].gated
                     /\ call[t].kind # "unlink" /\ ProcessOf[t] \in DOMAIN pending[call[t].kind]
                     => call'[t].by = ProcessOf[t]
<1>1. Init => OwnEntries
  BY DEF Init, OwnEntries
<1>2. StagingInv /\ OwnEntries /\ [Next]_vars => OwnEntries'
  <2> SUFFICES ASSUME StagingInv, OwnEntries, [Next]_vars PROVE OwnEntries'
    BY Zenon
  <2>1. ASSUME NEW t \in Thread, NEW kind \in Kind, NEW cpu \in Cpu, NEW arg \in Arg(kind),
               Enter(t, kind, arg, cpu)
        PROVE  OwnEntries'
    <3> DEFINE entry == [names |-> StagedNames(arg), empty |-> arg.empty, by |-> ProcessOf[t]]
    <3>1. SUFFICES ASSUME NEW k \in Kind, NEW q \in DOMAIN pending'[k]
                   PROVE  pending'[k][q].by = q /\ (k # "unlink" => Valid(pending'[k][q]))
      BY Zenon DEF OwnEntries, Valid
    <3>2. \/ q \in DOMAIN pending[k] /\ pending'[k][q] = pending[k][q]
          \/ /\ k = kind /\ q = ProcessOf[t] /\ pending'[k][q] = entry
             /\ Stages(kind, arg)
      BY <2>1, Zenon DEF Enter, StagingInv, Typed
    <3>3. kind # "unlink" /\ Stages(kind, arg) => Valid(entry)
      BY Zenon DEF Stages, StagedNames, Valid
    <3>4. QED
      BY <3>2, <3>3 DEF OwnEntries
  <2>2. CASE UNCHANGED pending
    BY <2>2, Zenon DEF OwnEntries, Valid
  <2>3. QED
    BY <2>1, <2>2, ZenonT(30) DEF Next, Hook, SetTag, vars
<1>3. StagingInv /\ OwnEntries /\ [Next]_vars => [Step]_vars
  <2> SUFFICES ASSUME StagingInv, OwnEntries, Next,
                      NEW t \in Thread, call[t].at = "kernel", call'[t].at = "user", call'[t].gated,
                      call[t].kind # "unlink", ProcessOf[t] \in DOMAIN pending[call[t].kind]
               PROVE  call'[t].by = ProcessOf[t]
    BY Zenon
  <2>1. call[t] \in CallType /\ call[t].kind \in Kind
    BY Zenon DEF StagingInv, Typed, InKernel
  <2>2. ASSUME NEW u \in Thread, NEW kind \in Kind, NEW cpu \in Cpu, NEW arg \in Arg(kind),
               Enter(u, kind, arg, cpu)
        PROVE  FALSE
    <3>1. call'[t].at = "kernel"
      BY <2>1, <2>2, Zenon DEF Enter, Idle, CallType
    <3>2. QED
      BY <3>1, Zenon
  <2>3. ASSUME NEW u \in Thread, NEW cpu \in Cpu, Hook(u, cpu) PROVE call'[t].by = ProcessOf[t]
    <3> DEFINE e == Lookup(call[t].kind, ProcessOf[t], cpu)
    <3>1. u = t
      BY <2>1, <2>3, Zenon DEF Hook, StagingInv, Typed
    <3>2. e = pending[call[t].kind][ProcessOf[t]] /\ Valid(e) /\ e.by = ProcessOf[t]
      BY <2>1, Zenon DEF OwnEntries, Lookup
    <3>3. call'[t].gated = (ProcessOf[t] \in tagged)
          /\ call'[t].by = IF ProcessOf[t] \in tagged /\ Valid(e) THEN e.by ELSE "none"
      BY <2>1, <2>3, <3>1, ZenonT(30) DEF Hook, StagingInv, Typed, CallType
    <3>4. QED
      BY <3>2, <3>3, Zenon
  <2>4. CASE UNCHANGED call
    BY <2>4, Zenon
  <2>5. QED
    BY <2>2, <2>3, <2>4, Zenon DEF Next, SetTag
<1>4. QED
  BY <1>1, <1>2, <1>3, StagingInvariant, PTL DEF Spec, NeverOthersTarget
=============================================================================
