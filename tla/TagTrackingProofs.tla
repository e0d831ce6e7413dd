------------------------- MODULE TagTrackingProofs --------------------------
(* Theorems about TagTracking, for any pids, any capacity of ring buffer and   *)
(* tag map, any depth of the hooks' walk and any bound on the clock, with and  *)
(* without prompt reuse of pids, and whatever ran when the agent started.      *)
EXTENDS TagTracking, TLAPS

AnyPid == Pid \cup {InitPid}

ProcType == [start : 0..MaxTime, ppid : AnyPid, match : BOOLEAN, cgroup : BOOLEAN,
             agent : {"none", "claimed", "found", "seen"}]

EventType ==
  [type : {"fork", "exec", "exit", "action"}, pid : Pid, ppid : AnyPid, start : 0..MaxTime,
   match : BOOLEAN, seen : BOOLEAN]

EntryType == [known : BOOLEAN, start : 0..MaxTime, tagged : BOOLEAN, root : AnyPid, exited : BOOLEAN]

ScanType == [pc : {"idle", "visit", "tracked", "propagate"}, pass : 0..3, todo : SUBSET AnyPid]

\* The type invariant in the form the proofs need.
Typed ==
  /\ proc \in [Pid -> ProcType] /\ clock \in 1..MaxTime
  /\ tagged \in SUBSET AnyPid
  /\ ring \in Seq(EventType) /\ Len(ring) <= RingCap /\ lost \in BOOLEAN
  /\ table \in [Pid -> EntryType]
  /\ engine \in {"boot", "run"} /\ scan \in ScanType
  /\ DOMAIN listing \in SUBSET Pid
  /\ scan.pc = "visit" => engine = "boot" /\ scan.todo \subseteq DOMAIN listing
  /\ scan.pc = "tracked" => engine = "run"

LEMMA EmitTyped ==
  ASSUME Typed, NEW e \in EventType, NEW refused \in BOOLEAN, Emit(e, refused)
  PROVE  ring' \in Seq(EventType) /\ Len(ring') <= RingCap /\ lost' \in BOOLEAN
<1> USE TagAssumption
<1>1. CASE Len(ring) < RingCap
  <2>1. ring' = Append(ring, e)
    BY <1>1, Zenon DEF Emit
  <2>2. ring' \in Seq(EventType) /\ Len(ring') = Len(ring) + 1
    BY <2>1 DEF Typed
  <2> QED
    BY <1>1, <2>2 DEF Typed, Emit
<1>2. CASE ~(Len(ring) < RingCap)
  BY <1>2, Zenon DEF Typed, Emit
<1> QED
  BY <1>1, <1>2, Zenon

LEMMA InsertHas ==
  ASSUME NEW S, NEW p
  PROVE  S \subseteq Insert(S, p) /\ (Room(S, p) => p \in Insert(S, p)) /\ Insert(S, p) \subseteq S \cup {p}
  BY Zenon DEF Insert

LEMMA ForkTyped ==
  ASSUME Typed, NEW p \in AnyPid, NEW c \in Pid, Fork(p, c)
  PROVE  Typed'
<1> USE TagAssumption
<1> DEFINE e == Event("fork", c, p, 0, FALSE, ChildSeen(p))
<1>1. clock' \in 1..MaxTime /\ clock' = clock + 1
  BY DEF Fork, Typed
<1>2. ChildSeen(p) \in BOOLEAN
  BY Zenon DEF ChildSeen
<1>3. e \in EventType
  BY <1>2 DEF Event, EventType, AnyPid
<1>4. ring' \in Seq(EventType) /\ Len(ring') <= RingCap /\ lost' \in BOOLEAN
  <2>1. Emit(e, p \in tagged /\ ~Room(tagged, c)) /\ (p \in tagged /\ ~Room(tagged, c)) \in BOOLEAN
    BY Zenon DEF Fork, Room
  <2> QED
    BY <2>1, <1>3, EmitTyped, Zenon
<1>5. Child(p) \in ProcType
  BY <1>1 DEF Child, ProcType, Typed, AnyPid
<1>6. proc' \in [Pid -> ProcType]
  BY <1>5, Zenon DEF Fork, Typed
<1>7. tagged' \in SUBSET AnyPid
  BY InsertHas DEF Fork, Typed, AnyPid
<1> QED
  BY <1>1, <1>4, <1>6, <1>7, Zenon DEF Fork, Typed

LEMMA ExecTyped ==
  ASSUME Typed, NEW p \in Pid, NEW match \in BOOLEAN, Exec(p, match)
  PROVE  Typed'
<1> USE TagAssumption
<1> DEFINE e == Event("exec", p, proc[p].ppid, proc[p].start, match, FALSE)
<1>1. proc[p] \in ProcType
  BY Zenon DEF Typed
<1>2. e \in EventType
  BY <1>1, Zenon DEF Event, EventType, ProcType
<1>3. ring' \in Seq(EventType) /\ Len(ring') <= RingCap /\ lost' \in BOOLEAN
  BY <1>2, EmitTyped, Zenon DEF Exec
<1>4. proc' \in [Pid -> ProcType]
  BY <1>1, Zenon DEF Exec, Typed, ProcType
<1>5. clock' \in 1..MaxTime
  BY DEF Exec, Typed
<1> QED
  BY <1>3, <1>4, <1>5, Zenon DEF Exec, Typed

LEMMA MoveTyped ==
  ASSUME Typed, NEW p \in Pid, Move(p)
  PROVE  Typed'
<1>1. proc[p] \in ProcType
  BY Zenon DEF Typed
<1>2. proc' \in [Pid -> ProcType]
  BY <1>1, Zenon DEF Move, Typed, ProcType
<1>3. clock' \in 1..MaxTime
  BY TagAssumption DEF Move, Typed
<1> QED
  BY <1>2, <1>3, Zenon DEF Move, Typed

LEMMA ExitTyped ==
  ASSUME Typed, NEW p \in Pid, Exit(p)
  PROVE  Typed'
<1> USE TagAssumption
<1> DEFINE e == Event("exit", p, InitPid, proc[p].start, FALSE, FALSE)
<1>1. \A q \in Pid : proc[q] \in ProcType
  BY Zenon DEF Typed
<1>2. e \in EventType
  BY <1>1, Zenon DEF Event, EventType, ProcType, AnyPid
<1>3. ring' \in Seq(EventType) /\ Len(ring') <= RingCap /\ lost' \in BOOLEAN
  BY <1>2, EmitTyped, Zenon DEF Exit
<1>4. \A q \in Pid : [proc[q] EXCEPT !.ppid = InitPid] \in ProcType
  BY <1>1 DEF ProcType, AnyPid
<1>5. Dead \in ProcType
  BY DEF Dead, ProcType, AnyPid
<1>6. proc' \in [Pid -> ProcType]
  BY <1>1, <1>4, <1>5, Zenon DEF Exit
<1> QED
  BY <1>3, <1>6, Zenon DEF Exit, Typed

LEMMA ActTyped ==
  ASSUME Typed, NEW p \in Pid, Act(p)
  PROVE  Typed'
<1> USE TagAssumption
<1> DEFINE e == Event("action", p, proc[p].ppid, proc[p].start, FALSE, FALSE)
<1>1. proc[p] \in ProcType
  BY Zenon DEF Typed
<1>2. e \in EventType
  BY <1>1, Zenon DEF Event, EventType, ProcType
<1>3. ring' \in Seq(EventType) /\ Len(ring') <= RingCap /\ lost' \in BOOLEAN
  <2>1. CASE Room(tagged, p)
    BY <2>1, <1>2, EmitTyped, Zenon DEF Act
  <2>2. CASE ~Room(tagged, p)
    BY <2>2, Zenon DEF Act, Typed
  <2> QED
    BY <2>1, <2>2, Zenon
<1>4. clock' \in 1..MaxTime
  BY DEF Act, Typed
<1>5. tagged' \in SUBSET AnyPid
  BY InsertHas DEF Act, Typed, AnyPid
<1> QED
  BY <1>3, <1>4, <1>5, Zenon DEF Act, Typed

LEMMA PendingTyped ==
  ASSUME Typed, NEW type, Pending(type)
  PROVE  /\ Head(ring) \in EventType
         /\ Tail(ring) \in Seq(EventType)
         /\ Len(Tail(ring)) = Len(ring) - 1
         /\ Len(Tail(ring)) <= RingCap
         /\ Len(ring) \in Nat \ {0}
         /\ Head(ring) = ring[1]
         /\ \A k \in 1..Len(Tail(ring)) : Tail(ring)[k] = ring[k + 1]
  BY TagAssumption DEF Typed, Pending

LEMMA ParentEntryTyped ==
  ASSUME NEW t \in [Pid -> EntryType], NEW q
  PROVE  ParentEntry(t, q) \in EntryType
  BY TagAssumption DEF ParentEntry, NoProc, EntryType, AnyPid

LEMMA InheritTyped ==
  ASSUME NEW e \in EntryType, NEW parent \in EntryType
  PROVE  Inherit(e, parent) \in EntryType
  BY Zenon DEF Inherit, EntryType

LEMMA FreshTyped == NoProc \in EntryType /\ [NoProc EXCEPT !.known = TRUE] \in EntryType
<1>1. NoProc \in EntryType
  BY TagAssumption DEF NoProc, EntryType, AnyPid
<1> QED
  BY <1>1, Zenon DEF EntryType

LEMMA OnForkTyped ==
  ASSUME NEW t \in [Pid -> EntryType], NEW p \in Pid, NEW q
  PROVE  OnFork(t, p, q) \in [Pid -> EntryType]
<1>1. Inherit([NoProc EXCEPT !.known = TRUE], ParentEntry(t, q)) \in EntryType
  BY ParentEntryTyped, FreshTyped, InheritTyped, Zenon
<1> QED
  BY <1>1, Zenon DEF OnFork

LEMMA OnExecTyped ==
  ASSUME NEW t \in [Pid -> EntryType], NEW p \in Pid, NEW s \in 0..MaxTime, NEW q
  PROVE  OnExec(t, p, s, q) \in [Pid -> EntryType]
<1> DEFINE kept == t[p].known /\ ~(t[p].start # 0 /\ s # 0 /\ t[p].start # s)
           entry == [(IF kept THEN t[p] ELSE [NoProc EXCEPT !.known = TRUE])
                      EXCEPT !.start = s, !.exited = FALSE]
<1>1. ParentEntry(t, q) \in EntryType
  BY ParentEntryTyped, Zenon
<1>2. entry \in EntryType
  <2>1. (IF kept THEN t[p] ELSE [NoProc EXCEPT !.known = TRUE]) \in EntryType
    BY FreshTyped, Zenon
  <2> QED
    BY <2>1, Zenon DEF EntryType
<1> HIDE DEF entry
<1>3. Inherit(entry, ParentEntry(t, q)) \in EntryType
  BY <1>1, <1>2, InheritTyped, Zenon
<1>4. OnExec(t, p, s, q)
       = [t EXCEPT ![p] = IF entry.tagged THEN entry ELSE Inherit(entry, ParentEntry(t, q))]
  BY Zenon DEF OnExec, entry
<1> QED
  BY <1>2, <1>3, <1>4, Zenon

LEMMA TagTyped ==
  ASSUME NEW t \in [Pid -> EntryType], NEW p \in Pid
  PROVE  Tag(t, p) \in [Pid -> EntryType]
<1>1. t[p] \in EntryType
  BY Zenon
<1>2. [t[p] EXCEPT !.tagged = TRUE, !.root = p] \in EntryType
  BY <1>1, Zenon DEF EntryType, AnyPid
<1> QED
  BY <1>2, Zenon DEF Tag

LEMMA HandleForkTyped ==
  ASSUME Typed, HandleFork
  PROVE  Typed'
<1> DEFINE e == Head(ring)
           child == ParentEntry(table, e.ppid)
           t1 == Insert(tagged, e.pid)
           t2 == Insert(t1, child.root)
           t3 == Insert(t2, e.ppid)
<1>1. e \in EventType /\ Tail(ring) \in Seq(EventType) /\ Len(Tail(ring)) <= RingCap
  BY PendingTyped, Zenon DEF HandleFork
<1>2. table' \in [Pid -> EntryType]
  BY <1>1, OnForkTyped, Zenon DEF HandleFork, Typed, EventType
<1>3. child.root \in AnyPid /\ e.pid \in AnyPid /\ e.ppid \in AnyPid
  BY <1>1, ParentEntryTyped, Zenon DEF Typed, EntryType, EventType, AnyPid
<1>4. t1 \in SUBSET AnyPid
  BY <1>3, InsertHas DEF Typed
<1>5. t2 \in SUBSET AnyPid
  BY <1>3, <1>4, InsertHas
<1>6. t3 \in SUBSET AnyPid
  BY <1>3, <1>5, InsertHas
<1>7. tagged' = (IF child.tagged THEN t3 ELSE tagged) /\ lost' \in BOOLEAN
  BY Zenon DEF HandleFork
<1>8. tagged' \in SUBSET AnyPid
  BY <1>6, <1>7, Zenon DEF Typed
<1>9. ring' = Tail(ring) /\ Len(ring') <= RingCap
  BY <1>1, Zenon DEF HandleFork
<1> QED
  BY <1>1, <1>2, <1>7, <1>8, <1>9, Zenon DEF HandleFork, kernel, Typed

\* The queued event e becomes e2: at most its fork is now seen to be an agent's.
Marked(e, e2) ==
  /\ e2.type = e.type /\ e2.pid = e.pid /\ e2.ppid = e.ppid /\ e2.start = e.start /\ e2.match = e.match
  /\ e.seen => e2.seen

LEMMA SeeForksFacts ==
  ASSUME Typed, NEW p \in Pid
  PROVE  /\ SeeForks(p) \in Seq(EventType) /\ Len(SeeForks(p)) = Len(ring) /\ Len(ring) \in Nat
         /\ \A i \in 1..Len(ring) :
              /\ Marked(ring[i], SeeForks(p)[i])
              /\ SeeForks(p)[i].seen => ring[i].seen \/ i \in Forks(p)
              /\ i \in Forks(p) => SeeForks(p)[i].seen
<1> DEFINE mark(i) == IF i \in Forks(p) THEN [ring[i] EXCEPT !.seen = TRUE] ELSE ring[i]
<1>1. ASSUME NEW i \in 1..Len(ring)
      PROVE  /\ mark(i) \in EventType /\ Marked(ring[i], mark(i))
             /\ mark(i).seen => ring[i].seen \/ i \in Forks(p)
             /\ i \in Forks(p) => mark(i).seen
  <2>1. ring[i] \in EventType
    BY DEF Typed
  <2>2. [ring[i] EXCEPT !.seen = TRUE] \in EventType
    BY <2>1, Zenon DEF EventType
  <2> QED
    BY <2>1, <2>2, Zenon DEF EventType, Marked
<1>2. SeeForks(p) = [i \in 1..Len(ring) |-> mark(i)]
  BY Zenon DEF SeeForks
<1> HIDE DEF mark
<1>3. Len(ring) \in Nat
  BY DEF Typed
<1>4. SeeForks(p) \in [1..Len(ring) -> EventType]
  BY <1>1, <1>2, Zenon
<1>5. SeeForks(p) \in Seq(EventType) /\ Len(SeeForks(p)) = Len(ring)
  BY <1>3, <1>4
<1>6. \A i \in 1..Len(ring) : SeeForks(p)[i] = mark(i)
  BY <1>2, Zenon
<1> QED
  BY <1>1, <1>3, <1>5, <1>6, Zenon

\* What the processes are after p was enrolled.
SeenFrom(pr2, p, found) ==
  \A q \in Pid :
    /\ pr2[q].start = proc[q].start /\ pr2[q].ppid = proc[q].ppid /\ pr2[q].cgroup = proc[q].cgroup
    /\ pr2[q].agent = "seen" =>
         \/ proc[q].agent = "seen" \/ q = p
         \/ \E i \in Forks(p) : ring[i].pid = q /\ ~Ends(q, i, Len(ring))
    /\ pr2[q].agent = "found" => proc[q].agent = "found" \/ q \in found
    /\ pr2[q].agent = "claimed" => proc[q].agent = "claimed" /\ q # p

LEMMA SeeFacts ==
  ASSUME Typed, NEW p \in Pid, NEW found
  PROVE  See(p, found) \in [Pid -> ProcType] /\ SeenFrom(See(p, found), p, found)
<1> DEFINE forked(q) == \E i \in Forks(p) : ring[i].pid = q /\ ~Ends(q, i, Len(ring))
           is(q) == IF q = p \/ (q \in Alive /\ forked(q)) THEN "seen"
                    ELSE IF q \in found /\ proc[q].agent = "none" THEN "found" ELSE proc[q].agent
<1>1. See(p, found) = [q \in Pid |-> [proc[q] EXCEPT !.agent = is(q)]]
  BY Zenon DEF See
<1>2. ASSUME NEW q \in Pid
      PROVE  /\ is(q) \in {"none", "claimed", "found", "seen"}
             /\ is(q) = "seen" => proc[q].agent = "seen" \/ q = p \/ forked(q)
             /\ is(q) = "found" => proc[q].agent = "found" \/ q \in found
             /\ is(q) = "claimed" => proc[q].agent = "claimed" /\ q # p
  <2>1. proc[q] \in ProcType
    BY Zenon DEF Typed
  <2>2. proc[q].agent \in {"none", "claimed", "found", "seen"}
    BY <2>1, Zenon DEF ProcType
  <2> HIDE DEF forked
  <2> QED
    BY <2>2, Zenon
<1> HIDE DEF is
<1>3. ASSUME NEW q \in Pid, NEW new, new = [proc[q] EXCEPT !.agent = is(q)]
      PROVE  /\ new \in ProcType /\ new.start = proc[q].start /\ new.ppid = proc[q].ppid
             /\ new.cgroup = proc[q].cgroup /\ new.agent = is(q)
  <2>1. proc[q] \in ProcType
    BY Zenon DEF Typed
  <2> QED
    BY <1>2, <1>3, <2>1, Zenon DEF ProcType
<1>4. See(p, found) \in [Pid -> ProcType]
  BY <1>1, <1>3, Zenon
<1>5. \A q \in Pid : See(p, found)[q] = [proc[q] EXCEPT !.agent = is(q)]
  BY <1>1, Zenon
<1> DEFINE pr2 == See(p, found)
<1>6. \A q \in Pid : /\ pr2[q].start = proc[q].start /\ pr2[q].ppid = proc[q].ppid
                    /\ pr2[q].cgroup = proc[q].cgroup /\ pr2[q].agent = is(q)
  BY <1>3, <1>5, Zenon
<1> HIDE DEF pr2
<1>7. SeenFrom(pr2, p, found)
  BY <1>2, <1>6, Zenon DEF SeenFrom
<1> QED
  BY <1>4, <1>7, Zenon DEF pr2

LEMMA HandleExecTyped ==
  ASSUME Typed, HandleExec
  PROVE  Typed'
<1> DEFINE e == Head(ring)
           upd == OnExec(table, e.pid, e.start, e.ppid)
           new == IF ~upd[e.pid].tagged /\ (proc[e.pid].cgroup \/ e.match) THEN Tag(upd, e.pid) ELSE upd
<1>1. e \in EventType /\ Tail(ring) \in Seq(EventType) /\ Len(Tail(ring)) <= RingCap
  BY PendingTyped, Zenon DEF HandleExec, TryEnroll
<1>2. e.pid \in Pid /\ e.start \in 0..MaxTime
  BY <1>1, Zenon DEF EventType
<1>3. upd \in [Pid -> EntryType]
  BY <1>2, OnExecTyped, Zenon DEF Typed
<1>4. new \in [Pid -> EntryType]
  BY <1>2, <1>3, TagTyped, Zenon
<1>5. /\ table' = new /\ lost' \in BOOLEAN
      /\ tagged' = IF new[e.pid].tagged THEN Insert(tagged, e.pid) ELSE tagged
  BY Zenon DEF HandleExec, TryEnroll
<1>6. tagged' \in SUBSET AnyPid
  BY <1>2, <1>5, InsertHas DEF Typed, AnyPid
<1>7. proc' \in {proc, See(e.pid, {})} /\ ring' \in {Tail(ring), Tail(SeeForks(e.pid))}
  BY Zenon DEF HandleExec, TryEnroll
<1>8. proc' \in [Pid -> ProcType]
  <2>1. See(e.pid, {}) \in [Pid -> ProcType]
    BY <1>2, SeeFacts, Zenon
  <2> QED
    BY <1>7, <2>1, Zenon DEF Typed
<1>9. SeeForks(e.pid) \in Seq(EventType) /\ Len(SeeForks(e.pid)) = Len(ring)
  BY <1>2, SeeForksFacts, Zenon
<1>10. Len(ring) \in Nat \ {0} /\ Len(ring) <= RingCap
  BY PendingTyped, Zenon DEF HandleExec, TryEnroll, Typed
<1> HIDE DEF e, new
<1>11. Tail(SeeForks(e.pid)) \in Seq(EventType) /\ Len(Tail(SeeForks(e.pid))) <= RingCap
  BY <1>9, <1>10, TagAssumption
<1>12. ring' \in Seq(EventType) /\ Len(ring') <= RingCap
  BY <1>1, <1>7, <1>11, Zenon
<1> QED
  BY <1>4, <1>5, <1>6, <1>8, <1>12, Zenon DEF HandleExec, TryEnroll, Typed

LEMMA HandleExitTyped ==
  ASSUME Typed, HandleExit
  PROVE  Typed'
<1> DEFINE p == Head(ring).pid
<1>1. Head(ring) \in EventType /\ Tail(ring) \in Seq(EventType) /\ Len(Tail(ring)) <= RingCap
  BY PendingTyped, Zenon DEF HandleExit
<1>2. p \in Pid
  BY <1>1, Zenon DEF EventType
<1>3. [table[p] EXCEPT !.exited = @ \/ table[p].known] \in EntryType
  <2>1. table[p] \in EntryType
    BY <1>2, Zenon DEF Typed
  <2> QED
    BY <2>1, Zenon DEF EntryType
<1>4. table' \in [Pid -> EntryType]
  BY <1>2, <1>3, Zenon DEF HandleExit, OnExit, Typed
<1>5. tagged' \in SUBSET AnyPid
  BY Zenon DEF HandleExit, Typed
<1>6. ring' = Tail(ring) /\ Len(ring') <= RingCap
  BY <1>1, Zenon DEF HandleExit
<1> QED
  BY <1>1, <1>4, <1>5, <1>6, Zenon DEF HandleExit, kernel, Typed

LEMMA HandleActionTyped ==
  ASSUME Typed, HandleAction
  PROVE  Typed'
<1>1. Head(ring) \in EventType /\ Tail(ring) \in Seq(EventType) /\ Len(Tail(ring)) <= RingCap
  BY PendingTyped, Zenon DEF HandleAction
<1>2. Head(ring).pid \in Pid
  BY <1>1, Zenon DEF EventType
<1>3. tagged' \in SUBSET AnyPid /\ lost' \in BOOLEAN
  BY <1>2, InsertHas DEF HandleAction, Typed, AnyPid
<1>4. ring' = Tail(ring) /\ Len(ring') <= RingCap
  BY <1>1, Zenon DEF HandleAction
<1> QED
  BY <1>1, <1>3, <1>4, Zenon DEF HandleAction, kernel, Typed

LEMMA BelowTyped ==
  ASSUME NEW seeds, NEW parent
  PROVE  Below(seeds, parent) \in SUBSET AnyPid
  BY Zenon DEF Below, AnyPid

LEMMA SeedsTyped ==
  ASSUME Typed
  PROVE  Seeds \in SUBSET AnyPid
<1>1. \A p \in Pid : table[p].root \in AnyPid
  BY Zenon DEF Typed, EntryType
<1> QED
  BY <1>1, Zenon DEF Seeds, TaggedSnapshot, AnyPid

LEMMA ScanTyped ==
  ASSUME NEW pc \in {"idle", "visit", "tracked", "propagate"}, NEW pass \in 0..3,
         NEW todo \in SUBSET AnyPid
  PROVE  /\ Scan(pc, pass, todo) \in ScanType
         /\ Scan(pc, pass, todo).pc = pc /\ Scan(pc, pass, todo).todo = todo
         /\ Scan(pc, pass, todo).pass = pass
  BY Zenon DEF Scan, ScanType

LEMMA BootListTyped ==
  ASSUME Typed, BootList
  PROVE  Typed'
<1>1. Alive \in SUBSET AnyPid /\ Alive \in SUBSET Pid
  BY Zenon DEF Alive, AnyPid
<1>2. scan' \in ScanType /\ scan'.pc = "visit" /\ scan'.todo = Alive
  BY <1>1, ScanTyped DEF BootList
<1>3. DOMAIN listing' = Alive
  BY Zenon DEF BootList, ListProcesses
<1>4. engine' = "boot"
  BY Zenon DEF BootList
<1> QED
  BY <1>1, <1>2, <1>3, <1>4, Zenon DEF BootList, kernel, Typed

\* The bootstrap's visit makes p and its descendants an agent's.
Comes(p) ==
  /\ Present(p)
  /\ proc[p].match \/ proc[p].cgroup \/ (proc[p].agent = "found" /\ table'[p].tagged)

OlderBelow(p) == Older \cap Below({p}, [q \in Pid |-> proc[q].ppid])

LEMMA ComeByFacts ==
  ASSUME NEW p \in Pid, ComeBy(p)
  PROVE  /\ Comes(p) => proc' = See(p, OlderBelow(p)) /\ ring' = SeeForks(p)
         /\ ~Comes(p) => proc' = proc /\ ring' = ring
  BY Zenon DEF ComeBy, Comes, OlderBelow

LEMMA ComeByTyped ==
  ASSUME Typed, NEW p \in Pid, ComeBy(p)
  PROVE  proc' \in [Pid -> ProcType] /\ ring' \in Seq(EventType) /\ Len(ring') = Len(ring)
<1>1. proc' \in [Pid -> ProcType]
  <2>1. CASE Comes(p)
    <3>1. See(p, OlderBelow(p)) \in [Pid -> ProcType]
      BY SeeFacts, Zenon
    <3> QED
      BY <2>1, <3>1, ComeByFacts, Zenon
  <2>2. CASE ~Comes(p)
    BY <2>2, ComeByFacts, Zenon DEF Typed
  <2> QED
    BY <2>1, <2>2, Zenon
<1>2. ring' \in Seq(EventType) /\ Len(ring') = Len(ring)
  <2>1. CASE Comes(p)
    <3>1. SeeForks(p) \in Seq(EventType) /\ Len(SeeForks(p)) = Len(ring)
      BY SeeForksFacts, Zenon
    <3>2. ring' = SeeForks(p)
      BY <2>1, ComeByFacts, Zenon
    <3> QED
      BY <3>1, <3>2, Zenon
  <2>2. CASE ~Comes(p)
    BY <2>2, ComeByFacts, Zenon DEF Typed
  <2> QED
    BY <2>1, <2>2, Zenon
<1> QED
  BY <1>1, <1>2, Zenon

LEMMA BootVisitTyped ==
  ASSUME Typed, NEW p \in Pid, BootVisit(p)
  PROVE  Typed'
<1> DEFINE upd  == OnExec(table, p, 0, listing[p])
           new  == IF table[p].tagged \/ p \notin Alive THEN table
                   ELSE IF ~upd[p].tagged /\ (proc[p].cgroup \/ proc[p].match) THEN Tag(upd, p) ELSE upd
<1>1. upd \in [Pid -> EntryType]
  BY TagAssumption, OnExecTyped DEF Typed
<1>2. new \in [Pid -> EntryType]
  BY <1>1, TagTyped, Zenon DEF Typed
<1>3. /\ table' = new /\ lost' \in BOOLEAN
      /\ tagged' = IF new[p].tagged THEN Insert(tagged, p) ELSE tagged
  BY Zenon DEF BootVisit, TryEnroll
<1> HIDE DEF new
<1>4. tagged' \in SUBSET AnyPid
  BY <1>3, InsertHas DEF Typed, AnyPid
<1>5. proc' \in [Pid -> ProcType] /\ ring' \in Seq(EventType) /\ Len(ring') = Len(ring)
  BY ComeByTyped, Zenon DEF BootVisit, TryEnroll
<1>6. scan' \in ScanType /\ scan'.pc = scan.pc /\ scan'.todo \subseteq scan.todo
  BY Zenon DEF BootVisit, TryEnroll, Typed, ScanType
<1>7. UNCHANGED <<clock, engine, listing>>
  BY Zenon DEF BootVisit, TryEnroll
<1> QED
  BY <1>2, <1>3, <1>4, <1>5, <1>6, <1>7, Zenon DEF Typed

LEMMA BootPassDoneTyped ==
  ASSUME Typed, BootPassDone
  PROVE  Typed'
<1>1. DOMAIN listing \in SUBSET Pid /\ DOMAIN listing \in SUBSET AnyPid /\ engine = "boot"
  BY Zenon DEF Typed, AnyPid, BootPassDone
<1>2. scan' \in ScanType /\ (scan'.pc = "visit" => scan'.todo = DOMAIN listing)
       /\ scan'.pc # "tracked"
  <2>1. CASE scan.pass < 3
    <3>1. scan.pass + 1 \in 0..3
      BY <2>1 DEF Typed, ScanType
    <3> QED
      BY <2>1, <3>1, <1>1, ScanTyped DEF BootPassDone
  <2>2. CASE ~(scan.pass < 3)
    BY <2>2, BelowTyped, ScanTyped DEF BootPassDone
  <2> QED
    BY <2>1, <2>2, Zenon
<1> QED
  BY <1>1, <1>2, Zenon DEF BootPassDone, kernel, Typed

LEMMA ResyncBeginTyped ==
  ASSUME Typed, ResyncBegin
  PROVE  Typed'
<1>1. scan' \in ScanType /\ scan'.pc = "tracked"
  BY SeedsTyped, ScanTyped DEF ResyncBegin
<1>2. DOMAIN listing' \in SUBSET Pid
  BY Zenon DEF ResyncBegin, ListProcesses, Alive
<1>3. engine' = "run"
  BY Zenon DEF ResyncBegin
<1> QED
  BY <1>1, <1>2, <1>3, Zenon DEF ResyncBegin, kernel, Typed

LEMMA TagAllTyped ==
  ASSUME Typed, NEW pids \in SUBSET AnyPid, TagAll(pids)
  PROVE  /\ tagged' \in SUBSET AnyPid /\ lost' \in BOOLEAN
         /\ tagged \subseteq tagged' /\ (lost => lost')
         /\ ~lost' => pids \subseteq tagged'
  BY Zenon DEF TagAll, Typed

LEMMA ResyncTrackedTyped ==
  ASSUME Typed, ResyncTracked
  PROVE  Typed'
<1>1. scan.todo \in SUBSET AnyPid
  BY Zenon DEF Typed, ScanType
<1>2. tagged' \in SUBSET AnyPid /\ lost' \in BOOLEAN
  BY <1>1, TagAllTyped, Zenon DEF ResyncTracked
<1>3. scan' \in ScanType /\ scan'.pc = "propagate"
  BY BelowTyped, ScanTyped DEF ResyncTracked
<1> QED
  BY <1>2, <1>3, Zenon DEF ResyncTracked, kernel, Typed

LEMMA PropagateTyped ==
  ASSUME Typed, Propagate
  PROVE  Typed'
<1>1. scan.todo \in SUBSET AnyPid
  BY Zenon DEF Typed, ScanType
<1>2. tagged' \in SUBSET AnyPid /\ lost' \in BOOLEAN
  BY <1>1, TagAllTyped, Zenon DEF Propagate
<1>3. scan' \in ScanType /\ scan'.pc = "idle"
  BY ScanTyped DEF Propagate
<1>4. DOMAIN listing' \in SUBSET Pid /\ engine' \in {"boot", "run"}
  BY DEF Propagate
<1> QED
  BY <1>2, <1>3, <1>4, Zenon DEF Propagate, kernel, Typed

LEMMA PruneTyped ==
  ASSUME Typed, NEW p \in Pid, Prune(p)
  PROVE  Typed'
  BY FreshTyped, Zenon DEF Prune, kernel, Typed

LEMMA InitTyped ==
  ASSUME Init
  PROVE  Typed
<1> USE TagAssumption
<1>1. Dead \in ProcType
  BY DEF Dead, ProcType, AnyPid
<1>2. [start : {1}, ppid : Running \cup {InitPid}, match : BOOLEAN, cgroup : BOOLEAN, agent : {"none"}] \subseteq ProcType
  BY DEF ProcType, AnyPid
<1>3. proc \in [Pid -> ProcType]
  BY <1>1, <1>2, Zenon DEF Init
<1>4. tagged \in SUBSET AnyPid
  BY Zenon DEF Init
<1>5. ring \in Seq(EventType) /\ Len(ring) <= RingCap
  BY DEF Init
<1>6. table \in [Pid -> EntryType]
  BY FreshTyped, Zenon DEF Init
<1>7. scan \in ScanType /\ scan.pc = "idle"
  BY ScanTyped DEF Init
<1>8. clock \in 1..MaxTime /\ DOMAIN listing \in SUBSET Pid
  BY DEF Init
<1> QED
  BY <1>3, <1>4, <1>5, <1>6, <1>7, <1>8, Zenon DEF Init, Typed

LEMMA NextTyped == Typed /\ [Next]_vars => Typed'
<1> SUFFICES ASSUME Typed, [Next]_vars PROVE Typed'
  BY Zenon
<1>1. ASSUME NEW p \in Pid \cup {InitPid}, NEW c \in Pid, Fork(p, c) PROVE Typed'
  BY <1>1, ForkTyped, Zenon DEF AnyPid
<1>2. ASSUME NEW p \in Pid, NEW match \in BOOLEAN, Exec(p, match) PROVE Typed'
  BY <1>2, ExecTyped, Zenon
<1>3. ASSUME NEW p \in Pid, Move(p) \/ Exit(p) \/ Act(p) PROVE Typed'
  BY <1>3, MoveTyped, ExitTyped, ActTyped, Zenon
<1>4. CASE Handle
  BY <1>4, HandleForkTyped, HandleExecTyped, HandleExitTyped, HandleActionTyped, Zenon DEF Handle
<1>5. CASE ScanStep
  BY <1>5, BootListTyped, BootVisitTyped, BootPassDoneTyped, ResyncTrackedTyped, PropagateTyped, Zenon
     DEF ScanStep
<1>6. CASE ResyncBegin
  BY <1>6, ResyncBeginTyped, Zenon
<1>7. ASSUME NEW p \in Pid, Prune(p) PROVE Typed'
  BY <1>7, PruneTyped, Zenon
<1>8. CASE UNCHANGED vars
  BY <1>8, Zenon DEF vars, Typed
<1> QED
  BY <1>1, <1>2, <1>3, <1>4, <1>5, <1>6, <1>7, <1>8, Zenon DEF Next

-----------------------------------------------------------------------------
(* The queue r of events, the table t and a pid p, in front of event n.        *)

ExitOf(e, p) == e.type = "exit" /\ e.pid = p

ExecOf(e, p) == e.type = "exec" /\ e.pid = p

\* No exit of p in r[i..j].
Stays(r, p, i, j) == \A k \in i..j : ~ExitOf(r[k], p)

\* Handling e makes its process known as an agent's.
Tags(e) == (e.type = "exec" /\ e.match) \/ (e.type = "fork" /\ e.seen)

Has(t, p) == t[p].tagged /\ ~t[p].exited

\* p is known as an agent's process when event n of r is handled: it is known
\* now, or an earlier event makes it so, and no exit follows.
Backed(r, t, p, n) ==
  \/ Has(t, p) /\ Stays(r, p, 1, n - 1)
  \/ \E j \in 1..(n - 1) : Tags(r[j]) /\ r[j].pid = p /\ Stays(r, p, j + 1, n - 1)

LEMMA BackedPrefix ==
  ASSUME NEW r, NEW r2, NEW t, NEW p, NEW n \in Nat,
         \A i \in 1..(n - 1) : r2[i] = r[i],
         Backed(r, t, p, n)
  PROVE  Backed(r2, t, p, n)
<1>1. CASE Has(t, p) /\ Stays(r, p, 1, n - 1)
  BY <1>1, Zenon DEF Backed, Stays
<1>2. CASE \E j \in 1..(n - 1) : Tags(r[j]) /\ r[j].pid = p /\ Stays(r, p, j + 1, n - 1)
  <2>1. PICK j \in 1..(n - 1) : Tags(r[j]) /\ r[j].pid = p /\ Stays(r, p, j + 1, n - 1)
    BY <1>2, Zenon
  <2>2. Stays(r2, p, j + 1, n - 1)
    BY <2>1 DEF Stays
  <2>3. Tags(r2[j]) /\ r2[j].pid = p
    BY <2>1, Zenon
  <2> QED
    BY <2>2, <2>3, Zenon DEF Backed
<1> QED
  BY <1>1, <1>2, Zenon DEF Backed

LEMMA BackedNext ==
  ASSUME NEW r, NEW t, NEW p, NEW n \in Nat \ {0},
         Backed(r, t, p, n), ~ExitOf(r[n], p)
  PROVE  Backed(r, t, p, n + 1)
<1>1. \A i \in Nat : Stays(r, p, i, n - 1) => Stays(r, p, i, n)
  BY DEF Stays
<1>2. n + 1 - 1 = n
  OBVIOUS
<1>3. CASE Has(t, p) /\ Stays(r, p, 1, n - 1)
  BY <1>1, <1>2, <1>3 DEF Backed
<1>4. CASE \E j \in 1..(n - 1) : Tags(r[j]) /\ r[j].pid = p /\ Stays(r, p, j + 1, n - 1)
  <2>1. PICK j \in 1..(n - 1) : Tags(r[j]) /\ r[j].pid = p /\ Stays(r, p, j + 1, n - 1)
    BY <1>4, Zenon
  <2>2. j \in 1..n /\ Stays(r, p, j + 1, n)
    BY <1>1, <2>1
  <2> QED
    BY <1>2, <2>1, <2>2 DEF Backed
<1> QED
  BY <1>3, <1>4, Zenon DEF Backed

LEMMA BackedByEvent ==
  ASSUME NEW r, NEW t, NEW p, NEW n \in Nat \ {0}, Tags(r[n]), r[n].pid = p
  PROVE  Backed(r, t, p, n + 1)
<1>1. Stays(r, p, n + 1, n)
  BY DEF Stays
<1>2. n + 1 - 1 = n /\ n \in 1..n
  OBVIOUS
<1> QED
  BY <1>1, <1>2 DEF Backed

\* The first event is handled, and the table becomes t2.
LEMMA BackedShift ==
  ASSUME NEW r, NEW r2, NEW t, NEW t2, NEW p, NEW n \in Nat, n >= 2,
         \A i \in 1..(n - 2) : r2[i] = r[i + 1],
         Has(t, p) /\ ~ExitOf(r[1], p) => Has(t2, p),
         Tags(r[1]) /\ r[1].pid = p => Has(t2, p),
         Backed(r, t, p, n)
  PROVE  Backed(r2, t2, p, n - 1)
<1>1. \A i \in Nat \ {0} : Stays(r, p, i + 1, n - 1) => Stays(r2, p, i, n - 2)
  <2> SUFFICES ASSUME NEW i \in Nat \ {0}, Stays(r, p, i + 1, n - 1), NEW k \in i..(n - 2)
               PROVE  ~ExitOf(r2[k], p)
    BY Zenon DEF Stays
  <2>1. r2[k] = r[k + 1] /\ k + 1 \in (i + 1)..(n - 1)
    OBVIOUS
  <2> QED
    BY <2>1, Zenon DEF Stays
<1>2. n - 1 - 1 = n - 2
  OBVIOUS
<1>3. CASE Has(t, p) /\ Stays(r, p, 1, n - 1)
  <2>1. ~ExitOf(r[1], p) /\ Stays(r, p, 1 + 1, n - 1)
    BY <1>3 DEF Stays
  <2> QED
    BY <1>1, <1>2, <1>3, <2>1 DEF Backed
<1>4. CASE \E j \in 1..(n - 1) : Tags(r[j]) /\ r[j].pid = p /\ Stays(r, p, j + 1, n - 1)
  <2>1. PICK j \in 1..(n - 1) : Tags(r[j]) /\ r[j].pid = p /\ Stays(r, p, j + 1, n - 1)
    BY <1>4, Zenon
  <2>2. CASE j = 1
    BY <1>1, <1>2, <2>1, <2>2 DEF Backed
  <2>3. CASE j # 1
    <3>1. j - 1 \in 1..(n - 2) /\ r2[j - 1] = r[j] /\ j - 1 + 1 = j
      BY <2>3
    <3>2. Stays(r2, p, j, n - 2)
      BY <1>1, <2>1
    <3> QED
      BY <1>2, <2>1, <3>1, <3>2, Zenon DEF Backed
  <2> QED
    BY <2>2, <2>3, Zenon
<1> QED
  BY <1>3, <1>4, Zenon DEF Backed

\* Queued forks are marked as seen.
LEMMA BackedMarked ==
  ASSUME NEW r, NEW r2, NEW t, NEW p, NEW n \in Nat, \A i \in 1..(n - 1) : Marked(r[i], r2[i]),
         Backed(r, t, p, n)
  PROVE  Backed(r2, t, p, n)
<1>1. \A i \in Nat \ {0} : Stays(r, p, i, n - 1) => Stays(r2, p, i, n - 1)
  BY DEF Stays, ExitOf, Marked
<1>2. CASE Has(t, p) /\ Stays(r, p, 1, n - 1)
  BY <1>1, <1>2 DEF Backed
<1>3. CASE \E j \in 1..(n - 1) : Tags(r[j]) /\ r[j].pid = p /\ Stays(r, p, j + 1, n - 1)
  <2>1. PICK j \in 1..(n - 1) : Tags(r[j]) /\ r[j].pid = p /\ Stays(r, p, j + 1, n - 1)
    BY <1>3, Zenon
  <2>2. Tags(r2[j]) /\ r2[j].pid = p
    BY <2>1, Zenon DEF Tags, Marked
  <2>3. Stays(r2, p, j + 1, n - 1)
    BY <1>1, <2>1
  <2> QED
    BY <2>2, <2>3, Zenon DEF Backed
<1> QED
  BY <1>2, <1>3, Zenon DEF Backed

LEMMA BackedTable ==
  ASSUME NEW r, NEW t, NEW t2, NEW p, NEW n, Has(t, p) => Has(t2, p), Backed(r, t, p, n)
  PROVE  Backed(r, t2, p, n)
  BY Zenon DEF Backed

-----------------------------------------------------------------------------
(* The inductive invariant, in three parts.                                   *)

\* The parent named by a queued fork of an agent's process is known when the
\* fork is handled.
ForksBacked(r, t) ==
  \A i \in 1..Len(r) : r[i].type = "fork" /\ r[i].seen => r[i].ppid \in Pid /\ Backed(r, t, r[i].ppid, i)

\* So is every live process seen to be an agent's when the queue is empty.
SeenBacked(r, t, pr) ==
  \A p \in Pid : pr[p].start # 0 /\ pr[p].agent = "seen" => Backed(r, t, p, Len(r) + 1)

\* An exec of every claimed process is queued.
ClaimsQueued(r, pr) ==
  \A p \in Pid : pr[p].start # 0 /\ pr[p].agent = "claimed" =>
    pr[p].cgroup /\ \E i \in 1..Len(r) : ExecOf(r[i], p) /\ Stays(r, p, i, Len(r))

\* Two execs without an exit between them are those of one process.
ExecsAgree(r) ==
  \A p \in Pid : \A j, k \in 1..Len(r) :
    j < k /\ ExecOf(r[j], p) /\ ExecOf(r[k], p) /\ Stays(r, p, j, k) => r[j].start = r[k].start

ExecsCurrent(r, pr) ==
  \A p \in Pid : \A k \in 1..Len(r) :
    ExecOf(r[k], p) /\ Stays(r, p, k, Len(r)) => r[k].start = pr[p].start

Dated(entry) == entry.known /\ ~entry.exited /\ entry.start # 0

\* An entry with a start time is that of the process the events are about.
EntryAgrees(r, t) ==
  \A p \in Pid : \A k \in 1..Len(r) :
    Dated(t[p]) /\ ExecOf(r[k], p) /\ Stays(r, p, 1, k) => r[k].start = t[p].start

EntryCurrent(r, t, pr) ==
  \A p \in Pid : Dated(t[p]) /\ Stays(r, p, 1, Len(r)) => pr[p].start = t[p].start

\* The queue r, the table t and the processes pr agree.
HistoryOf(r, t, pr) ==
  /\ ForksBacked(r, t) /\ SeenBacked(r, t, pr) /\ ClaimsQueued(r, pr)
  /\ ExecsAgree(r) /\ ExecsCurrent(r, pr) /\ EntryAgrees(r, t) /\ EntryCurrent(r, t, pr)

History == HistoryOf(ring, table, proc)

\* Events carry start times that were reached; that of an exit is not the start
\* time of a process that lives.
Stamps ==
  /\ \A p \in Pid : proc[p].start <= clock
  /\ \A k \in 1..Len(ring) :
       /\ ring[k].start <= clock
       /\ ring[k].type = "exec" => ring[k].start # 0
       /\ ring[k].type = "exit" => ring[k].start # 0 /\ ring[k].start # proc[ring[k].pid].start

-----------------------------------------------------------------------------
(* History is kept by a system call that sends event e ...                    *)

\* What the system call does to the processes.
Sends(e) ==
  /\ ring' = Append(ring, e) /\ table' = table
  /\ e.type = "fork" /\ e.seen => e.ppid \in Pid /\ Backed(ring, table, e.ppid, Len(ring) + 1)
  /\ e.type = "exec" => e.start = proc[e.pid].start
  /\ \A p \in Pid :
       /\ proc'[p].start = proc[p].start \/ ExitOf(e, p) \/ proc[p].start = 0
       /\ ExecOf(e, p) => proc'[p].start = proc[p].start
       /\ proc'[p].start # 0 /\ proc'[p].agent = "seen"
            => \/ Tags(e) /\ e.pid = p
               \/ proc[p].start # 0 /\ proc[p].agent = "seen" /\ ~ExitOf(e, p)
       /\ proc'[p].start # 0 /\ proc'[p].agent = "claimed"
            => /\ proc'[p].cgroup
               /\ \/ ExecOf(e, p)
                  \/ proc[p].start # 0 /\ proc[p].agent = "claimed" /\ ~ExitOf(e, p)

LEMMA SendsHistory ==
  ASSUME Typed, Stamps, History, NEW e \in EventType, Sends(e)
  PROVE  History'
<1> DEFINE n == Len(ring)
<1>1. /\ n \in Nat /\ Len(ring') = n + 1 /\ ring'[n + 1] = e
      /\ \A i \in 1..n : ring'[i] = ring[i]
  BY DEF Typed, Sends
<1>2. table' = table
  BY Zenon DEF Sends
<1> HIDE DEF n
<1>3. ForksBacked(ring', table')
  <2> SUFFICES ASSUME NEW i \in 1..(n + 1), ring'[i].type = "fork", ring'[i].seen
               PROVE  ring'[i].ppid \in Pid /\ Backed(ring', table', ring'[i].ppid, i)
    BY <1>1, Zenon DEF ForksBacked
  <2>1. ring'[i].ppid \in Pid /\ Backed(ring, table, ring'[i].ppid, i)
    <3>1. CASE i \in 1..n
      BY <1>1, <3>1, Zenon DEF History, HistoryOf, ForksBacked, n
    <3>2. CASE i = n + 1
      BY <1>1, <3>2, Zenon DEF Sends, n
    <3> QED
      BY <1>1, <3>1, <3>2
  <2>2. i \in Nat /\ \A k \in 1..(i - 1) : ring'[k] = ring[k]
    BY <1>1
  <2> QED
    BY <1>2, <2>1, <2>2, BackedPrefix, Zenon
<1>4. SeenBacked(ring', table', proc')
  <2> SUFFICES ASSUME NEW p \in Pid, proc'[p].start # 0, proc'[p].agent = "seen"
               PROVE  Backed(ring', table', p, n + 1 + 1)
    BY <1>1, Zenon DEF SeenBacked
  <2>1. n + 1 \in Nat \ {0}
    BY <1>1
  <2>2. CASE Tags(e) /\ e.pid = p
    BY <1>1, <2>1, <2>2, BackedByEvent, Zenon
  <2>3. CASE proc[p].start # 0 /\ proc[p].agent = "seen" /\ ~ExitOf(e, p)
    <3>1. Backed(ring, table, p, n + 1)
      BY <2>3, Zenon DEF History, HistoryOf, SeenBacked, n
    <3>2. Backed(ring', table, p, n + 1)
      <4> DEFINE m == n + 1
      <4>1. m \in Nat
        BY <1>1
      <4>2. Backed(ring, table, p, m)
        BY <3>1, Zenon
      <4>3. \A k \in 1..(m - 1) : ring'[k] = ring[k]
        BY <1>1
      <4> HIDE DEF m
      <4>4. Backed(ring', table, p, m)
        BY <4>1, <4>2, <4>3, BackedPrefix, Zenon
      <4> QED
        BY <4>4, Zenon DEF m
    <3> QED
      BY <1>1, <1>2, <2>1, <2>3, <3>2, BackedNext, Zenon
  <2> QED
    BY <2>2, <2>3, Zenon DEF Sends
<1>5. \A p \in Pid, i \in 1..(n + 1) : \A j \in 0..n : Stays(ring', p, i, j) => Stays(ring, p, i, j)
  BY <1>1 DEF Stays
<1>6. \A p \in Pid, i \in 1..(n + 1) :
        Stays(ring', p, i, n + 1) => Stays(ring', p, i, n) /\ ~ExitOf(e, p)
  BY <1>1 DEF Stays
<1>7. ExecsCurrent(ring', proc')
  <2> SUFFICES ASSUME NEW p \in Pid, NEW k \in 1..(n + 1), ExecOf(ring'[k], p), Stays(ring', p, k, n + 1)
               PROVE  ring'[k].start = proc'[p].start
    BY <1>1, Zenon DEF ExecsCurrent
  <2>1. CASE k \in 1..n
    <3>1. ring'[k] = ring[k] /\ Stays(ring, p, k, n) /\ ~ExitOf(e, p)
      BY <1>1, <1>5, <1>6, <2>1
    <3>2. ring[k].start = proc[p].start
      BY <2>1, <3>1, Zenon DEF History, HistoryOf, ExecsCurrent, n
    <3>3. ring[k].start # 0
      BY <2>1, <3>1, Zenon DEF Stamps, ExecOf, n
    <3> QED
      BY <3>1, <3>2, <3>3, Zenon DEF Sends
  <2>2. CASE k = n + 1
    BY <1>1, <2>2 DEF Sends, ExecOf
  <2> QED
    BY <1>1, <2>1, <2>2
<1>8. ExecsAgree(ring')
  <2> SUFFICES ASSUME NEW p \in Pid, NEW j \in 1..(n + 1), NEW k \in 1..(n + 1), j < k,
                      ExecOf(ring'[j], p), ExecOf(ring'[k], p), Stays(ring', p, j, k)
               PROVE  ring'[j].start = ring'[k].start
    BY <1>1 DEF ExecsAgree
  <2>1. j \in 1..n /\ ring'[j] = ring[j]
    BY <1>1
  <2>2. CASE k \in 1..n
    <3>1. ring'[k] = ring[k] /\ Stays(ring, p, j, k)
      BY <1>1, <1>5, <2>2
    <3> QED
      BY <2>1, <2>2, <3>1 DEF History, HistoryOf, ExecsAgree, n
  <2>3. CASE k = n + 1
    <3>1. Stays(ring, p, j, n)
      BY <1>1, <1>5, <1>6, <2>3
    <3>2. ring[j].start = proc[p].start
      BY <2>1, <3>1, Zenon DEF History, HistoryOf, ExecsCurrent, n
    <3> QED
      BY <1>1, <2>1, <2>3, <3>2 DEF Sends, ExecOf
  <2> QED
    BY <1>1, <2>2, <2>3
<1>9. EntryCurrent(ring', table', proc')
  <2> SUFFICES ASSUME NEW p \in Pid, Dated(table[p]), Stays(ring', p, 1, n + 1)
               PROVE  proc'[p].start = table[p].start
    BY <1>1, <1>2, Zenon DEF EntryCurrent
  <2>1. Stays(ring, p, 1, n) /\ ~ExitOf(e, p)
    BY <1>1, <1>5, <1>6
  <2>2. proc[p].start = table[p].start /\ table[p].start # 0
    BY <2>1, Zenon DEF History, HistoryOf, EntryCurrent, Dated, n
  <2> QED
    BY <2>1, <2>2, Zenon DEF Sends
<1>10. EntryAgrees(ring', table')
  <2> SUFFICES ASSUME NEW p \in Pid, NEW k \in 1..(n + 1), Dated(table[p]),
                      ExecOf(ring'[k], p), Stays(ring', p, 1, k)
               PROVE  ring'[k].start = table[p].start
    BY <1>1, <1>2, Zenon DEF EntryAgrees
  <2>1. CASE k \in 1..n
    <3>1. ring'[k] = ring[k] /\ Stays(ring, p, 1, k)
      BY <1>1, <1>5, <2>1
    <3> QED
      BY <2>1, <3>1, Zenon DEF History, HistoryOf, EntryAgrees, n
  <2>2. CASE k = n + 1
    <3>1. Stays(ring, p, 1, n)
      BY <1>1, <1>5, <1>6, <2>2
    <3>2. proc[p].start = table[p].start
      BY <3>1, Zenon DEF History, HistoryOf, EntryCurrent, n
    <3> QED
      BY <1>1, <2>2, <3>2, Zenon DEF Sends, ExecOf
  <2> QED
    BY <1>1, <2>1, <2>2
<1>11. ClaimsQueued(ring', proc')
  <2> SUFFICES ASSUME NEW p \in Pid, proc'[p].start # 0, proc'[p].agent = "claimed"
               PROVE  proc'[p].cgroup /\ \E i \in 1..(n + 1) : ExecOf(ring'[i], p) /\ Stays(ring', p, i, n + 1)
    BY <1>1, Zenon DEF ClaimsQueued
  <2>1. CASE ExecOf(e, p)
    <3>1. n + 1 \in 1..(n + 1) /\ Stays(ring', p, n + 1, n + 1)
      BY <1>1, <2>1 DEF Stays, ExecOf, ExitOf
    <3> QED
      BY <1>1, <2>1, <3>1, Zenon DEF Sends
  <2>2. CASE proc[p].start # 0 /\ proc[p].agent = "claimed" /\ ~ExitOf(e, p)
    <3>1. PICK i \in 1..n : ExecOf(ring[i], p) /\ Stays(ring, p, i, n)
      BY <2>2, Zenon DEF History, HistoryOf, ClaimsQueued, n
    <3>2. i \in 1..(n + 1) /\ ring'[i] = ring[i] /\ Stays(ring', p, i, n + 1)
      BY <1>1, <2>2, <3>1 DEF Stays
    <3> QED
      BY <3>1, <3>2, Zenon DEF Sends
  <2> QED
    BY <2>1, <2>2, Zenon DEF Sends
<1> QED
  BY <1>3, <1>4, <1>7, <1>8, <1>9, <1>10, <1>11, Zenon DEF History, HistoryOf

-----------------------------------------------------------------------------
(* ... and by the handling of the first event.                                *)

\* The queue r becomes r2, the table t becomes t2.
Handles(r, r2, t, t2) ==
  /\ r # << >> /\ r2 = Tail(r)
  /\ \A p \in Pid :
       /\ Has(t, p) /\ ~ExitOf(r[1], p) => Has(t2, p)
       /\ Tags(r[1]) /\ r[1].pid = p => Has(t2, p)
       /\ Dated(t2[p])
            => \/ Dated(t[p]) /\ ~ExitOf(r[1], p) /\ t2[p].start = t[p].start
               \/ ExecOf(r[1], p) /\ t2[p].start = r[1].start

\* The first event is not the only exec of a claimed process.
Unclaimed(r, pr) ==
  \A p \in Pid : ExecOf(r[1], p) /\ Stays(r, p, 1, Len(r)) /\ pr[p].start # 0 => pr[p].agent # "claimed"

LEMMA HandlesHistory ==
  ASSUME NEW r \in Seq(EventType), NEW r2, NEW t, NEW t2, NEW pr,
         HistoryOf(r, t, pr), Handles(r, r2, t, t2), Unclaimed(r, pr)
  PROVE  HistoryOf(r2, t2, pr)
<1> DEFINE n == Len(r)
<1>1. /\ n \in Nat \ {0} /\ Len(r2) = n - 1
      /\ \A i \in 1..(n - 1) : r2[i] = r[i + 1]
  BY DEF Handles
<1> HIDE DEF n
<1>3. ASSUME NEW p \in Pid, NEW m \in 2..(n + 1), Backed(r, t, p, m)
      PROVE  Backed(r2, t2, p, m - 1)
  <2>1. m \in Nat /\ m >= 2 /\ \A i \in 1..(m - 2) : r2[i] = r[i + 1]
    BY <1>1
  <2>2. /\ Has(t, p) /\ ~ExitOf(r[1], p) => Has(t2, p)
        /\ Tags(r[1]) /\ r[1].pid = p => Has(t2, p)
    BY Zenon DEF Handles
  <2> QED
    BY <1>3, <2>1, <2>2, BackedShift, Zenon
<1>4. ForksBacked(r2, t2)
  <2> SUFFICES ASSUME NEW i \in 1..(n - 1), r2[i].type = "fork", r2[i].seen
               PROVE  r2[i].ppid \in Pid /\ Backed(r2, t2, r2[i].ppid, i)
    BY <1>1, Zenon DEF ForksBacked
  <2>1. r2[i] = r[i + 1] /\ i + 1 \in 1..n /\ i + 1 \in 2..(n + 1) /\ i + 1 - 1 = i
    BY <1>1
  <2>2. r2[i].ppid \in Pid /\ Backed(r, t, r2[i].ppid, i + 1)
    BY <2>1, Zenon DEF HistoryOf, ForksBacked, n
  <2> QED
    BY <1>3, <2>1, <2>2
<1>5. SeenBacked(r2, t2, pr)
  <2> SUFFICES ASSUME NEW p \in Pid, pr[p].start # 0, pr[p].agent = "seen"
               PROVE  Backed(r2, t2, p, n - 1 + 1)
    BY <1>1, Zenon DEF SeenBacked
  <2> DEFINE m == n + 1
  <2>1. m \in 2..(n + 1) /\ m - 1 = n - 1 + 1
    BY <1>1
  <2>2. Backed(r, t, p, m)
    BY Zenon DEF HistoryOf, SeenBacked, n
  <2> HIDE DEF m
  <2>3. Backed(r2, t2, p, m - 1)
    BY <1>3, <2>1, <2>2, Zenon
  <2> QED
    BY <2>1, <2>3, Zenon
<1>6. ASSUME NEW p \in Pid, NEW i \in 1..n, NEW j \in 0..(n - 1), Stays(r2, p, i, j)
      PROVE  Stays(r, p, i + 1, j + 1)
  <2> SUFFICES ASSUME NEW k \in (i + 1)..(j + 1)
               PROVE  ~ExitOf(r[k], p)
    BY Zenon DEF Stays
  <2>1. k - 1 \in i..j /\ k - 1 \in 1..(n - 1) /\ k - 1 + 1 = k
    BY <1>1
  <2>2. r2[k - 1] = r[k]
    BY <1>1, <2>1, Zenon
  <2> QED
    BY <1>6, <2>1, <2>2, Zenon DEF Stays
<1>7. ASSUME NEW p \in Pid, NEW j \in 1..n, ~ExitOf(r[1], p), Stays(r, p, 2, j)
      PROVE  Stays(r, p, 1, j)
  BY <1>7 DEF Stays
<1>8. ASSUME NEW p \in Pid, ExecOf(r[1], p)
      PROVE  ~ExitOf(r[1], p)
  BY <1>8, Zenon DEF ExecOf, ExitOf
<1>9. ExecsAgree(r2)
  <2> SUFFICES ASSUME NEW p \in Pid, NEW j \in 1..(n - 1), NEW k \in 1..(n - 1), j < k,
                      ExecOf(r2[j], p), ExecOf(r2[k], p), Stays(r2, p, j, k)
               PROVE  r2[j].start = r2[k].start
    BY <1>1, Zenon DEF ExecsAgree
  <2>1. j \in 1..n /\ k \in 0..(n - 1) /\ j + 1 \in 1..n /\ k + 1 \in 1..n /\ j + 1 < k + 1
    BY <1>1
  <2>2. r2[j] = r[j + 1] /\ r2[k] = r[k + 1]
    BY <1>1, Zenon
  <2>3. Stays(r, p, j + 1, k + 1)
    BY <1>6, <2>1, Zenon
  <2> QED
    BY <2>1, <2>2, <2>3 DEF HistoryOf, ExecsAgree, n
<1>10. ExecsCurrent(r2, pr)
  <2> SUFFICES ASSUME NEW p \in Pid, NEW k \in 1..(n - 1), ExecOf(r2[k], p), Stays(r2, p, k, n - 1)
               PROVE  r2[k].start = pr[p].start
    BY <1>1, Zenon DEF ExecsCurrent
  <2>1. r2[k] = r[k + 1] /\ k \in 1..n /\ k + 1 \in 1..n /\ n - 1 \in 0..(n - 1) /\ n - 1 + 1 = n
    BY <1>1
  <2>2. Stays(r, p, k + 1, n)
    BY <1>6, <2>1, Zenon
  <2> QED
    BY <2>1, <2>2, Zenon DEF HistoryOf, ExecsCurrent, n
<1>11. EntryAgrees(r2, t2)
  <2> SUFFICES ASSUME NEW p \in Pid, NEW k \in 1..(n - 1), Dated(t2[p]),
                      ExecOf(r2[k], p), Stays(r2, p, 1, k)
               PROVE  r2[k].start = t2[p].start
    BY <1>1, Zenon DEF EntryAgrees
  <2>1. /\ r2[k] = r[k + 1] /\ k + 1 \in 1..n /\ k \in 0..(n - 1) /\ 1 \in 1..n
        /\ 1 + 1 = 2 /\ 1 < k + 1
    BY <1>1
  <2>2. Stays(r, p, 2, k + 1)
    BY <1>6, <2>1, Zenon
  <2>3. CASE Dated(t[p]) /\ ~ExitOf(r[1], p) /\ t2[p].start = t[p].start
    <3>1. Stays(r, p, 1, k + 1)
      BY <1>7, <2>1, <2>2, <2>3, Zenon
    <3> QED
      BY <2>1, <2>3, <3>1, Zenon DEF HistoryOf, EntryAgrees, n
  <2>4. CASE ExecOf(r[1], p) /\ t2[p].start = r[1].start
    <3>1. Stays(r, p, 1, k + 1)
      BY <1>7, <1>8, <2>1, <2>2, <2>4, Zenon
    <3>2. r[1].start = r[k + 1].start
      BY <2>1, <2>4, <3>1, Zenon DEF HistoryOf, ExecsAgree, n
    <3> QED
      BY <2>1, <2>4, <3>2, Zenon
  <2> QED
    BY <2>3, <2>4, Zenon DEF Handles
<1>12. EntryCurrent(r2, t2, pr)
  <2> SUFFICES ASSUME NEW p \in Pid, Dated(t2[p]), Stays(r2, p, 1, n - 1)
               PROVE  pr[p].start = t2[p].start
    BY <1>1, Zenon DEF EntryCurrent
  <2>1. 1 \in 1..n /\ n \in 1..n /\ n - 1 \in 0..(n - 1) /\ n - 1 + 1 = n /\ 1 + 1 = 2
    BY <1>1
  <2>2. Stays(r, p, 2, n)
    BY <1>6, <2>1, Zenon
  <2>3. CASE Dated(t[p]) /\ ~ExitOf(r[1], p) /\ t2[p].start = t[p].start
    <3>1. Stays(r, p, 1, n)
      BY <1>7, <2>1, <2>2, <2>3, Zenon
    <3> QED
      BY <2>3, <3>1, Zenon DEF HistoryOf, EntryCurrent, n
  <2>4. CASE ExecOf(r[1], p) /\ t2[p].start = r[1].start
    <3>1. Stays(r, p, 1, n)
      BY <1>7, <1>8, <2>1, <2>2, <2>4, Zenon
    <3>2. r[1].start = pr[p].start
      BY <2>1, <2>4, <3>1, Zenon DEF HistoryOf, ExecsCurrent, n
    <3> QED
      BY <2>4, <3>2, Zenon
  <2> QED
    BY <2>3, <2>4, Zenon DEF Handles
<1>13. ClaimsQueued(r2, pr)
  <2> SUFFICES ASSUME NEW p \in Pid, pr[p].start # 0, pr[p].agent = "claimed"
               PROVE  pr[p].cgroup /\ \E i \in 1..(n - 1) : ExecOf(r2[i], p) /\ Stays(r2, p, i, n - 1)
    BY <1>1, Zenon DEF ClaimsQueued
  <2>1. pr[p].cgroup /\ \E i \in 1..n : ExecOf(r[i], p) /\ Stays(r, p, i, n)
    BY Zenon DEF HistoryOf, ClaimsQueued, n
  <2>2. PICK i \in 1..n : ExecOf(r[i], p) /\ Stays(r, p, i, n)
    BY <2>1, Zenon
  <2>3. i # 1
    BY <2>2, Zenon DEF Unclaimed, n
  <2>4. i - 1 \in 1..(n - 1) /\ i - 1 + 1 = i
    BY <1>1, <2>3
  <2>5. r2[i - 1] = r[i]
    BY <1>1, <2>4, Zenon
  <2>6. Stays(r2, p, i - 1, n - 1)
    BY <1>1, <2>2, <2>4 DEF Stays
  <2> QED
    BY <2>1, <2>2, <2>4, <2>5, <2>6, Zenon
<1> QED
  BY <1>4, <1>5, <1>9, <1>10, <1>11, <1>12, <1>13, Zenon DEF HistoryOf

\* Entries are added or, dated as the exec in front, renewed.
LEMMA TableHistory ==
  ASSUME NEW r \in Seq(EventType), NEW t, NEW t2, NEW pr, HistoryOf(r, t, pr),
         \A p \in Pid :
           /\ Has(t, p) => Has(t2, p)
           /\ Dated(t2[p]) => \/ Dated(t[p]) /\ t2[p].start = t[p].start
                              \/ r # << >> /\ ExecOf(r[1], p) /\ t2[p].start = r[1].start
  PROVE  HistoryOf(r, t2, pr)
<1>1. Len(r) \in Nat /\ (r # << >> => 1 \in 1..Len(r))
  OBVIOUS
<1>2. \A p \in Pid, n \in Nat : Backed(r, t, p, n) => Backed(r, t2, p, n)
  BY BackedTable, Zenon
<1>3. ForksBacked(r, t2) /\ SeenBacked(r, t2, pr)
  <2>1. Len(r) + 1 \in Nat /\ \A i \in 1..Len(r) : i \in Nat
    BY <1>1
  <2> QED
    BY <1>2, <2>1, Zenon DEF HistoryOf, ForksBacked, SeenBacked
<1>4. EntryAgrees(r, t2)
  <2> SUFFICES ASSUME NEW p \in Pid, NEW k \in 1..Len(r), Dated(t2[p]), ExecOf(r[k], p), Stays(r, p, 1, k)
               PROVE  r[k].start = t2[p].start
    BY Zenon DEF EntryAgrees
  <2>1. CASE Dated(t[p]) /\ t2[p].start = t[p].start
    BY <2>1, Zenon DEF HistoryOf, EntryAgrees
  <2>2. CASE r # << >> /\ ExecOf(r[1], p) /\ t2[p].start = r[1].start
    <3>1. k = 1 \/ 1 < k
      BY <1>1
    <3> QED
      BY <1>1, <2>2, <3>1, Zenon DEF HistoryOf, ExecsAgree
  <2> QED
    BY <2>1, <2>2, Zenon
<1>5. EntryCurrent(r, t2, pr)
  BY <1>1, Zenon DEF HistoryOf, EntryCurrent, ExecsCurrent
<1> QED
  BY <1>3, <1>4, <1>5, Zenon DEF HistoryOf

-----------------------------------------------------------------------------
(* ... and when userspace comes by a process.                                 *)

\* A queued fork of a descendant of p is by p or by one forked before.
LEMMA ForksSupported ==
  ASSUME NEW p, NEW i \in Forks(p)
  PROVE  i \in ForksBy(p, Forks(p))
<1> DEFINE K == Forks(p)
           T == K \ {i}
<1>1. \A S, U : S \subseteq U => ForksBy(p, S) \subseteq ForksBy(p, U)
  BY Zenon DEF ForksBy
<1>2. K \in SUBSET (1..Len(ring)) /\ T \in SUBSET (1..Len(ring)) /\ i \in K
  BY Zenon DEF Forks
<1>3. ASSUME NEW S \in SUBSET (1..Len(ring)), ForksBy(p, S) \subseteq S
      PROVE  K \subseteq S
  BY <1>3, Zenon DEF Forks
<1>4. ForksBy(p, K) \subseteq K
  <2>1. \A S \in SUBSET (1..Len(ring)) : ForksBy(p, S) \subseteq S => ForksBy(p, K) \subseteq S
    <3> HIDE DEF K
    <3> QED
      BY <1>1, <1>3, Zenon
  <2>2. ForksBy(p, K) \subseteq 1..Len(ring)
    BY Zenon DEF ForksBy
  <2> QED
    BY <2>1, <2>2, Zenon DEF Forks
<1> HIDE DEF K
<1>5. ASSUME i \notin ForksBy(p, K)
      PROVE  FALSE
  <2>1. ForksBy(p, T) \subseteq T
    BY <1>1, <1>4, <1>5, Zenon
  <2>2. K \subseteq T
    BY <1>2, <1>3, <2>1, Zenon
  <2> QED
    BY <1>2, <2>2, Zenon
<1> QED
  BY <1>5, Zenon DEF K

\* Userspace comes by p, which it knows by now.
LEMMA SeeHistory ==
  ASSUME Typed, NEW p \in Pid, Present(p), NEW t, HistoryOf(ring, t, proc), Has(t, p), NEW found
  PROVE  HistoryOf(SeeForks(p), t, See(p, found))
<1> DEFINE r2 == SeeForks(p)
           pr2 == See(p, found)
<1>1. /\ Len(r2) = Len(ring) /\ Len(ring) \in Nat
      /\ \A i \in 1..Len(ring) :
           /\ Marked(ring[i], r2[i])
           /\ r2[i].seen => ring[i].seen \/ i \in Forks(p)
           /\ i \in Forks(p) => r2[i].seen
  BY SeeForksFacts, Zenon
<1>2. \A q \in Pid :
        /\ pr2[q].start = proc[q].start /\ pr2[q].cgroup = proc[q].cgroup
        /\ pr2[q].agent = "seen" =>
             \/ proc[q].agent = "seen" \/ q = p
             \/ \E i \in Forks(p) : ring[i].pid = q /\ ~Ends(q, i, Len(ring))
        /\ pr2[q].agent = "claimed" => proc[q].agent = "claimed"
  <2>1. SeenFrom(pr2, p, found)
    BY SeeFacts, Zenon
  <2> HIDE DEF pr2
  <2> QED
    BY <2>1, Zenon DEF SeenFrom
<1> HIDE DEF r2, pr2
<1>3. \A q \in Pid : \A n \in 1..(Len(ring) + 1) : Backed(ring, t, q, n) => Backed(r2, t, q, n)
  <2> SUFFICES ASSUME NEW q \in Pid, NEW n \in 1..(Len(ring) + 1), Backed(ring, t, q, n)
               PROVE  Backed(r2, t, q, n)
    BY Zenon
  <2>1. n \in Nat /\ \A i \in 1..(n - 1) : i \in 1..Len(ring)
    BY <1>1
  <2> QED
    BY <1>1, <2>1, BackedMarked, Zenon
<1>4. \A q \in Pid : \A i \in 1..(Len(ring) + 1), j \in 0..Len(ring) :
        /\ Stays(ring, q, i, j) <=> Stays(r2, q, i, j)
        /\ ~Ends(q, i, j) => Stays(ring, q, i, j)
  <2>1. ASSUME NEW i \in 1..(Len(ring) + 1), NEW j \in 0..Len(ring), NEW k \in i..j
        PROVE  k \in 1..Len(ring)
    BY <1>1
  <2>2. \A k \in 1..Len(ring), q \in Pid :
          /\ ExitOf(ring[k], q) <=> ExitOf(r2[k], q)
          /\ ExitOf(ring[k], q) => ring[k].type = "exit" /\ ring[k].pid = q
    BY <1>1, Zenon DEF ExitOf, Marked
  <2> QED
    BY <2>1, <2>2, ZenonT(30) DEF Stays, Ends
<1>5. Stays(r2, p, 1, Len(ring))
  BY <1>1, <1>4 DEF Present
<1>6. ForksBacked(r2, t)
  <2> SUFFICES ASSUME NEW i \in 1..Len(ring), ring[i].type = "fork", r2[i].seen
               PROVE  ring[i].ppid \in Pid /\ Backed(r2, t, ring[i].ppid, i)
    BY <1>1, Zenon DEF ForksBacked, Marked
  <2>1. CASE ring[i].seen
    <3>1. ring[i].ppid \in Pid /\ Backed(ring, t, ring[i].ppid, i)
      BY <2>1, Zenon DEF HistoryOf, ForksBacked
    <3>2. i \in 1..(Len(ring) + 1)
      BY <1>1
    <3> QED
      BY <1>3, <3>1, <3>2, Zenon
  <2>2. CASE i \in Forks(p)
    <3>1. i \in ForksBy(p, Forks(p))
      BY <2>2, ForksSupported, Zenon
    <3>2. CASE ring[i].ppid = p
      <4>1. Stays(r2, p, 1, i - 1)
        BY <1>1, <1>5 DEF Stays
      <4> QED
        BY <3>2, <4>1, Zenon DEF Backed
    <3>3. CASE \E j \in Forks(p) : j < i /\ ring[j].pid = ring[i].ppid /\ ~Ends(ring[j].pid, j, i)
      <4>1. PICK j \in Forks(p) : j < i /\ ring[j].pid = ring[i].ppid /\ ~Ends(ring[j].pid, j, i)
        BY <3>3, Zenon
      <4>2. j \in 1..Len(ring) /\ j \in 1..(i - 1) /\ j \in ForksBy(p, Forks(p))
        <5>1. j \in ForksBy(p, Forks(p))
          BY <4>1, ForksSupported, Zenon
        <5>2. j \in 1..Len(ring)
          BY <5>1, Zenon DEF ForksBy
        <5> QED
          BY <1>1, <4>1, <5>1, <5>2
      <4>3. ring[j].type = "fork" /\ ring[j] \in EventType
        BY <4>2 DEF ForksBy, Typed
      <4>4. Tags(r2[j]) /\ r2[j].pid = ring[j].pid
        BY <1>1, <4>1, <4>2, <4>3, Zenon DEF Tags, Marked
      <4>5. ring[j].pid \in Pid
        BY <4>3, Zenon DEF EventType
      <4>6. Stays(ring, ring[j].pid, j, i)
        BY <1>1, <1>4, <4>1, <4>2, <4>5
      <4>7. Stays(r2, ring[j].pid, j, i)
        BY <1>1, <1>4, <4>2, <4>5, <4>6
      <4>8. Stays(r2, ring[j].pid, j + 1, i - 1)
        BY <4>2, <4>7 DEF Stays
      <4> QED
        BY <4>1, <4>2, <4>4, <4>5, <4>8, Zenon DEF Backed
    <3> QED
      BY <3>1, <3>2, <3>3, Zenon DEF ForksBy
  <2> QED
    BY <1>1, <2>1, <2>2, Zenon
<1>7. SeenBacked(r2, t, pr2)
  <2> SUFFICES ASSUME NEW q \in Pid, proc[q].start # 0, pr2[q].agent = "seen"
               PROVE  Backed(r2, t, q, Len(ring) + 1)
    BY <1>1, <1>2, Zenon DEF SeenBacked
  <2>1. Len(ring) + 1 \in 1..(Len(ring) + 1) /\ Len(ring) + 1 - 1 = Len(ring)
    BY <1>1
  <2>2. CASE proc[q].agent = "seen"
    BY <1>3, <2>1, <2>2, Zenon DEF HistoryOf, SeenBacked
  <2>3. CASE q = p
    BY <1>5, <2>1, <2>3 DEF Backed
  <2>4. CASE \E i \in Forks(p) : ring[i].pid = q /\ ~Ends(q, i, Len(ring))
    <3>1. PICK i \in Forks(p) : ring[i].pid = q /\ ~Ends(q, i, Len(ring))
      BY <2>4, Zenon
    <3>2. i \in 1..Len(ring) /\ i \in ForksBy(p, Forks(p))
      BY <3>1, ForksSupported, Zenon DEF Forks
    <3>3. ring[i].type = "fork"
      BY <3>2, Zenon DEF ForksBy
    <3>4. Tags(r2[i]) /\ r2[i].pid = q
      BY <1>1, <3>1, <3>2, <3>3, Zenon DEF Tags, Marked
    <3>5. Stays(r2, q, i, Len(ring))
      BY <1>1, <1>4, <3>1, <3>2
    <3>6. Stays(r2, q, i + 1, Len(ring))
      BY <3>2, <3>5 DEF Stays
    <3> QED
      BY <2>1, <3>2, <3>4, <3>6 DEF Backed
  <2> QED
    BY <1>2, <2>2, <2>3, <2>4, Zenon
<1>8. \A q \in Pid : \A k \in 1..Len(ring) :
        (ExecOf(r2[k], q) <=> ExecOf(ring[k], q)) /\ r2[k].start = ring[k].start
  BY <1>1, Zenon DEF ExecOf, Marked
<1>9. ExecsAgree(r2)
  BY <1>1, <1>4, <1>8 DEF HistoryOf, ExecsAgree
<1>10. ExecsCurrent(r2, pr2)
  <2> SUFFICES ASSUME NEW q \in Pid, NEW k \in 1..Len(ring), ExecOf(r2[k], q), Stays(r2, q, k, Len(ring))
               PROVE  r2[k].start = pr2[q].start
    BY <1>1, Zenon DEF ExecsCurrent
  <2>1. k \in 1..(Len(ring) + 1) /\ Len(ring) \in 0..Len(ring)
    BY <1>1
  <2>2. ExecOf(ring[k], q) /\ r2[k].start = ring[k].start
    BY <1>8, Zenon
  <2>3. Stays(ring, q, k, Len(ring))
    BY <1>4, <2>1, Zenon
  <2>4. ring[k].start = proc[q].start
    BY <2>2, <2>3, Zenon DEF HistoryOf, ExecsCurrent
  <2> QED
    BY <1>2, <2>2, <2>4, Zenon
<1>11. EntryAgrees(r2, t)
  BY <1>1, <1>4, <1>8 DEF HistoryOf, EntryAgrees
<1>12. EntryCurrent(r2, t, pr2)
  BY <1>1, <1>2, <1>4 DEF HistoryOf, EntryCurrent
<1>13. ClaimsQueued(r2, pr2)
  <2> SUFFICES ASSUME NEW q \in Pid, proc[q].start # 0, pr2[q].agent = "claimed"
               PROVE  proc[q].cgroup /\ \E i \in 1..Len(ring) : ExecOf(r2[i], q) /\ Stays(r2, q, i, Len(ring))
    BY <1>1, <1>2, Zenon DEF ClaimsQueued
  <2>1. proc[q].cgroup /\ \E i \in 1..Len(ring) : ExecOf(ring[i], q) /\ Stays(ring, q, i, Len(ring))
    BY <1>2, Zenon DEF HistoryOf, ClaimsQueued
  <2>2. \A i \in 1..Len(ring) : i \in 1..(Len(ring) + 1) /\ Len(ring) \in 0..Len(ring)
    BY <1>1
  <2> QED
    BY <1>4, <1>8, <2>1, <2>2, Zenon
<1> QED
  BY <1>6, <1>7, <1>9, <1>10, <1>11, <1>12, <1>13, Zenon DEF HistoryOf, r2, pr2

-----------------------------------------------------------------------------
(* The other parts of the invariant.                                          *)

\* Userspace's own view is in the kernel map.
EntryTagged == \A p \in Pid : Has(table, p) => p \in tagged

TaggedKnown == \A p \in Pid : table[p].tagged => table[p].known

\* No exit of a process older than the tracepoints was handled or is queued.
OlderRuns == \A p \in Older : Stays(ring, p, 1, Len(ring)) /\ ~table[p].exited

OlderRooted == \A p \in Older : proc[p].ppid \in Pid => proc[p].ppid \in Older

BootFresh == engine = "boot" => \A p \in Pid : ~table[p].exited /\ table[p].start = 0

\* The listing of the bootstrap has the processes that matter, under their parents.
ListingCurrent ==
  engine = "boot" /\ scan.pc # "idle"
    => \A p \in Older : p \in DOMAIN listing /\ (proc[p].ppid \in Pid => proc[p].ppid = listing[p])

FoundOlder == \A p \in Pid : proc[p].agent = "found" => p \in Older

\* A process the bootstrap found below an agent's is tagged by its end.
FoundTagged ==
  \A p \in Pid : proc[p].agent = "found" =>
    IF engine = "run" THEN p \in tagged
    ELSE \/ scan.pc = "visit" /\ p \in Below(Seeds, listing)
         \/ scan.pc = "propagate" /\ p \in scan.todo

Base ==
  Typed /\ Stamps /\ TaggedKnown /\ OlderRooted /\ BootFresh /\ ListingCurrent /\ FoundOlder

Tracked == History /\ EntryTagged /\ OlderRuns /\ FoundTagged

TagInv == Base /\ (~lost => Tracked)

-----------------------------------------------------------------------------
(* System calls.                                                              *)

\* What they have in common, e being the event.
SystemCall(e) ==
  /\ UNCHANGED <<table, engine, scan, listing>>
  /\ tagged \subseteq tagged' /\ (lost => lost') /\ clock <= clock'
  /\ ring' = ring \/ ring' = Append(ring, e)
  /\ ~lost' => Sends(e)
  /\ e.start <= clock'
  /\ e.type = "exec" => e.start # 0
  /\ e.type = "exit" => e.start # 0 /\ proc'[e.pid].start = 0
  /\ \A p \in Pid :
       /\ proc'[p].start <= clock'
       /\ proc'[p].start = proc[p].start \/ proc'[p].start = 0 \/ proc'[p].start > clock
       /\ proc'[p].agent = "found" => proc[p].agent = "found" /\ proc'[p].start = proc[p].start
       /\ p \in Older' => ~ExitOf(e, p) /\ proc'[p].ppid \in {proc[p].ppid, InitPid}
       /\ p \in Older' /\ proc[p].ppid \in Older /\ proc'[p].ppid = proc[p].ppid
            => proc'[p].ppid \in Older'

LEMMA SystemCallKeeps ==
  ASSUME TagInv, Typed', NEW e \in EventType, SystemCall(e)
  PROVE  TagInv'
<1> USE TagAssumption
<1>1. Typed /\ UNCHANGED <<table, engine, scan, listing>>
  BY Zenon DEF TagInv, Base, SystemCall
<1>2. /\ clock \in Nat /\ clock' \in Nat /\ clock >= 1
      /\ \A p \in Pid : proc[p].start \in Nat /\ proc'[p].start \in Nat
      /\ \A k \in 1..Len(ring) : ring[k].start \in Nat /\ ring[k].pid \in Pid
      /\ e.start \in Nat /\ e.pid \in Pid /\ Len(ring) \in Nat
  <2>1. clock \in Nat /\ clock' \in Nat /\ clock >= 1 /\ Len(ring) \in Nat
    BY <1>1 DEF Typed
  <2>2. \A p \in Pid : proc[p] \in ProcType /\ proc'[p] \in ProcType
    BY <1>1, Zenon DEF Typed
  <2>3. \A k \in 1..Len(ring) : ring[k] \in EventType
    BY <1>1 DEF Typed
  <2>4. \A x \in ProcType : x.start \in Nat
    BY DEF ProcType
  <2>5. \A x \in EventType : x.start \in Nat /\ x.pid \in Pid
    BY DEF EventType
  <2> QED
    BY <2>1, <2>2, <2>3, <2>4, <2>5, Zenon
<1>3. Older' \subseteq Older
  BY <1>2, SMTT(30) DEF SystemCall, Older
<1>4. /\ Len(ring') = Len(ring) \/ Len(ring') = Len(ring) + 1
      /\ \A k \in 1..Len(ring') : (k \in 1..Len(ring) /\ ring'[k] = ring[k]) \/ ring'[k] = e
  BY <1>1, SMTT(30) DEF SystemCall, Typed
<1>5. Stamps'
  <2>1. ASSUME NEW k \in 1..Len(ring), ring[k].type = "exit"
        PROVE  ring[k].start # proc'[ring[k].pid].start
    <3>1. ring[k].start <= clock /\ ring[k].start # 0 /\ ring[k].start # proc[ring[k].pid].start
      BY <2>1, Zenon DEF TagInv, Base, Stamps
    <3>2. \A p \in Pid :
            proc'[p].start = proc[p].start \/ proc'[p].start = 0 \/ proc'[p].start > clock
      BY Zenon DEF SystemCall
    <3> QED
      BY <1>2, <3>1, <3>2, SMTT(20)
  <2>2. ASSUME NEW k \in 1..Len(ring)
        PROVE  ring[k].start <= clock'
    BY <1>2, SMTT(30) DEF TagInv, Base, Stamps, SystemCall
  <2>3. \A p \in Pid : proc'[p].start <= clock'
    BY Zenon DEF SystemCall
  <2>4. ASSUME NEW k \in 1..Len(ring')
        PROVE  /\ ring'[k].start <= clock'
               /\ ring'[k].type = "exec" => ring'[k].start # 0
               /\ ring'[k].type = "exit"
                    => ring'[k].start # 0 /\ ring'[k].start # proc'[ring'[k].pid].start
    <3>1. CASE k \in 1..Len(ring) /\ ring'[k] = ring[k]
      BY <2>1, <2>2, <3>1, Zenon DEF TagInv, Base, Stamps
    <3>2. CASE ring'[k] = e
      BY <3>2, Zenon DEF SystemCall
    <3> QED
      BY <1>4, <3>1, <3>2, Zenon
  <2> QED
    BY <2>3, <2>4, Zenon DEF Stamps
<1>6. OlderRooted'
  <2> SUFFICES ASSUME NEW p \in Older', proc'[p].ppid \in Pid
               PROVE  proc'[p].ppid \in Older'
    BY Zenon DEF OlderRooted
  <2>1. p \in Pid /\ p \in Older
    BY <1>3, Zenon DEF Older
  <2>2. proc'[p].ppid = proc[p].ppid
    BY <2>1, Zenon DEF SystemCall
  <2> QED
    BY <2>1, <2>2, Zenon DEF TagInv, Base, OlderRooted, SystemCall
<1>7. TaggedKnown' /\ BootFresh'
  BY <1>1, Zenon DEF TagInv, Base, TaggedKnown, BootFresh
<1>8. ListingCurrent'
  <2> SUFFICES ASSUME engine = "boot", scan.pc # "idle", NEW p \in Older'
               PROVE  p \in DOMAIN listing /\ (proc'[p].ppid \in Pid => proc'[p].ppid = listing[p])
    BY <1>1, Zenon DEF ListingCurrent
  <2>1. p \in Pid /\ p \in Older
    BY <1>3, Zenon DEF Older
  <2> QED
    BY <2>1, Zenon DEF TagInv, Base, ListingCurrent, SystemCall
<1>9. FoundOlder'
  BY Zenon DEF TagInv, Base, FoundOlder, SystemCall, Older
<1>10. ASSUME ~lost'
       PROVE  Tracked'
  <2>1. Tracked /\ Sends(e)
    BY <1>10, Zenon DEF TagInv, SystemCall
  <2>2. History'
    BY <1>1, <2>1, SendsHistory, Zenon DEF TagInv, Base, Tracked
  <2>3. EntryTagged'
    <3>1. table' = table /\ tagged \subseteq tagged'
      BY <1>1, Zenon DEF SystemCall
    <3>2. EntryTagged
      BY <2>1, Zenon DEF Tracked
    <3> QED
      BY <3>1, <3>2, Zenon DEF EntryTagged
  <2>4. OlderRuns'
    <3> SUFFICES ASSUME NEW p \in Older'
                 PROVE  Stays(ring', p, 1, Len(ring')) /\ ~table[p].exited
      BY <1>1, Zenon DEF OlderRuns
    <3>1. p \in Older /\ p \in Pid /\ ~ExitOf(e, p)
      BY <1>3, Zenon DEF Older, SystemCall
    <3>2. Stays(ring, p, 1, Len(ring)) /\ ~table[p].exited
      BY <2>1, <3>1, Zenon DEF Tracked, OlderRuns
    <3> QED
      BY <1>4, <3>1, <3>2, Zenon DEF Stays
  <2>5. FoundTagged'
    <3>1. Seeds' = Seeds
      BY <1>1, Zenon DEF Seeds, TaggedSnapshot
    <3>2. Below(Seeds', listing') = Below(Seeds, listing)
      BY <1>1, <3>1, Zenon
    <3> QED
      BY <1>1, <2>1, <3>2, Zenon DEF Tracked, FoundTagged, SystemCall
  <2> QED
    BY <2>2, <2>3, <2>4, <2>5, Zenon DEF Tracked
<1> QED
  BY <1>5, <1>6, <1>7, <1>8, <1>9, <1>10, Zenon DEF TagInv, Base

LEMMA EmitSends ==
  ASSUME Typed, NEW e, NEW refused \in BOOLEAN, Emit(e, refused)
  PROVE  /\ lost => lost'
         /\ ring' = ring \/ ring' = Append(ring, e)
         /\ ~lost' => ring' = Append(ring, e) /\ ~lost /\ ~refused
<1>1. Len(ring) >= RingCap \/ Len(ring) < RingCap
  BY TagAssumption DEF Typed
<1>2. lost \in BOOLEAN /\ lost' = (lost \/ refused \/ Len(ring) >= RingCap)
  BY Zenon DEF Typed, Emit
<1>3. ring' = IF Len(ring) < RingCap THEN Append(ring, e) ELSE ring
  BY Zenon DEF Emit
<1> QED
  BY <1>1, <1>2, <1>3, Zenon

LEMMA ClaimedInCgroup ==
  ASSUME TagInv, ~lost, NEW p \in Pid, proc[p].start # 0, proc[p].agent = "claimed"
  PROVE  proc[p].cgroup
  BY Zenon DEF TagInv, Tracked, History, HistoryOf, ClaimsQueued

LEMMA ForkKeeps ==
  ASSUME TagInv, NEW p \in AnyPid, NEW c \in Pid, Fork(p, c)
  PROVE  TagInv'
<1> DEFINE e == Event("fork", c, p, 0, FALSE, ChildSeen(p))
           refused == p \in tagged /\ ~Room(tagged, c)
<1>1. Typed /\ Typed'
  BY ForkTyped, Zenon DEF TagInv, Base
<1>2. e \in EventType
  BY TagAssumption DEF Event, EventType, ChildSeen
<1>3. e.type = "fork" /\ e.pid = c /\ e.ppid = p /\ e.start = 0 /\ e.seen = ChildSeen(p)
  BY Zenon DEF Event
<1>4. Emit(e, refused) /\ refused \in BOOLEAN
  BY Zenon DEF Fork, Room
<1>5. /\ lost => lost'
      /\ ring' = ring \/ ring' = Append(ring, e)
      /\ ~lost' => ring' = Append(ring, e) /\ ~lost
  BY <1>1, <1>4, EmitSends, Zenon
<1> HIDE DEF e, refused
<1>6. tagged \subseteq tagged'
  BY Zenon DEF Fork, Insert
<1>7. clock \in Nat /\ clock >= 1 /\ clock' = clock + 1
  <2>1. clock' = clock + 1 /\ clock \in 1..MaxTime
    BY <1>1, Zenon DEF Typed, Fork
  <2> QED
    BY <2>1
<1>8. proc[c].start = 0 /\ (p = InitPid \/ (p \in Pid /\ proc[p].start # 0))
  BY ZenonT(30) DEF Fork, Free, Alive
<1>9. /\ proc'[c].start = clock + 1 /\ proc'[c].ppid = p
      /\ proc'[c].agent = IF ChildSeen(p) THEN "seen" ELSE "none"
      /\ \A q \in Pid : q # c => proc'[q] = proc[q]
  BY <1>1, Zenon DEF Fork, Child, Typed
<1>10. UNCHANGED <<table, engine, scan, listing>>
  BY Zenon DEF Fork
<1>11. ASSUME ~lost'
       PROVE  Sends(e)
  <2>1. Tracked
    BY <1>5, <1>11, Zenon DEF TagInv
  <2>2. ASSUME e.seen
        PROVE  e.ppid \in Pid /\ Backed(ring, table, e.ppid, Len(ring) + 1)
    <3>1. p \in Pid /\ proc[p].start # 0
      BY <1>3, <1>8, <2>2, Zenon DEF ChildSeen
    <3>2. CASE proc[p].agent = "seen"
      BY <1>3, <2>1, <3>1, <3>2, Zenon DEF Tracked, History, HistoryOf, SeenBacked
    <3>3. CASE proc[p].agent = "found" /\ table[p].tagged
      <4>1. p \in Older
        BY <3>1, <3>3, Zenon DEF TagInv, Base, FoundOlder
      <4>2. Stays(ring, p, 1, Len(ring)) /\ Has(table, p)
        BY <2>1, <3>3, <4>1, Zenon DEF Tracked, OlderRuns, Has
      <4>3. Len(ring) + 1 - 1 = Len(ring)
        BY <1>1, SMTT(30) DEF Typed
      <4> QED
        BY <1>3, <3>1, <4>2, <4>3 DEF Backed
    <3> QED
      BY <1>3, <2>2, <3>2, <3>3, Zenon DEF ChildSeen
  <2>3. ASSUME NEW q \in Pid
        PROVE  /\ proc'[q].start = proc[q].start \/ ExitOf(e, q) \/ proc[q].start = 0
               /\ ExecOf(e, q) => proc'[q].start = proc[q].start
               /\ proc'[q].start # 0 /\ proc'[q].agent = "seen"
                     => \/ Tags(e) /\ e.pid = q
                        \/ proc[q].start # 0 /\ proc[q].agent = "seen" /\ ~ExitOf(e, q)
               /\ proc'[q].start # 0 /\ proc'[q].agent = "claimed"
                     => /\ proc'[q].cgroup
                        /\ \/ ExecOf(e, q)
                           \/ proc[q].start # 0 /\ proc[q].agent = "claimed" /\ ~ExitOf(e, q)
    <3>1. CASE q = c
      BY <1>3, <1>8, <1>9, <3>1, Zenon DEF ExecOf, Tags
    <3>2. CASE q # c
      <4>1. proc'[q] = proc[q] /\ ~ExitOf(e, q) /\ ~ExecOf(e, q)
        BY <1>3, <1>9, <3>2, Zenon DEF ExecOf, ExitOf
      <4>2. proc[q].start # 0 /\ proc[q].agent = "claimed" => proc[q].cgroup
        BY <1>5, <1>11, ClaimedInCgroup, Zenon
      <4> QED
        BY <4>1, <4>2, Zenon
    <3> QED
      BY <3>1, <3>2, Zenon
  <2> QED
    BY <1>3, <1>5, <1>10, <1>11, <2>2, <2>3, Zenon DEF Sends
<1>12. ASSUME NEW q \in Pid
       PROVE  /\ proc'[q].start <= clock'
              /\ proc'[q].start = proc[q].start \/ proc'[q].start = 0 \/ proc'[q].start > clock
              /\ proc'[q].agent = "found" => proc[q].agent = "found" /\ proc'[q].start = proc[q].start
              /\ q \in Older' => ~ExitOf(e, q) /\ proc'[q].ppid \in {proc[q].ppid, InitPid}
              /\ q \in Older' /\ proc[q].ppid \in Older /\ proc'[q].ppid = proc[q].ppid
                   => proc'[q].ppid \in Older'
  <2>1. proc[q].start <= clock /\ proc[q].start \in Nat
    <3>1. proc[q] \in ProcType
      BY <1>1, Zenon DEF Typed
    <3> QED
      BY <3>1, TagAssumption DEF ProcType, TagInv, Base, Stamps
  <2>2. CASE q = c
    BY <1>7, <1>9, <2>2, SMTT(30) DEF Older
  <2>3. CASE q # c
    <3>1. ~ExitOf(e, q)
      BY <1>3, Zenon DEF ExitOf
    <3>2. Older \subseteq Older'
      BY <1>8, <1>9 DEF Older
    <3> QED
      BY <1>7, <1>9, <2>1, <2>3, <3>1, <3>2
  <2> QED
    BY <2>2, <2>3, Zenon
<1>13. clock <= clock' /\ e.start <= clock' /\ e.type # "exec" /\ e.type # "exit"
  BY <1>3, <1>7
<1>14. SystemCall(e)
  BY <1>5, <1>6, <1>10, <1>11, <1>12, <1>13, Zenon DEF SystemCall
<1> QED
  BY <1>1, <1>2, <1>14, SystemCallKeeps, Zenon

LEMMA Living ==
  ASSUME TagInv, NEW p \in Alive
  PROVE  /\ p \in Pid /\ proc[p] \in ProcType
         /\ proc[p].start \in 1..clock /\ clock \in Nat \ {0}
<1>1. p \in Pid /\ proc[p].start # 0
  BY Zenon DEF Alive
<1>2. proc[p] \in ProcType /\ clock \in Nat \ {0}
  BY <1>1, TagAssumption DEF TagInv, Base, Typed
<1>3. proc[p].start \in Nat
  BY <1>2, TagAssumption DEF ProcType
<1> QED
  BY <1>1, <1>2, <1>3 DEF TagInv, Base, Stamps

LEMMA ExecKeeps ==
  ASSUME TagInv, NEW p \in Pid, NEW match \in BOOLEAN, Exec(p, match)
  PROVE  TagInv'
<1> DEFINE e == Event("exec", p, proc[p].ppid, proc[p].start, match, FALSE)
<1>1. Typed /\ Typed'
  BY ExecTyped, Zenon DEF TagInv, Base
<1>2. p \in Alive /\ proc[p] \in ProcType /\ proc[p].start \in 1..clock /\ clock \in Nat \ {0}
  BY Living, Zenon DEF Exec
<1>3. e \in EventType
  BY <1>2, Zenon DEF Event, EventType, ProcType
<1>4. e.type = "exec" /\ e.pid = p /\ e.start = proc[p].start /\ e.match = match
  BY Zenon DEF Event
<1>5. /\ lost => lost'
      /\ ring' = ring \/ ring' = Append(ring, e)
      /\ ~lost' => ring' = Append(ring, e) /\ ~lost
  BY <1>1, EmitSends, Zenon DEF Exec
<1> HIDE DEF e
<1>6. /\ proc'[p].start = proc[p].start /\ proc'[p].ppid = proc[p].ppid
      /\ proc'[p].cgroup = proc[p].cgroup
      /\ proc'[p].agent = IF match THEN "seen"
                          ELSE IF proc[p].cgroup /\ proc[p].agent = "none" THEN "claimed"
                          ELSE proc[p].agent
      /\ \A q \in Pid : q # p => proc'[q] = proc[q]
  BY <1>1, <1>2, Zenon DEF Exec, Typed, ProcType
<1>7. UNCHANGED <<tagged, table, engine, scan, listing>> /\ clock' = clock + 1
  BY Zenon DEF Exec
<1>8. Older' = Older
  BY <1>6, Zenon DEF Older
<1>9. \A q \in Pid : ~ExitOf(e, q)
  BY <1>4, Zenon DEF ExitOf
<1>10. ASSUME NEW q \in Pid
       PROVE  proc'[q].start = proc[q].start /\ proc'[q].ppid = proc[q].ppid
  BY <1>6, Zenon
<1>11. Sends(e) \/ lost'
  <2>1. ASSUME NEW q \in Pid, proc'[q].start # 0, proc'[q].agent = "seen"
        PROVE  \/ Tags(e) /\ e.pid = q
               \/ proc[q].start # 0 /\ proc[q].agent = "seen" /\ ~ExitOf(e, q)
    BY <1>4, <1>6, <1>9, <2>1, Zenon DEF Tags
  <2>2. ASSUME ~lost', NEW q \in Pid, proc'[q].start # 0, proc'[q].agent = "claimed"
        PROVE  /\ proc'[q].cgroup
               /\ \/ ExecOf(e, q)
                  \/ proc[q].start # 0 /\ proc[q].agent = "claimed" /\ ~ExitOf(e, q)
    <3>1. proc[q].start # 0 /\ proc[q].agent = "claimed" => proc[q].cgroup
      BY <1>5, <2>2, ClaimedInCgroup, Zenon
    <3>2. CASE q = p
      BY <1>4, <1>6, <1>10, <2>2, <3>1, <3>2, Zenon DEF ExecOf
    <3>3. CASE q # p
      BY <1>6, <1>9, <2>2, <3>1, <3>3, Zenon
    <3> QED
      BY <3>2, <3>3, Zenon
  <2> QED
    BY <1>4, <1>5, <1>7, <1>10, <2>1, <2>2, Zenon DEF Sends
<1>12. ASSUME NEW q \in Pid
       PROVE  /\ proc'[q].start <= clock'
              /\ proc'[q].agent = "found" => proc[q].agent = "found"
  <2>1. proc[q].start <= clock /\ proc[q].start \in Nat
    <3>1. proc[q] \in ProcType
      BY <1>1, Zenon DEF Typed
    <3> QED
      BY <3>1, TagAssumption, SMTT(30) DEF ProcType, TagInv, Base, Stamps
  <2> QED
    BY <1>2, <1>6, <1>7, <2>1
<1>13. clock <= clock' /\ e.start <= clock' /\ e.start # 0
  BY <1>2, <1>4, <1>7, SMTT(30)
<1>14. SystemCall(e)
  BY <1>4, <1>5, <1>7, <1>8, <1>9, <1>10, <1>11, <1>12, <1>13, Zenon DEF SystemCall
<1> QED
  BY <1>1, <1>3, <1>14, SystemCallKeeps, Zenon

LEMMA ExitKeeps ==
  ASSUME TagInv, NEW p \in Pid, Exit(p)
  PROVE  TagInv'
<1> DEFINE e == Event("exit", p, InitPid, proc[p].start, FALSE, FALSE)
<1>1. Typed /\ Typed'
  BY ExitTyped, Zenon DEF TagInv, Base
<1>2. p \in Alive /\ proc[p] \in ProcType /\ proc[p].start \in 1..clock /\ clock \in Nat \ {0}
  BY Living, Zenon DEF Exit
<1>3. e \in EventType
  BY <1>2, Zenon DEF Event, EventType, ProcType, AnyPid
<1>4. e.type = "exit" /\ e.pid = p /\ e.start = proc[p].start
  BY Zenon DEF Event
<1>5. /\ lost => lost'
      /\ ring' = ring \/ ring' = Append(ring, e)
      /\ ~lost' => ring' = Append(ring, e) /\ ~lost
  BY <1>1, EmitSends, Zenon DEF Exit
<1> HIDE DEF e
<1>6. proc'[p].start = 0 /\ proc'[p].agent = "none"
  BY Zenon DEF Exit, Dead
<1>7. ASSUME NEW q \in Pid, q # p
      PROVE  /\ proc'[q].start = proc[q].start /\ proc'[q].agent = proc[q].agent
             /\ proc'[q].cgroup = proc[q].cgroup
             /\ proc'[q].ppid = IF proc[q].ppid = p THEN InitPid ELSE proc[q].ppid
  <2>1. proc[q] \in ProcType
    BY <1>1, Zenon DEF Typed
  <2>2. proc'[q] = IF proc[q].ppid = p THEN [proc[q] EXCEPT !.ppid = InitPid] ELSE proc[q]
    BY <1>7, Zenon DEF Exit
  <2> QED
    BY <2>1, <2>2, Zenon DEF ProcType
<1>8. UNCHANGED <<clock, tagged, table, engine, scan, listing>>
  BY Zenon DEF Exit
<1>9. \A q \in Pid : ExitOf(e, q) <=> q = p
  BY <1>4, Zenon DEF ExitOf
<1>10. Sends(e) \/ lost'
  <2>1. ASSUME ~lost', NEW q \in Pid
        PROVE  proc[q].start # 0 /\ proc[q].agent = "claimed" => proc[q].cgroup
    BY <1>5, <2>1, ClaimedInCgroup, Zenon
  <2> QED
    BY <1>4, <1>5, <1>6, <1>7, <1>8, <1>9, <2>1, Zenon DEF Sends, ExecOf
<1>11. ASSUME NEW q \in Pid
       PROVE  /\ proc'[q].start <= clock'
              /\ proc'[q].start = proc[q].start \/ proc'[q].start = 0
              /\ proc'[q].agent = "found" => proc[q].agent = "found" /\ proc'[q].start = proc[q].start
              /\ q \in Older' => ~ExitOf(e, q) /\ proc'[q].ppid \in {proc[q].ppid, InitPid}
              /\ q \in Older' /\ proc[q].ppid \in Older /\ proc'[q].ppid = proc[q].ppid
                   => proc'[q].ppid \in Older'
  <2>1. CASE q = p
    BY <1>2, <1>6, <1>8, <2>1, SMTT(30) DEF Older
  <2>2. CASE q # p
    <3>1. proc'[q].start <= clock'
      BY <1>7, <1>8, <2>2, Zenon DEF TagInv, Base, Stamps
    <3>2. Older' = Older \ {p}
      BY <1>6, <1>7 DEF Older
    <3>3. proc[q].ppid \in Older /\ proc'[q].ppid = proc[q].ppid => proc[q].ppid # p
      BY <1>7, <2>2, TagAssumption, Zenon DEF Older
    <3> QED
      BY <1>7, <1>9, <2>2, <3>1, <3>2, <3>3, Zenon
  <2> QED
    BY <2>1, <2>2, Zenon
<1>12. clock <= clock' /\ e.start <= clock' /\ e.start # 0
  BY <1>2, <1>4, <1>8, SMTT(30)
<1>13. SystemCall(e)
  BY <1>4, <1>5, <1>6, <1>8, <1>10, <1>11, <1>12, Zenon DEF SystemCall
<1> QED
  BY <1>1, <1>3, <1>13, SystemCallKeeps, Zenon

LEMMA ActKeeps ==
  ASSUME TagInv, NEW p \in Pid, Act(p)
  PROVE  TagInv'
<1> DEFINE e == Event("action", p, proc[p].ppid, proc[p].start, FALSE, FALSE)
<1>1. Typed /\ Typed'
  BY ActTyped, Zenon DEF TagInv, Base
<1>2. p \in Alive /\ proc[p] \in ProcType /\ proc[p].start \in 1..clock /\ clock \in Nat \ {0}
  BY Living, Zenon DEF Act
<1>3. e \in EventType
  BY <1>2, Zenon DEF Event, EventType, ProcType
<1>4. e.type = "action" /\ e.start = proc[p].start
  BY Zenon DEF Event
<1>5. /\ lost => lost'
      /\ ring' = ring \/ ring' = Append(ring, e)
      /\ ~lost' => ring' = Append(ring, e) /\ ~lost
  <2>1. CASE Room(tagged, p)
    BY <1>1, <2>1, EmitSends, Zenon DEF Act
  <2>2. CASE ~Room(tagged, p)
    BY <2>2, Zenon DEF Act
  <2> QED
    BY <2>1, <2>2, Zenon
<1> HIDE DEF e
<1>6. proc' = proc /\ UNCHANGED <<table, engine, scan, listing>> /\ clock' = clock + 1
  BY Zenon DEF Act
<1>7. tagged \subseteq tagged'
  BY Zenon DEF Act, Insert
<1>8. \A q \in Pid : ~ExitOf(e, q) /\ ~ExecOf(e, q)
  BY <1>4, Zenon DEF ExitOf, ExecOf
<1>9. Sends(e) \/ lost'
  <2>1. ASSUME ~lost', NEW q \in Pid
        PROVE  proc[q].start # 0 /\ proc[q].agent = "claimed" => proc[q].cgroup
    BY <1>5, <2>1, ClaimedInCgroup, Zenon
  <2> QED
    BY <1>4, <1>5, <1>6, <1>8, <2>1, Zenon DEF Sends
<1>10. Older' = Older
  BY <1>6, Zenon DEF Older
<1>11. \A q \in Pid : proc'[q].start <= clock'
  <2> SUFFICES ASSUME NEW q \in Pid PROVE proc[q].start <= clock + 1
    BY <1>6, Zenon
  <2>1. proc[q] \in ProcType
    BY <1>1, Zenon DEF Typed
  <2>2. proc[q].start <= clock /\ proc[q].start \in Nat
    BY <2>1, TagAssumption DEF ProcType, TagInv, Base, Stamps
  <2> QED
    BY <1>2, <2>2
<1>12. clock <= clock' /\ e.start <= clock'
  BY <1>2, <1>4, <1>6
<1>13. SystemCall(e)
  BY <1>4, <1>5, <1>6, <1>7, <1>8, <1>9, <1>10, <1>11, <1>12, Zenon DEF SystemCall
<1> QED
  BY <1>1, <1>3, <1>13, SystemCallKeeps, Zenon

LEMMA MoveKeeps ==
  ASSUME TagInv, NEW p \in Pid, Move(p)
  PROVE  TagInv'
<1>1. Typed /\ Typed'
  BY MoveTyped, Zenon DEF TagInv, Base
<1>2. UNCHANGED <<tagged, ring, lost, table, engine, scan, listing>> /\ clock' = clock + 1
  BY Zenon DEF Move
<1>3. /\ proc'[p].start = proc[p].start /\ proc'[p].ppid = proc[p].ppid
      /\ proc'[p].agent = IF proc[p].agent = "claimed" THEN "none" ELSE proc[p].agent
      /\ \A q \in Pid : q # p => proc'[q] = proc[q]
  <2>1. proc[p] \in ProcType
    BY <1>1, Zenon DEF Typed
  <2> QED
    BY <1>1, <2>1, Zenon DEF Move, Typed, ProcType
<1>4. \A q \in Pid :
        /\ proc'[q].start = proc[q].start /\ proc'[q].ppid = proc[q].ppid
        /\ proc'[q].agent = "seen" <=> proc[q].agent = "seen"
        /\ proc'[q].agent = "found" <=> proc[q].agent = "found"
        /\ proc'[q].agent = "claimed" => proc'[q] = proc[q]
  BY <1>3, Zenon
<1>5. Older' = Older
  BY <1>4, Zenon DEF Older
<1>6. Stamps'
  <2>1. \A k \in 1..Len(ring) : ring[k].pid \in Pid /\ ring[k].start \in Nat
    <3>1. \A k \in 1..Len(ring) : ring[k] \in EventType
      BY <1>1 DEF Typed
    <3> QED
      BY <3>1, TagAssumption DEF EventType
  <2>2. clock \in Nat /\ \A q \in Pid : proc[q].start \in Nat
    <3>1. \A q \in Pid : proc[q] \in ProcType
      BY <1>1, Zenon DEF Typed
    <3> QED
      BY <1>1, <3>1, TagAssumption DEF ProcType, Typed
  <2>3. \A k \in Nat : k <= clock => k <= clock'
    BY <1>2, <2>2
  <2> QED
    BY <1>2, <1>4, <2>1, <2>2, <2>3, Zenon DEF TagInv, Base, Stamps
<1>7. TaggedKnown' /\ BootFresh'
  BY <1>2, Zenon DEF TagInv, Base, TaggedKnown, BootFresh
<1>8. OlderRooted' /\ ListingCurrent' /\ FoundOlder'
  <2>1. Older \subseteq Pid
    BY Zenon DEF Older
  <2> QED
    BY <1>2, <1>4, <1>5, <2>1, Zenon DEF TagInv, Base, OlderRooted, ListingCurrent, FoundOlder
<1>9. ASSUME ~lost'
      PROVE  Tracked'
  <2>1. Tracked
    BY <1>2, <1>9, Zenon DEF TagInv
  <2>2. SeenBacked(ring', table', proc') /\ ClaimsQueued(ring', proc')
    BY <1>2, <1>4, <2>1, Zenon DEF Tracked, History, HistoryOf, SeenBacked, ClaimsQueued
  <2>3. ExecsCurrent(ring', proc') /\ EntryCurrent(ring', table', proc')
    BY <1>2, <1>4, <2>1, Zenon DEF Tracked, History, HistoryOf, ExecsCurrent, EntryCurrent
  <2>4. ForksBacked(ring', table') /\ ExecsAgree(ring') /\ EntryAgrees(ring', table')
    BY <1>2, <2>1, Zenon DEF Tracked, History, HistoryOf
  <2>5. History'
    BY <2>2, <2>3, <2>4, Zenon DEF History, HistoryOf
  <2>6. EntryTagged' /\ OlderRuns'
    BY <1>2, <1>5, <2>1, Zenon DEF Tracked, EntryTagged, OlderRuns
  <2>7. FoundTagged'
    <3>1. Below(Seeds', listing') = Below(Seeds, listing)
      BY <1>2, Zenon DEF Seeds, TaggedSnapshot
    <3> QED
      BY <1>2, <1>4, <2>1, <3>1, Zenon DEF Tracked, FoundTagged
  <2> QED
    BY <2>5, <2>6, <2>7, Zenon DEF Tracked
<1> QED
  BY <1>1, <1>6, <1>7, <1>8, <1>9, Zenon DEF TagInv, Base

-----------------------------------------------------------------------------
(* Handlers.                                                                  *)

\* What they have in common.
Handler ==
  /\ engine = "run" /\ UNCHANGED <<clock, engine, scan, listing>>
  /\ Len(ring) # 0 /\ Len(ring') = Len(ring) - 1
  /\ \A k \in 1..Len(ring') : Marked(ring[k + 1], ring'[k])
  /\ \A p \in Pid :
       /\ proc'[p].start = proc[p].start /\ proc'[p].ppid = proc[p].ppid
       /\ proc'[p].agent = "found" => proc[p].agent = "found"
  /\ lost => lost'
  /\ TaggedKnown'
  /\ ~lost' => /\ History' /\ EntryTagged'
               /\ \A p \in Older : ~table'[p].exited /\ (p \in tagged => p \in tagged')

LEMMA HandlerKeeps ==
  ASSUME TagInv, Typed', Handler
  PROVE  TagInv'
<1>1. UNCHANGED <<clock, engine, scan, listing>> /\ engine = "run"
  BY Zenon DEF Handler
<1>2. /\ Len(ring') = Len(ring) - 1 /\ Len(ring) \in Nat \ {0}
      /\ \A k \in 1..Len(ring') : Marked(ring[k + 1], ring'[k]) /\ k + 1 \in 1..Len(ring)
  <2>1. Len(ring') = Len(ring) - 1 /\ Len(ring) \in Nat \ {0}
    BY DEF TagInv, Base, Typed, Handler
  <2>2. \A k \in 1..Len(ring') : k + 1 \in 1..Len(ring)
    BY <2>1
  <2> QED
    BY <2>1, <2>2, Zenon DEF Handler
<1>3. \A p \in Pid : proc'[p].start = proc[p].start /\ proc'[p].ppid = proc[p].ppid
  BY Zenon DEF Handler
<1>4. Older' = Older /\ Older \subseteq Pid
  BY <1>3, Zenon DEF Older
<1>5. Stamps'
  <2>1. \A k \in 1..Len(ring) : ring[k].pid \in Pid
    <3>1. \A k \in 1..Len(ring) : ring[k] \in EventType
      BY DEF TagInv, Base, Typed
    <3> QED
      BY <3>1, Zenon DEF EventType
  <2>2. ASSUME NEW k \in 1..Len(ring')
        PROVE  /\ ring'[k].start <= clock'
               /\ ring'[k].type = "exec" => ring'[k].start # 0
               /\ ring'[k].type = "exit"
                    => ring'[k].start # 0 /\ ring'[k].start # proc'[ring'[k].pid].start
    <3> DEFINE e == ring[k + 1]
    <3>1. k + 1 \in 1..Len(ring) /\ Marked(e, ring'[k])
      BY <1>2, Zenon
    <3>2. /\ e.start <= clock /\ e.pid \in Pid
          /\ e.type = "exec" => e.start # 0
          /\ e.type = "exit" => e.start # 0 /\ e.start # proc[e.pid].start
      BY <2>1, <3>1, Zenon DEF TagInv, Base, Stamps
    <3> HIDE DEF e
    <3> QED
      BY <1>1, <1>3, <3>1, <3>2, Zenon DEF Marked
  <2>3. \A p \in Pid : proc'[p].start <= clock'
    BY <1>1, <1>3, Zenon DEF TagInv, Base, Stamps
  <2> QED
    BY <2>2, <2>3, Zenon DEF Stamps
<1>6. OlderRooted' /\ FoundOlder' /\ BootFresh' /\ ListingCurrent'
  BY <1>1, <1>3, <1>4, Zenon DEF TagInv, Base, OlderRooted, FoundOlder, BootFresh, ListingCurrent, Handler
<1>7. ASSUME ~lost'
      PROVE  Tracked'
  <2>1. Tracked /\ History' /\ EntryTagged'
    BY <1>7, Zenon DEF TagInv, Handler
  <2>2. OlderRuns'
    <3> SUFFICES ASSUME NEW p \in Older
                 PROVE  Stays(ring', p, 1, Len(ring')) /\ ~table'[p].exited
      BY <1>4, Zenon DEF OlderRuns
    <3>1. Stays(ring, p, 1, Len(ring))
      BY <2>1, Zenon DEF Tracked, OlderRuns
    <3>2. Stays(ring', p, 1, Len(ring'))
      BY <1>2, <3>1, Zenon DEF Stays, ExitOf, Marked
    <3> QED
      BY <1>7, <3>2, Zenon DEF Handler
  <2>3. FoundTagged'
    <3> SUFFICES ASSUME NEW p \in Pid, proc'[p].agent = "found"
                 PROVE  p \in tagged'
      BY <1>1, Zenon DEF FoundTagged
    <3>1. proc[p].agent = "found" /\ p \in Older
      BY Zenon DEF TagInv, Base, FoundOlder, Handler
    <3>2. p \in tagged
      BY <1>1, <2>1, <3>1, Zenon DEF Tracked, FoundTagged
    <3> QED
      BY <1>7, <3>1, <3>2, Zenon DEF Handler
  <2> QED
    BY <2>1, <2>2, <2>3, Zenon DEF Tracked
<1> QED
  BY <1>5, <1>6, <1>7, Zenon DEF TagInv, Base, Handler

\* One that takes the first event from the queue and enrols no process by its cgroup.
PlainHandler ==
  /\ engine = "run" /\ ring # << >> /\ ring' = Tail(ring)
  /\ UNCHANGED <<kernel, engine, scan, listing>>
  /\ lost => lost'
  /\ TaggedKnown'
  /\ ~lost' => /\ Handles(ring, ring', table, table') /\ Unclaimed(ring, proc) /\ EntryTagged'
               /\ \A p \in Older : ~table'[p].exited /\ (p \in tagged => p \in tagged')

LEMMA PlainHandlerKeeps ==
  ASSUME TagInv, Typed', PlainHandler
  PROVE  TagInv'
<1>1. proc' = proc /\ UNCHANGED <<clock, engine, scan, listing>> /\ engine = "run"
  BY Zenon DEF PlainHandler, kernel
<1>2. /\ Len(ring) # 0 /\ Len(ring') = Len(ring) - 1
      /\ \A k \in 1..Len(ring') : ring'[k] = ring[k + 1]
  BY DEF TagInv, Base, Typed, PlainHandler
<1>3. \A k \in 1..Len(ring') : Marked(ring[k + 1], ring'[k])
  BY <1>2, Zenon DEF Marked
<1>4. ASSUME ~lost'
      PROVE  History'
  <2>1. HistoryOf(ring, table, proc) /\ Handles(ring, ring', table, table') /\ Unclaimed(ring, proc)
    BY <1>4, Zenon DEF TagInv, Tracked, History, PlainHandler
  <2>2. ring \in Seq(EventType)
    BY Zenon DEF TagInv, Base, Typed
  <2>3. HistoryOf(ring', table', proc)
    BY <2>1, <2>2, HandlesHistory, Zenon
  <2> QED
    BY <1>1, <2>3, Zenon DEF History
<1>5. Handler
  BY <1>1, <1>2, <1>3, <1>4, Zenon DEF Handler, PlainHandler
<1> QED
  BY <1>5, HandlerKeeps, Zenon

LEMMA HandleForkKeeps ==
  ASSUME TagInv, HandleFork
  PROVE  TagInv'
<1> DEFINE e == Head(ring)
           parent == ParentEntry(table, e.ppid)
           t1 == Insert(tagged, e.pid)
           t2 == Insert(t1, parent.root)
           t3 == Insert(t2, e.ppid)
<1>1. Typed /\ Typed'
  BY HandleForkTyped, Zenon DEF TagInv, Base
<1>2. e \in EventType /\ e = ring[1] /\ Len(ring) \in Nat \ {0} /\ e.type = "fork"
  BY <1>1, PendingTyped, Zenon DEF HandleFork, Pending
<1>3. e.pid \in Pid /\ e.type = "fork"
  BY <1>2, Zenon DEF EventType
<1>4. parent \in EntryType
  BY <1>1, ParentEntryTyped, Zenon DEF Typed
<1>5. /\ table' = OnFork(table, e.pid, e.ppid)
      /\ tagged' = IF parent.tagged THEN t3 ELSE tagged
      /\ lost' = (lost \/ (parent.tagged /\ ~ {e.pid, parent.root, e.ppid} \subseteq t3))
      /\ ring' = Tail(ring) /\ engine = "run" /\ ring # << >>
      /\ UNCHANGED <<kernel, engine, scan, listing>>
  BY Zenon DEF HandleFork, Pending
<1>6. tagged \subseteq tagged'
  <2>1. tagged \subseteq t1 /\ t1 \subseteq t2 /\ t2 \subseteq t3
    BY InsertHas, Zenon
  <2> QED
    BY <1>5, <2>1, Zenon
<1>7. lost => lost'
  BY <1>5, Zenon
<1>8. ~lost' /\ parent.tagged => e.pid \in tagged'
  BY <1>5, Zenon
<1> HIDE DEF t3, parent, e
<1>9. \A q \in Pid : IF q = e.pid /\ parent.tagged
                     THEN table'[q].tagged /\ table'[q].known /\ table'[q].start = 0 /\ ~table'[q].exited
                     ELSE table'[q] = table[q]
  BY <1>1, <1>3, <1>4, <1>5, Zenon DEF OnFork, Inherit, NoProc, Typed, parent, EntryType
<1>10. TaggedKnown'
  BY <1>9, Zenon DEF TagInv, Base, TaggedKnown
<1>11. ASSUME ~lost'
       PROVE  /\ Handles(ring, ring', table, table') /\ Unclaimed(ring, proc) /\ EntryTagged'
              /\ \A p \in Older : ~table'[p].exited /\ (p \in tagged => p \in tagged')
  <2>1. Tracked
    BY <1>7, <1>11, Zenon DEF TagInv
  <2>2. ASSUME e.seen
        PROVE  parent.tagged
    <3>1. e.ppid \in Pid /\ Backed(ring, table, e.ppid, 1)
      BY <1>2, <1>3, <2>1, <2>2 DEF Tracked, History, HistoryOf, ForksBacked
    <3>2. Has(table, e.ppid)
      BY <3>1 DEF Backed
    <3> QED
      BY <3>1, <3>2, Zenon DEF Has, ParentEntry, parent
  <2>3. ASSUME NEW p \in Pid
        PROVE  /\ Has(table, p) => Has(table', p)
               /\ Tags(e) /\ e.pid = p => Has(table', p)
               /\ Dated(table'[p]) => Dated(table[p]) /\ table'[p].start = table[p].start
    BY <1>3, <1>9, <2>2, Zenon DEF Has, Tags, Dated
  <2>4. Handles(ring, ring', table, table') /\ Unclaimed(ring, proc)
    BY <1>2, <1>3, <1>5, <2>3, Zenon DEF Handles, Unclaimed, kernel, ExitOf, ExecOf
  <2>5. EntryTagged'
    BY <1>6, <1>8, <1>9, <1>11, <2>1, Zenon DEF Tracked, EntryTagged, Has
  <2>6. \A p \in Older : ~table'[p].exited /\ (p \in tagged => p \in tagged')
    BY <1>6, <1>9, <2>1, Zenon DEF Tracked, OlderRuns, Older
  <2> QED
    BY <2>4, <2>5, <2>6, Zenon
<1>12. PlainHandler
  BY <1>5, <1>7, <1>10, <1>11, Zenon DEF PlainHandler
<1> QED
  BY <1>1, <1>12, PlainHandlerKeeps, Zenon

LEMMA OnExecEntry ==
  ASSUME NEW t \in [Pid -> EntryType], NEW p \in Pid, NEW s \in 0..MaxTime, NEW q,
         NEW u, u = OnExec(t, p, s, q)
  PROVE  /\ u[p].known /\ u[p].start = s /\ ~u[p].exited
         /\ t[p].tagged /\ t[p].known /\ (t[p].start = 0 \/ s = 0 \/ t[p].start = s)
              => u[p].tagged /\ u[p].root = t[p].root
         /\ \A x \in Pid : x # p => u[x] = t[x]
<1> DEFINE kept == t[p].known /\ ~(t[p].start # 0 /\ s # 0 /\ t[p].start # s)
           entry == [(IF kept THEN t[p] ELSE [NoProc EXCEPT !.known = TRUE])
                      EXCEPT !.start = s, !.exited = FALSE]
           from == IF kept THEN t[p] ELSE [NoProc EXCEPT !.known = TRUE]
<1>1. from \in EntryType /\ from.known /\ (kept => from = t[p])
  <2>1. [NoProc EXCEPT !.known = TRUE].known
    BY Zenon DEF NoProc
  <2> QED
    BY <2>1, FreshTyped, Zenon
<1>2. entry = [from EXCEPT !.start = s, !.exited = FALSE]
  BY Zenon
<1>3. u = [t EXCEPT ![p] = IF entry.tagged THEN entry ELSE Inherit(entry, ParentEntry(t, q))]
  BY Zenon DEF OnExec
<1> HIDE DEF from, entry
<1>4. /\ entry \in EntryType /\ entry.known /\ entry.start = s /\ ~entry.exited
      /\ entry.tagged = from.tagged /\ entry.root = from.root
  BY <1>1, <1>2, Zenon DEF EntryType
<1>5. LET v == Inherit(entry, ParentEntry(t, q)) IN v.known /\ v.start = s /\ ~v.exited
  BY <1>4, Zenon DEF Inherit, EntryType
<1>6. u[p] = IF entry.tagged THEN entry ELSE Inherit(entry, ParentEntry(t, q))
  BY <1>3, Zenon
<1>7. u[p].known /\ u[p].start = s /\ ~u[p].exited
  BY <1>4, <1>5, <1>6, Zenon
<1>8. ASSUME t[p].tagged, t[p].known, t[p].start = 0 \/ s = 0 \/ t[p].start = s
      PROVE  u[p].tagged /\ u[p].root = t[p].root
  BY <1>1, <1>4, <1>6, <1>8, Zenon
<1> QED
  BY <1>3, <1>7, <1>8, Zenon

LEMMA TagEntry ==
  ASSUME NEW t \in [Pid -> EntryType], NEW p \in Pid, NEW u, u = Tag(t, p)
  PROVE  /\ u[p].tagged /\ u[p].root = p /\ u[p].known = t[p].known
         /\ u[p].start = t[p].start /\ u[p].exited = t[p].exited
         /\ \A x \in Pid : x # p => u[x] = t[x]
  BY Zenon DEF Tag, EntryType

LEMMA HandleExecKeeps ==
  ASSUME TagInv, HandleExec
  PROVE  TagInv'
<1> DEFINE e == Head(ring)
           upd == OnExec(table, e.pid, e.start, e.ppid)
           enrols == proc[e.pid].cgroup \/ e.match
           new == IF ~upd[e.pid].tagged /\ enrols THEN Tag(upd, e.pid) ELSE upd
<1>1. Typed /\ Typed'
  BY HandleExecTyped, Zenon DEF TagInv, Base
<1>2. e \in EventType /\ e = ring[1] /\ Len(ring) \in Nat \ {0} /\ e.type = "exec"
  BY <1>1, PendingTyped, Zenon DEF HandleExec, TryEnroll, Pending
<1>3. e.pid \in Pid /\ e.start \in 0..MaxTime /\ e.match \in BOOLEAN
  BY <1>2, Zenon DEF EventType
<1>4. /\ table' = new
      /\ tagged' = IF new[e.pid].tagged THEN Insert(tagged, e.pid) ELSE tagged
      /\ lost' = (lost \/ (new[e.pid].tagged /\ ~Room(tagged, e.pid)))
      /\ engine = "run" /\ ring # << >> /\ UNCHANGED <<clock, engine, scan, listing>>
      /\ IF Present(e.pid) /\ proc[e.pid].cgroup
         THEN proc' = See(e.pid, {}) /\ ring' = Tail(SeeForks(e.pid))
         ELSE proc' = proc /\ ring' = Tail(ring)
  BY Zenon DEF HandleExec, TryEnroll, Pending
<1>5. table \in [Pid -> EntryType] /\ upd \in [Pid -> EntryType]
  BY <1>1, <1>3, OnExecTyped, Zenon DEF Typed
<1> HIDE DEF e, upd, enrols
<1>6. /\ upd[e.pid].known /\ upd[e.pid].start = e.start /\ ~upd[e.pid].exited
      /\ table[e.pid].tagged /\ table[e.pid].known
           /\ (table[e.pid].start = 0 \/ e.start = 0 \/ table[e.pid].start = e.start)
           => upd[e.pid].tagged
      /\ \A q \in Pid : q # e.pid => upd[q] = table[q]
  BY <1>3, <1>5, OnExecEntry DEF upd
<1>7. /\ new[e.pid].known /\ new[e.pid].start = e.start /\ ~new[e.pid].exited
      /\ upd[e.pid].tagged \/ enrols => new[e.pid].tagged
      /\ \A q \in Pid : q # e.pid => new[q] = table[q]
  <2>1. CASE ~upd[e.pid].tagged /\ enrols
    BY <1>3, <1>5, <1>6, <2>1, TagEntry
  <2>2. CASE ~(~upd[e.pid].tagged /\ enrols)
    BY <1>3, <1>6, <2>2, Zenon
  <2> QED
    BY <2>1, <2>2, Zenon
<1> HIDE DEF new
<1>8. tagged \subseteq tagged' /\ (lost => lost') /\ (~lost' /\ new[e.pid].tagged => e.pid \in tagged')
  BY <1>4, InsertHas, Zenon
<1>9. TaggedKnown'
  BY <1>4, <1>7, Zenon DEF TagInv, Base, TaggedKnown
<1>10. ASSUME ~lost'
       PROVE  /\ \A p \in Pid : Has(table, p) => Has(table', p)
              /\ enrols => Has(table', e.pid)
              /\ EntryTagged'
              /\ \A p \in Older : ~table'[p].exited /\ (p \in tagged => p \in tagged')
  <2>1. Tracked
    BY <1>8, <1>10, Zenon DEF TagInv
  <2>2. ASSUME Has(table, e.pid)
        PROVE  upd[e.pid].tagged
    <3>1. table[e.pid].tagged /\ table[e.pid].known /\ ~table[e.pid].exited
      BY <1>3, <2>2, Zenon DEF Has, TagInv, Base, TaggedKnown
    <3>2. CASE table[e.pid].start = 0
      BY <1>6, <3>1, <3>2, Zenon
    <3>3. CASE table[e.pid].start # 0
      <4>1. Dated(table[e.pid]) /\ ExecOf(ring[1], e.pid) /\ 1 \in 1..Len(ring)
        BY <1>2, <3>1, <3>3 DEF Dated, ExecOf
      <4>2. Stays(ring, e.pid, 1, 1)
        BY <1>2 DEF Stays, ExitOf
      <4>3. e.start = table[e.pid].start
        BY <1>2, <1>3, <2>1, <4>1, <4>2, Zenon DEF Tracked, History, HistoryOf, EntryAgrees
      <4> QED
        BY <1>6, <3>1, <4>3, Zenon
    <3> QED
      BY <3>2, <3>3, Zenon
  <2>3. ASSUME NEW p \in Pid
        PROVE  (Has(table, p) => Has(table', p)) /\ (enrols /\ p = e.pid => Has(table', p))
    <3>1. CASE p = e.pid
      BY <1>4, <1>7, <2>2, <3>1, Zenon DEF Has
    <3>2. CASE p # e.pid
      BY <1>4, <1>7, <3>2, Zenon DEF Has
    <3> QED
      BY <3>1, <3>2, Zenon
  <2>4. EntryTagged'
    BY <1>4, <1>7, <1>8, <1>10, <2>1, Zenon DEF Tracked, EntryTagged, Has
  <2>5. \A p \in Older : ~table'[p].exited /\ (p \in tagged => p \in tagged')
    BY <1>4, <1>7, <1>8, <2>1, Zenon DEF Tracked, OlderRuns, Older
  <2> QED
    BY <1>3, <2>3, <2>4, <2>5, Zenon
<1>11. /\ \A p \in Pid : ~ExitOf(ring[1], p) /\ (ExecOf(ring[1], p) <=> p = e.pid)
       /\ Tags(ring[1]) => enrols
       /\ \A p \in Pid : Dated(table'[p]) =>
            \/ Dated(table[p]) /\ table'[p].start = table[p].start
            \/ ExecOf(ring[1], p) /\ table'[p].start = ring[1].start
  <2>1. \A p \in Pid : ~ExitOf(ring[1], p) /\ (ExecOf(ring[1], p) <=> p = e.pid)
    BY <1>2, Zenon DEF ExitOf, ExecOf
  <2>2. Tags(ring[1]) => enrols
    BY <1>2, Zenon DEF Tags, enrols
  <2> QED
    BY <1>2, <1>4, <1>7, <2>1, <2>2, Zenon
<1>12. CASE ~(Present(e.pid) /\ proc[e.pid].cgroup)
  <2>1. ring' = Tail(ring) /\ UNCHANGED kernel
    BY <1>4, <1>12, Zenon DEF kernel
  <2>2. ASSUME ~lost'
        PROVE  Handles(ring, ring', table, table') /\ Unclaimed(ring, proc)
    <3>1. Handles(ring, ring', table, table')
      BY <1>2, <1>4, <1>10, <1>11, <2>1, <2>2, Zenon DEF Handles
    <3>2. ASSUME Stays(ring, e.pid, 1, Len(ring)), proc[e.pid].start # 0
          PROVE  proc[e.pid].agent # "claimed"
      <4>1. Present(e.pid)
        BY <1>3, <3>2, Zenon DEF Present, Alive, Ends, Stays, ExitOf
      <4> QED
        BY <1>3, <1>8, <1>12, <2>2, <3>2, <4>1, ClaimedInCgroup, Zenon
    <3> QED
      BY <1>11, <3>1, <3>2, Zenon DEF Unclaimed
  <2>3. PlainHandler
    BY <1>4, <1>8, <1>9, <1>10, <2>1, <2>2, Zenon DEF PlainHandler
  <2> QED
    BY <1>1, <2>3, PlainHandlerKeeps, Zenon
<1>13. CASE Present(e.pid) /\ proc[e.pid].cgroup
  <2> DEFINE r2 == SeeForks(e.pid)
             pr2 == See(e.pid, {})
  <2>1. proc' = pr2 /\ ring' = Tail(r2) /\ enrols
    BY <1>4, <1>13, Zenon DEF enrols
  <2>2. /\ r2 \in Seq(EventType) /\ Len(r2) = Len(ring)
        /\ \A k \in 1..Len(ring) : Marked(ring[k], r2[k])
    BY <1>1, <1>3, SeeForksFacts, Zenon
  <2>3. \A p \in Pid : /\ pr2[p].start = proc[p].start /\ pr2[p].ppid = proc[p].ppid
                       /\ pr2[p].agent = "found" => proc[p].agent = "found"
                       /\ pr2[p].agent = "claimed" => p # e.pid
    <3>1. SeenFrom(pr2, e.pid, {})
      BY <1>1, <1>3, SeeFacts, Zenon
    <3> HIDE DEF pr2
    <3> QED
      BY <3>1, Zenon DEF SeenFrom
  <2> HIDE DEF r2, pr2
  <2>4. /\ Len(ring) # 0 /\ Len(ring') = Len(ring) - 1 /\ r2 # << >>
        /\ \A k \in 1..Len(ring') : ring'[k] = r2[k + 1] /\ k + 1 \in 1..Len(ring)
    BY <1>2, <2>1, <2>2
  <2>5. \A k \in 1..Len(ring') : Marked(ring[k + 1], ring'[k])
    BY <2>2, <2>4, Zenon
  <2>6. ASSUME ~lost'
        PROVE  History'
    <3>1. HistoryOf(ring, table, proc) /\ ring \in Seq(EventType)
      BY <1>1, <1>8, <2>6, Zenon DEF TagInv, Tracked, History, Typed
    <3>2. HistoryOf(ring, table', proc)
      BY <1>4, <1>10, <1>11, <2>6, <3>1, TableHistory, Zenon
    <3>3. HistoryOf(r2, table', pr2)
      BY <1>1, <1>3, <1>10, <1>13, <2>1, <2>6, <3>2, SeeHistory, Zenon DEF r2, pr2
    <3>4. 1 \in 1..Len(ring) /\ Marked(ring[1], r2[1])
      BY <1>2, <2>2
    <3>5. \A p \in Pid : ~ExitOf(r2[1], p) /\ (ExecOf(r2[1], p) <=> p = e.pid) /\ r2[1].pid = e.pid
      BY <1>2, <1>11, <3>4, Zenon DEF ExitOf, ExecOf, Marked
    <3>6. Handles(r2, ring', table', table')
      BY <1>10, <2>1, <2>4, <2>6, <3>5, Zenon DEF Handles
    <3>7. Unclaimed(r2, pr2)
      BY <2>3, <3>5, Zenon DEF Unclaimed
    <3>8. HistoryOf(ring', table', pr2)
      BY <2>2, <3>3, <3>6, <3>7, HandlesHistory, Zenon
    <3> QED
      BY <2>1, <3>8, Zenon DEF History
  <2>7. Handler
    BY <1>4, <1>8, <1>9, <1>10, <2>1, <2>3, <2>4, <2>5, <2>6, Zenon DEF Handler
  <2> QED
    BY <1>1, <2>7, HandlerKeeps, Zenon
<1> QED
  BY <1>12, <1>13, Zenon

LEMMA HandleExitKeeps ==
  ASSUME TagInv, HandleExit
  PROVE  TagInv'
<1> DEFINE e == Head(ring)
<1>1. Typed /\ Typed'
  BY HandleExitTyped, Zenon DEF TagInv, Base
<1>2. e \in EventType /\ e = ring[1] /\ Len(ring) \in Nat \ {0} /\ e.type = "exit"
  BY <1>1, PendingTyped, Zenon DEF HandleExit, Pending
<1>3. e.pid \in Pid
  BY <1>2, Zenon DEF EventType
<1>4. /\ table' = OnExit(table, e.pid)
      /\ tagged' = IF table[e.pid].tagged THEN tagged \ {e.pid} ELSE tagged
      /\ ring' = Tail(ring) /\ engine = "run" /\ ring # << >>
      /\ UNCHANGED <<kernel, lost, engine, scan, listing>>
  BY Zenon DEF HandleExit, Pending
<1> HIDE DEF e
<1>5. table[e.pid] \in EntryType
  BY <1>1, <1>3, Zenon DEF Typed
<1>6. /\ table'[e.pid].tagged = table[e.pid].tagged /\ table'[e.pid].known = table[e.pid].known
      /\ table'[e.pid].exited = (table[e.pid].exited \/ table[e.pid].known)
      /\ \A q \in Pid : q # e.pid => table'[q] = table[q]
  BY <1>1, <1>3, <1>4, <1>5, Zenon DEF OnExit, EntryType, Typed
<1>7. table[e.pid].tagged => table[e.pid].known
  BY <1>3, Zenon DEF TagInv, Base, TaggedKnown
<1>8. ~Has(table', e.pid) /\ ~Dated(table'[e.pid])
  BY <1>6, <1>7, Zenon DEF Has, Dated
<1>9. TaggedKnown'
  BY <1>6, <1>7, Zenon DEF TagInv, Base, TaggedKnown
<1>10. ASSUME ~lost'
       PROVE  /\ Handles(ring, ring', table, table') /\ Unclaimed(ring, proc) /\ EntryTagged'
              /\ \A p \in Older : ~table'[p].exited /\ (p \in tagged => p \in tagged')
  <2>1. Tracked
    BY <1>4, <1>10, Zenon DEF TagInv
  <2>2. \A p \in Pid : (ExitOf(ring[1], p) <=> p = e.pid) /\ ~ExecOf(ring[1], p) /\ ~Tags(ring[1])
    BY <1>2, Zenon DEF ExitOf, ExecOf, Tags
  <2>3. Handles(ring, ring', table, table') /\ Unclaimed(ring, proc)
    BY <1>4, <1>6, <1>8, <2>2, Zenon DEF Handles, Unclaimed, kernel, Has, Dated
  <2>4. EntryTagged'
    BY <1>4, <1>6, <1>8, <2>1, Zenon DEF Tracked, EntryTagged, Has
  <2>5. e.pid \notin Older
    <3>1. 1 \in 1..Len(ring) /\ ExitOf(ring[1], e.pid)
      BY <1>2, <1>3, <2>2
    <3> QED
      BY <2>1, <3>1, Zenon DEF Tracked, OlderRuns, Stays
  <2>6. \A p \in Older : ~table'[p].exited /\ (p \in tagged => p \in tagged')
    BY <1>4, <1>6, <2>1, <2>5, Zenon DEF Tracked, OlderRuns, Older
  <2> QED
    BY <2>3, <2>4, <2>6, Zenon
<1>11. PlainHandler
  BY <1>4, <1>9, <1>10, Zenon DEF PlainHandler
<1> QED
  BY <1>1, <1>11, PlainHandlerKeeps, Zenon

LEMMA HandleActionKeeps ==
  ASSUME TagInv, HandleAction
  PROVE  TagInv'
<1>1. Typed /\ Typed'
  BY HandleActionTyped, Zenon DEF TagInv, Base
<1>2. Head(ring) = ring[1] /\ ring[1].type = "action"
  BY <1>1, PendingTyped, Zenon DEF HandleAction, Pending
<1>3. /\ ring' = Tail(ring) /\ engine = "run" /\ ring # << >>
      /\ UNCHANGED <<kernel, table, engine, scan, listing>> /\ (lost => lost')
  BY Zenon DEF HandleAction, Pending
<1>4. tagged \subseteq tagged'
  BY InsertHas, Zenon DEF HandleAction
<1>5. TaggedKnown'
  BY <1>3, Zenon DEF TagInv, Base, TaggedKnown
<1>6. ASSUME ~lost'
      PROVE  /\ Handles(ring, ring', table, table') /\ Unclaimed(ring, proc) /\ EntryTagged'
             /\ \A p \in Older : ~table'[p].exited /\ (p \in tagged => p \in tagged')
  <2>1. Tracked
    BY <1>3, <1>6, Zenon DEF TagInv
  <2>2. \A p \in Pid : ~ExitOf(ring[1], p) /\ ~ExecOf(ring[1], p) /\ ~Tags(ring[1])
    BY <1>2, Zenon DEF ExitOf, ExecOf, Tags
  <2>3. Handles(ring, ring', table, table') /\ Unclaimed(ring, proc)
    BY <1>3, <2>2, Zenon DEF Handles, Unclaimed, kernel
  <2>4. EntryTagged'
    BY <1>3, <1>4, <2>1, Zenon DEF Tracked, EntryTagged
  <2>5. \A p \in Older : ~table'[p].exited /\ (p \in tagged => p \in tagged')
    BY <1>3, <1>4, <2>1, Zenon DEF Tracked, OlderRuns
  <2> QED
    BY <2>3, <2>4, <2>5, Zenon
<1>7. PlainHandler
  BY <1>3, <1>5, <1>6, Zenon DEF PlainHandler
<1> QED
  BY <1>1, <1>7, PlainHandlerKeeps, Zenon

-----------------------------------------------------------------------------
(* The bootstrap, the re-tagging and the pruning.                             *)

LEMMA BelowSeeds ==
  ASSUME NEW seeds \in SUBSET AnyPid, NEW parent
  PROVE  seeds \subseteq Below(seeds, parent)
  BY Zenon DEF Below, AnyPid

LEMMA BelowClosed ==
  ASSUME NEW seeds, NEW parent, NEW q \in DOMAIN parent, q \in AnyPid,
         parent[q] \in Below(seeds, parent)
  PROVE  q \in Below(seeds, parent)
  BY Zenon DEF Below, AnyPid

LEMMA BelowLeast ==
  ASSUME NEW seeds, NEW parent, NEW S \in SUBSET AnyPid, seeds \subseteq S,
         \A q \in DOMAIN parent : parent[q] \in S => q \in S
  PROVE  Below(seeds, parent) \subseteq S
  BY Zenon DEF Below, AnyPid

LEMMA BelowMore ==
  ASSUME NEW seeds, NEW more, seeds \subseteq more, NEW parent
  PROVE  Below(seeds, parent) \subseteq Below(more, parent)
  BY Zenon DEF Below, AnyPid

\* Steps that leave processes, queue and table alone.
Quiet ==
  /\ UNCHANGED <<proc, clock, ring, table>> /\ tagged \subseteq tagged' /\ (lost => lost')
  /\ BootFresh' /\ ListingCurrent' /\ (~lost' => FoundTagged')

LEMMA QuietKeeps ==
  ASSUME TagInv, Typed', Quiet
  PROVE  TagInv'
<1>1. UNCHANGED <<proc, clock, ring, table>>
  BY Zenon DEF Quiet
<1>2. Older' = Older /\ Alive' = Alive
  BY <1>1, Zenon DEF Older, Alive
<1>3. Stamps' /\ TaggedKnown' /\ OlderRooted' /\ FoundOlder'
  BY <1>1, <1>2, Zenon DEF TagInv, Base, Stamps, TaggedKnown, OlderRooted, FoundOlder
<1>4. ASSUME ~lost'
      PROVE  Tracked'
  <2>1. Tracked
    BY <1>4, Zenon DEF TagInv, Quiet
  <2>2. History'
    BY <1>1, <2>1, Zenon DEF Tracked, History
  <2>3. EntryTagged' /\ OlderRuns'
    BY <1>1, <1>2, <2>1, Zenon DEF Tracked, EntryTagged, OlderRuns, Quiet
  <2> QED
    BY <1>4, <2>2, <2>3, Zenon DEF Tracked, Quiet
<1> QED
  BY <1>3, <1>4, Zenon DEF TagInv, Base, Quiet

LEMMA BootListKeeps ==
  ASSUME TagInv, BootList
  PROVE  TagInv'
<1>1. Typed' /\ engine = "boot" /\ engine' = "boot"
  BY BootListTyped, Zenon DEF TagInv, Base, BootList
<1>2. UNCHANGED <<proc, clock, tagged, ring, lost, table>>
  BY Zenon DEF BootList, kernel
<1>3. BootFresh'
  BY <1>1, <1>2, Zenon DEF BootFresh, TagInv, Base
<1>4. ListingCurrent'
  BY <1>1, <1>2 DEF BootList, ListProcesses, ListingCurrent, Older, Alive
<1>5. ~lost' => FoundTagged'
  <2>1. ~lost' => FoundTagged
    BY <1>2, Zenon DEF TagInv, Tracked
  <2>2. engine # "run" /\ scan.pc = "idle"
    BY Zenon DEF BootList
  <2> QED
    BY <1>2, <2>1, <2>2, Zenon DEF FoundTagged
<1> QED
  BY <1>1, <1>2, <1>3, <1>4, <1>5, QuietKeeps, Zenon DEF Quiet

LEMMA BootPassDoneKeeps ==
  ASSUME TagInv, BootPassDone
  PROVE  TagInv'
<1>1. Typed' /\ Typed
  BY BootPassDoneTyped, Zenon DEF TagInv, Base
<1>2. UNCHANGED <<proc, clock, tagged, ring, lost, table, engine, listing>>
  BY Zenon DEF BootPassDone, kernel
<1>3. scan.pc = "visit" /\ engine = "boot" /\ DOMAIN listing \in SUBSET AnyPid
  BY <1>1, Zenon DEF BootPassDone, Typed, AnyPid
<1>4. \/ scan'.pc = "visit"
      \/ scan'.pc = "propagate" /\ scan'.todo = Below(Seeds, listing)
  <2>1. scan.pass < 3 => scan.pass + 1 \in 0..3
    BY <1>1 DEF Typed, ScanType
  <2> QED
    BY <1>3, <2>1, ScanTyped, BelowTyped DEF BootPassDone
<1>5. BootFresh'
  BY <1>2, Zenon DEF BootFresh, TagInv, Base
<1>6. ListingCurrent'
  BY <1>2, <1>3, Zenon DEF ListingCurrent, Older, TagInv, Base
<1>7. ~lost' => FoundTagged'
  <2>1. ~lost' => FoundTagged
    BY <1>2, Zenon DEF TagInv, Tracked
  <2>2. Below(Seeds', listing') = Below(Seeds, listing)
    BY <1>2, Zenon DEF Seeds, TaggedSnapshot
  <2> QED
    BY <1>2, <1>3, <1>4, <2>1, <2>2, Zenon DEF FoundTagged
<1> QED
  BY <1>1, <1>2, <1>5, <1>6, <1>7, QuietKeeps, Zenon DEF Quiet

LEMMA ResyncBeginKeeps ==
  ASSUME TagInv, ResyncBegin
  PROVE  TagInv'
<1>1. Typed' /\ engine' = "run" /\ UNCHANGED <<proc, clock, tagged, ring, lost, table, engine>>
  BY ResyncBeginTyped, Zenon DEF TagInv, Base, ResyncBegin, kernel
<1>2. BootFresh' /\ ListingCurrent'
  BY <1>1, Zenon DEF BootFresh, ListingCurrent
<1>3. ~lost' => FoundTagged'
  BY <1>1, Zenon DEF TagInv, Tracked, FoundTagged
<1> QED
  BY <1>1, <1>2, <1>3, QuietKeeps, Zenon DEF Quiet

LEMMA ResyncTrackedKeeps ==
  ASSUME TagInv, ResyncTracked
  PROVE  TagInv'
<1>1. Typed' /\ Typed
  BY ResyncTrackedTyped, Zenon DEF TagInv, Base
<1>2. engine = "run" /\ UNCHANGED <<proc, clock, ring, table, engine>>
  BY <1>1, Zenon DEF ResyncTracked, kernel, Typed
<1>3. tagged \subseteq tagged' /\ (lost => lost')
  BY <1>1, TagAllTyped, Zenon DEF ResyncTracked, Typed, ScanType
<1>4. BootFresh' /\ ListingCurrent'
  BY <1>2, Zenon DEF BootFresh, ListingCurrent
<1>5. ~lost' => FoundTagged'
  BY <1>2, <1>3, Zenon DEF TagInv, Tracked, FoundTagged
<1> QED
  BY <1>1, <1>2, <1>3, <1>4, <1>5, QuietKeeps, Zenon DEF Quiet

LEMMA PropagateKeeps ==
  ASSUME TagInv, Propagate
  PROVE  TagInv'
<1>1. Typed' /\ Typed
  BY PropagateTyped, Zenon DEF TagInv, Base
<1>2. engine' = "run" /\ scan.pc = "propagate" /\ UNCHANGED <<proc, clock, ring, table>>
  BY Zenon DEF Propagate, kernel
<1>3. tagged \subseteq tagged' /\ (lost => lost') /\ (~lost' => scan.todo \subseteq tagged')
  BY <1>1, TagAllTyped, Zenon DEF Propagate, Typed, ScanType
<1>4. BootFresh' /\ ListingCurrent'
  BY <1>2, Zenon DEF BootFresh, ListingCurrent
<1>5. ~lost' => FoundTagged'
  BY <1>2, <1>3, Zenon DEF TagInv, Tracked, FoundTagged
<1> QED
  BY <1>1, <1>2, <1>3, <1>4, <1>5, QuietKeeps, Zenon DEF Quiet

LEMMA PruneKeeps ==
  ASSUME TagInv, NEW p \in Pid, Prune(p)
  PROVE  TagInv'
<1>1. Typed /\ Typed'
  BY PruneTyped, Zenon DEF TagInv, Base
<1>2. UNCHANGED <<proc, clock, tagged, ring, lost, engine, scan, listing>> /\ engine = "run"
  BY Zenon DEF Prune, kernel
<1>3. /\ table' = [table EXCEPT ![p] = NoProc] /\ ~Has(table, p)
  BY Zenon DEF Prune, Has
<1>4. /\ ~table'[p].tagged /\ ~table'[p].known /\ ~table'[p].exited
      /\ \A q \in Pid : q # p => table'[q] = table[q]
  BY <1>1, <1>3, Zenon DEF NoProc, Typed
<1>5. \A q \in Pid : Has(table, q) <=> Has(table', q)
  BY <1>3, <1>4, Zenon DEF Has
<1>6. Older' = Older /\ Alive' = Alive
  BY <1>2, Zenon DEF Older, Alive
<1>7. Stamps' /\ OlderRooted' /\ FoundOlder' /\ ListingCurrent' /\ BootFresh'
  BY <1>2, <1>6, Zenon DEF TagInv, Base, Stamps, OlderRooted, FoundOlder, ListingCurrent, BootFresh
<1>8. TaggedKnown'
  BY <1>4, Zenon DEF TagInv, Base, TaggedKnown
<1>9. ASSUME ~lost'
      PROVE  Tracked'
  <2>1. Tracked
    BY <1>2, <1>9, Zenon DEF TagInv
  <2>2. History'
    <3>1. \A q \in Pid : Dated(table'[q]) => table'[q] = table[q]
      BY <1>4, Zenon DEF Dated
    <3>2. ring \in Seq(EventType) /\ HistoryOf(ring, table, proc)
      BY <1>1, <2>1, Zenon DEF Typed, Tracked, History
    <3>3. HistoryOf(ring, table', proc)
      BY <1>5, <3>1, <3>2, TableHistory, Zenon
    <3> QED
      BY <1>2, <3>3, Zenon DEF History
  <2>5. EntryTagged' /\ FoundTagged'
    BY <1>2, <1>5, <2>1, Zenon DEF Tracked, EntryTagged, FoundTagged
  <2>6. OlderRuns'
    BY <1>2, <1>4, <1>6, <2>1, Zenon DEF Tracked, OlderRuns, Older
  <2> QED
    BY <2>2, <2>5, <2>6, Zenon DEF Tracked
<1> QED
  BY <1>1, <1>7, <1>8, <1>9, Zenon DEF TagInv, Base

\* What the bootstrap finds below p is below p in its own listing.
LEMMA FoundBelow ==
  ASSUME TagInv, engine = "boot", scan.pc = "visit", NEW p \in Pid, NEW q \in Older,
         q \in Below({p}, [y \in Pid |-> proc[y].ppid]),
         NEW seeds \in SUBSET AnyPid, p \in seeds
  PROVE  q \in Below(seeds, listing)
<1> DEFINE W == Below(seeds, listing)
           parent == [y \in Pid |-> proc[y].ppid]
           S == {y \in Pid : y \notin Older \/ y \in W}
<1>1. S \in SUBSET AnyPid /\ q \in Pid
  BY Zenon DEF AnyPid, Older
<1>2. p \in W
  BY BelowSeeds, Zenon
<1>3. ASSUME NEW y \in Pid, proc[y].ppid \in S
      PROVE  y \in S
  <2>1. CASE y \in Older
    <3>1. proc[y].ppid \in Pid
      BY <1>3, Zenon
    <3>2. proc[y].ppid \in Older
      BY <2>1, <3>1, Zenon DEF TagInv, Base, OlderRooted
    <3>3. y \in DOMAIN listing /\ listing[y] = proc[y].ppid
      BY <2>1, <3>1, Zenon DEF TagInv, Base, ListingCurrent
    <3>4. listing[y] \in W
      BY <1>3, <3>2, <3>3, Zenon
    <3>5. y \in W
      BY <3>3, <3>4, BelowClosed, Zenon DEF AnyPid
    <3> QED
      BY <3>5, Zenon
  <2>2. CASE y \notin Older
    BY <2>2, Zenon
  <2> QED
    BY <2>1, <2>2, Zenon
<1> HIDE DEF W
<1>4. {p} \subseteq S /\ \A y \in DOMAIN parent : parent[y] \in S => y \in S
  BY <1>1, <1>2, <1>3, Zenon
<1> HIDE DEF S, parent
<1>5. Below({p}, parent) \subseteq S
  BY <1>1, <1>4, BelowLeast, Zenon
<1>6. q \in S
  BY <1>5, Zenon DEF parent
<1> QED
  BY <1>6, Zenon DEF S, W

LEMMA BootVisitKeeps ==
  ASSUME TagInv, NEW p \in Pid, BootVisit(p)
  PROVE  TagInv'
<1> DEFINE upd  == OnExec(table, p, 0, listing[p])
           enrols == proc[p].cgroup \/ proc[p].match
           new  == IF table[p].tagged \/ p \notin Alive THEN table
                   ELSE IF ~upd[p].tagged /\ enrols THEN Tag(upd, p) ELSE upd
<1>1. Typed /\ Typed' /\ engine = "boot" /\ scan.pc = "visit"
  BY BootVisitTyped, Zenon DEF TagInv, Base, BootVisit, TryEnroll, Typed
<1>2. /\ table' = new
      /\ tagged' = IF new[p].tagged THEN Insert(tagged, p) ELSE tagged
      /\ lost' = (lost \/ (new[p].tagged /\ ~Room(tagged, p)))
      /\ UNCHANGED <<clock, engine, listing>> /\ ComeBy(p)
  BY Zenon DEF BootVisit, TryEnroll
<1>3. scan'.pc = "visit"
  BY <1>1, Zenon DEF BootVisit, TryEnroll, Typed, ScanType
<1>4. table \in [Pid -> EntryType] /\ upd \in [Pid -> EntryType] /\ 0 \in 0..MaxTime
  BY <1>1, TagAssumption, OnExecTyped DEF Typed
<1> HIDE DEF upd, enrols
<1>5. /\ upd[p].known /\ upd[p].start = 0 /\ ~upd[p].exited
      /\ \A q \in Pid : q # p => upd[q] = table[q]
  BY <1>4, OnExecEntry DEF upd
<1>6. \A q \in Pid : ~table[q].exited /\ table[q].start = 0 /\ (table[q].tagged => table[q].known)
  BY <1>1, Zenon DEF TagInv, Base, BootFresh, TaggedKnown
<1>7. /\ new[p].start = 0 /\ ~new[p].exited /\ (new[p].tagged => new[p].known)
      /\ table[p].tagged => new[p] = table[p]
      /\ p \in Alive /\ enrols => new[p].tagged
      /\ \A q \in Pid : q # p => new[q] = table[q]
  <2>1. CASE table[p].tagged \/ p \notin Alive
    BY <1>6, <2>1, Zenon
  <2>2. CASE ~(table[p].tagged \/ p \notin Alive) /\ ~upd[p].tagged /\ enrols
    BY <1>4, <1>5, <2>2, TagEntry
  <2>3. CASE ~(table[p].tagged \/ p \notin Alive) /\ ~(~upd[p].tagged /\ enrols)
    BY <1>5, <2>3, Zenon
  <2> QED
    BY <2>1, <2>2, <2>3, Zenon
<1> HIDE DEF new
<1>8. tagged \subseteq tagged' /\ (lost => lost') /\ (~lost' /\ new[p].tagged => p \in tagged')
  BY <1>2, InsertHas, Zenon
<1>9. \A q \in Pid :
        /\ proc'[q].start = proc[q].start /\ proc'[q].ppid = proc[q].ppid
        /\ proc'[q].agent = "found" => proc[q].agent = "found" \/ (Comes(p) /\ q \in OlderBelow(p))
  <2>1. CASE Comes(p)
    <3>1. SeenFrom(See(p, OlderBelow(p)), p, OlderBelow(p))
      BY <1>1, SeeFacts, Zenon
    <3>2. proc' = See(p, OlderBelow(p))
      BY <1>2, <2>1, ComeByFacts, Zenon
    <3>3. SeenFrom(proc', p, OlderBelow(p))
      BY <3>1, <3>2, Zenon
    <3> QED
      BY <2>1, <3>3, Zenon DEF SeenFrom
  <2>2. CASE ~Comes(p)
    BY <1>2, <2>2, ComeByFacts, Zenon
  <2> QED
    BY <2>1, <2>2, Zenon
<1>10. Older' = Older /\ Alive' = Alive
  BY <1>9, Zenon DEF Older, Alive
<1>11. Older \subseteq Alive /\ Older \subseteq Pid
  BY DEF Older, Alive
<1>12. /\ \A q \in Pid : ~table'[q].exited /\ table'[q].start = 0 /\ (table'[q].tagged => table'[q].known)
       /\ \A q \in Pid : table[q].tagged => table'[q] = table[q]
  BY <1>2, <1>6, <1>7, Zenon
<1>13. /\ Len(ring') = Len(ring) /\ Len(ring) \in Nat
       /\ \A k \in 1..Len(ring) : Marked(ring[k], ring'[k])
  <2>1. Len(ring') = Len(ring) /\ Len(ring) \in Nat
    BY <1>1, <1>2, ComeByTyped, SeeForksFacts, Zenon
  <2>2. CASE Comes(p)
    BY <1>1, <1>2, <2>1, <2>2, ComeByFacts, SeeForksFacts, Zenon
  <2>3. CASE ~Comes(p)
    BY <1>1, <1>2, <2>1, <2>3, ComeByFacts, Zenon DEF Marked
  <2> QED
    BY <2>2, <2>3, Zenon
<1>14. Stamps'
  <2>1. \A k \in 1..Len(ring) : ring[k].pid \in Pid
    <3>1. \A k \in 1..Len(ring) : ring[k] \in EventType
      BY <1>1 DEF Typed
    <3> QED
      BY <3>1, Zenon DEF EventType
  <2>2. ASSUME NEW k \in 1..Len(ring')
        PROVE  /\ ring'[k].start <= clock'
               /\ ring'[k].type = "exec" => ring'[k].start # 0
               /\ ring'[k].type = "exit" => ring'[k].start # 0 /\ ring'[k].start # proc'[ring'[k].pid].start
    <3> DEFINE e == ring[k]
    <3>1. k \in 1..Len(ring) /\ e.pid \in Pid /\ Marked(e, ring'[k])
      BY <1>13, <2>1, <2>2, Zenon
    <3>2. /\ e.start <= clock
          /\ e.type = "exec" => e.start # 0
          /\ e.type = "exit" => e.start # 0 /\ e.start # proc[e.pid].start
      BY <3>1, Zenon DEF TagInv, Base, Stamps
    <3> HIDE DEF e
    <3> QED
      BY <1>2, <1>9, <3>1, <3>2, Zenon DEF Marked
  <2>3. \A q \in Pid : proc'[q].start <= clock'
    BY <1>2, <1>9, Zenon DEF TagInv, Base, Stamps
  <2> QED
    BY <2>2, <2>3, Zenon DEF Stamps
<1>15. TaggedKnown' /\ BootFresh'
  BY <1>12, Zenon DEF TaggedKnown, BootFresh
<1>16. OlderRooted' /\ ListingCurrent'
  BY <1>1, <1>2, <1>3, <1>9, <1>10, <1>11, Zenon DEF TagInv, Base, OlderRooted, ListingCurrent
<1>17. FoundOlder'
  <2> SUFFICES ASSUME NEW q \in Pid, proc'[q].agent = "found"
               PROVE  q \in Older
    BY <1>10, Zenon DEF FoundOlder
  <2> QED
    BY <1>9, Zenon DEF TagInv, Base, FoundOlder, OlderBelow
<1>18. ASSUME ~lost'
       PROVE  Tracked'
  <2>1. Tracked
    BY <1>8, <1>18, Zenon DEF TagInv
  <2>2. \A q \in Pid : Has(table, q) => Has(table', q)
    BY <1>12, Zenon DEF Has
  <2>3. Comes(p) => Has(table', p) /\ Present(p)
    <3>1. Comes(p) => p \in Alive /\ Present(p) /\ new[p].tagged
      BY <1>2, <1>7, Zenon DEF Comes, Present, enrols
    <3> QED
      BY <1>2, <1>12, <3>1, Zenon DEF Has
  <2>4. HistoryOf(ring, table', proc)
    <3>1. HistoryOf(ring, table, proc) /\ ring \in Seq(EventType)
      BY <1>1, <2>1, Zenon DEF Tracked, History, Typed
    <3>2. \A q \in Pid : ~Dated(table'[q])
      BY <1>12, Zenon DEF Dated
    <3> QED
      BY <2>2, <3>1, <3>2, TableHistory, Zenon
  <2>5. History'
    <3>1. CASE Comes(p)
      <4>1. HistoryOf(SeeForks(p), table', See(p, OlderBelow(p)))
        BY <1>1, <2>3, <2>4, <3>1, SeeHistory, Zenon
      <4> QED
        BY <1>2, <3>1, <4>1, ComeByFacts, Zenon DEF History
    <3>2. CASE ~Comes(p)
      BY <1>2, <2>4, <3>2, ComeByFacts, Zenon DEF History
    <3> QED
      BY <3>1, <3>2, Zenon
  <2>6. EntryTagged'
    <3> SUFFICES ASSUME NEW q \in Pid, Has(table', q) PROVE q \in tagged'
      BY Zenon DEF EntryTagged
    <3>1. CASE q = p
      BY <1>2, <1>8, <1>18, <3>1, Zenon DEF Has
    <3>2. CASE q # p
      BY <1>2, <1>7, <1>8, <2>1, <3>2, Zenon DEF Has, Tracked, EntryTagged
    <3> QED
      BY <3>1, <3>2, Zenon
  <2>7. OlderRuns'
    <3> SUFFICES ASSUME NEW q \in Older PROVE Stays(ring', q, 1, Len(ring))
      BY <1>10, <1>11, <1>12, <1>13, Zenon DEF OlderRuns
    <3>1. Stays(ring, q, 1, Len(ring)) /\ q \in Pid
      BY <1>11, <2>1, Zenon DEF Tracked, OlderRuns
    <3>2. \A k \in 1..Len(ring) : ~ExitOf(ring'[k], q)
      BY <1>13, <3>1, Zenon DEF Stays, ExitOf, Marked
    <3> QED
      BY <3>2, Zenon DEF Stays
  <2>8. FoundTagged'
    <3>1. Seeds' \in SUBSET AnyPid /\ Seeds \subseteq Seeds'
      <4>1. Seeds' \in SUBSET AnyPid
        <5>1. \A q \in Pid : table'[q].root \in AnyPid
          BY <1>1, Zenon DEF Typed, EntryType
        <5> QED
          BY <5>1, Zenon DEF Seeds, TaggedSnapshot, AnyPid
      <4>2. \A q \in Pid : q \in TaggedSnapshot => q \in TaggedSnapshot' /\ table'[q].root = table[q].root
        BY <1>12, Zenon DEF TaggedSnapshot
      <4>3. TaggedSnapshot \subseteq Pid
        BY Zenon DEF TaggedSnapshot
      <4> QED
        BY <4>1, <4>2, <4>3, Zenon DEF Seeds
    <3> SUFFICES ASSUME NEW q \in Pid, proc'[q].agent = "found"
                 PROVE  q \in Below(Seeds', listing)
      BY <1>1, <1>2, <1>3, Zenon DEF FoundTagged
    <3>2. CASE proc[q].agent = "found"
      <4>1. q \in Below(Seeds, listing)
        BY <1>1, <2>1, <3>2, Zenon DEF Tracked, FoundTagged
      <4> QED
        BY <3>1, <4>1, BelowMore, Zenon
    <3>3. CASE Comes(p) /\ q \in OlderBelow(p)
      <4>1. p \in Seeds'
        BY <2>3, <3>3, Zenon DEF Seeds, TaggedSnapshot, Has
      <4>2. q \in Older /\ q \in Below({p}, [y \in Pid |-> proc[y].ppid])
        BY <3>3, Zenon DEF OlderBelow
      <4> QED
        BY <1>1, <3>1, <4>1, <4>2, FoundBelow, Zenon
    <3> QED
      BY <1>9, <3>2, <3>3, Zenon
  <2> QED
    BY <2>5, <2>6, <2>7, <2>8, Zenon DEF Tracked
<1> QED
  BY <1>1, <1>14, <1>15, <1>16, <1>17, <1>18, Zenon DEF TagInv, Base

LEMMA InitTags ==
  ASSUME Init
  PROVE  TagInv
<1>1. Typed
  BY InitTyped, Zenon
<1>2. /\ clock = 1 /\ tagged = {} /\ ring = << >> /\ engine = "boot" /\ scan.pc = "idle"
      /\ table = [p \in Pid |-> NoProc] /\ Len(ring) = 0
  BY Zenon DEF Init, Scan
<1>3. ASSUME NEW p \in Pid
      PROVE  proc[p].start \in {0, 1} /\ proc[p].agent = "none"
  <2>1. proc[p] \in {Dead} \cup
          [start : {1}, ppid : Running \cup {InitPid}, match : BOOLEAN, cgroup : BOOLEAN, agent : {"none"}]
    BY Zenon DEF Init
  <2> QED
    BY <2>1 DEF Dead
<1>4. Alive = Older
  BY <1>3 DEF Alive, Older
<1>5. Stamps
  BY <1>2, <1>3 DEF Stamps
<1>6. \A p \in Pid : ~table[p].tagged /\ ~table[p].exited /\ table[p].start = 0 /\ ~table[p].known
  BY <1>2, Zenon DEF NoProc
<1>7. OlderRooted
  BY <1>4, TagAssumption, Zenon DEF Init, OlderRooted
<1>8. TaggedKnown /\ BootFresh /\ ListingCurrent /\ FoundOlder
  BY <1>2, <1>3, <1>6, Zenon DEF TaggedKnown, BootFresh, ListingCurrent, FoundOlder
<1>9. History
  BY <1>2, <1>3, <1>6 DEF History, HistoryOf, ForksBacked, SeenBacked, ClaimsQueued, ExecsAgree,
     ExecsCurrent, EntryAgrees, EntryCurrent, Dated
<1>10. EntryTagged /\ FoundTagged
  BY <1>3, <1>6, Zenon DEF EntryTagged, FoundTagged, Has
<1>11. OlderRuns
  <2>1. \A p \in Pid : Stays(ring, p, 1, Len(ring))
    BY <1>2, SMTT(30) DEF Stays
  <2> QED
    BY <1>6, <2>1, Zenon DEF OlderRuns, Older
<1> QED
  BY <1>1, <1>5, <1>7, <1>8, <1>9, <1>10, <1>11, Zenon DEF TagInv, Base, Tracked

LEMMA NextTags == TagInv /\ [Next]_vars => TagInv'
<1> SUFFICES ASSUME TagInv, [Next]_vars PROVE TagInv'
  BY Zenon
<1>1. ASSUME NEW p \in Pid \cup {InitPid}, NEW c \in Pid, Fork(p, c) PROVE TagInv'
  BY <1>1, ForkKeeps, Zenon DEF AnyPid
<1>2. ASSUME NEW p \in Pid, NEW match \in BOOLEAN, Exec(p, match) PROVE TagInv'
  BY <1>2, ExecKeeps, Zenon
<1>3. ASSUME NEW p \in Pid, Move(p) \/ Exit(p) \/ Act(p) PROVE TagInv'
  BY <1>3, MoveKeeps, ExitKeeps, ActKeeps, Zenon
<1>4. CASE Handle
  BY <1>4, HandleForkKeeps, HandleExecKeeps, HandleExitKeeps, HandleActionKeeps, Zenon DEF Handle
<1>5. CASE ScanStep
  BY <1>5, BootListKeeps, BootVisitKeeps, BootPassDoneKeeps, ResyncTrackedKeeps, PropagateKeeps, Zenon
     DEF ScanStep
<1>6. CASE ResyncBegin
  BY <1>6, ResyncBeginKeeps, Zenon
<1>7. ASSUME NEW p \in Pid, Prune(p) PROVE TagInv'
  BY <1>7, PruneKeeps, Zenon
<1>8. CASE UNCHANGED vars
  <2>1. Typed'
    BY <1>8, NextTyped, Zenon DEF TagInv, Base
  <2>2. BootFresh' /\ ListingCurrent'
    BY <1>8, Zenon DEF vars, TagInv, Base, BootFresh, ListingCurrent, Older
  <2>3. ~lost' => FoundTagged'
    BY <1>8, Zenon DEF vars, TagInv, Tracked, FoundTagged, Seeds, TaggedSnapshot
  <2> QED
    BY <1>8, <2>1, <2>2, <2>3, QuietKeeps, Zenon DEF Quiet, vars
<1> QED
  BY <1>1, <1>2, <1>3, <1>4, <1>5, <1>6, <1>7, <1>8, Zenon DEF Next

-----------------------------------------------------------------------------
(* Theorems.                                                                  *)

\* What userspace knows, what is on its way to it in the ring buffer and what the
\* kernel map holds add up to the truth at every step of system calls, handlers
\* (Engine.Handle), bootstrap (BootstrapRunning) and re-tagging (ResyncKernelTags):
\* the inductive invariant from which the theorems below follow.
THEOREM TagInvariant == Spec => []TagInv
  BY InitTags, NextTags, PTL DEF Spec

\* Once the events are handled and nothing was lost, every live process of an
\* agent is tagged in the kernel (Engine.Handle, BootstrapRunning, handle_fork),
\* for any number of processes and however long the queue of events was.
THEOREM AgentsAreTagged == Spec => []LineageTagged
<1>1. TagInv => LineageTagged
  <2> SUFFICES ASSUME TagInv, Quiescent, NEW p \in Alive, proc[p].agent # "none"
               PROVE  p \in tagged
    BY Zenon DEF LineageTagged
  <2>1. Tracked /\ ring = << >> /\ engine = "run" /\ p \in Pid
    BY Zenon DEF TagInv, Quiescent, Alive
  <2>2. proc[p].agent \in {"claimed", "found", "seen"}
    <3>1. proc[p] \in ProcType
      BY <2>1, Zenon DEF TagInv, Base, Typed
    <3> QED
      BY <3>1, Zenon DEF ProcType
  <2>3. CASE proc[p].agent = "found"
    BY <2>1, <2>3, Zenon DEF Tracked, FoundTagged
  <2>4. CASE proc[p].agent = "seen"
    <3>1. Backed(ring, table, p, Len(ring) + 1) /\ Len(ring) = 0
      BY <2>1, <2>4, Zenon DEF Tracked, History, HistoryOf, SeenBacked, Alive
    <3>2. Has(table, p)
      BY <3>1 DEF Backed
    <3> QED
      BY <2>1, <3>2, Zenon DEF Tracked, EntryTagged
  <2>5. CASE proc[p].agent = "claimed"
    <3>1. Len(ring) = 0 /\ \E i \in 1..Len(ring) : TRUE
      BY <2>1, <2>5, Zenon DEF Tracked, History, HistoryOf, ClaimsQueued, Alive
    <3> QED
      BY <3>1
  <2> QED
    BY <2>2, <2>3, <2>4, <2>5, Zenon
<1> QED
  BY <1>1, TagInvariant, PTL

\* ... and one whose enrolment the tracepoints or the bootstrap saw is known to
\* userspace as a live, tagged process (Table.OnFork, Table.OnExec, Table.OnExit).
THEOREM AgentsAreKnown == Spec => []LineageKnown
<1>1. TagInv => LineageKnown
  <2> SUFFICES ASSUME TagInv, Quiescent, NEW p \in Alive, proc[p].agent \in {"claimed", "seen"}
               PROVE  table[p].tagged /\ ~table[p].exited
    BY Zenon DEF LineageKnown
  <2>1. Tracked /\ ring = << >> /\ Len(ring) = 0 /\ p \in Pid /\ proc[p].start # 0
    BY Zenon DEF TagInv, Quiescent, Alive
  <2>2. CASE proc[p].agent = "seen"
    <3>1. Backed(ring, table, p, Len(ring) + 1)
      BY <2>1, <2>2, Zenon DEF Tracked, History, HistoryOf, SeenBacked
    <3> QED
      BY <2>1, <3>1 DEF Backed, Has
  <2>3. CASE proc[p].agent = "claimed"
    <3>1. \E i \in 1..Len(ring) : TRUE
      BY <2>1, <2>3, Zenon DEF Tracked, History, HistoryOf, ClaimsQueued
    <3> QED
      BY <2>1, <3>1
  <2> QED
    BY <2>2, <2>3, Zenon
<1> QED
  BY <1>1, TagInvariant, PTL

\* At no moment is a live process of an agent forgotten: it is tagged, or a fork or
\* exec of its is still queued (handle_fork, handle_exec, Engine.Handle).
THEOREM AgentsNotForgotten == Spec => []TaggedOrQueued
<1>1. TagInv => TaggedOrQueued
  <2> SUFFICES ASSUME TagInv, ~lost, NEW p \in Alive, proc[p].agent \in {"claimed", "seen"}
               PROVE  p \in tagged \/ \E i \in 1..Len(ring) :
                                         ring[i].pid = p /\ ring[i].type \in {"fork", "exec"}
    BY Zenon DEF TaggedOrQueued
  <2>1. Tracked /\ p \in Pid /\ proc[p].start # 0
    BY Zenon DEF TagInv, Alive
  <2>2. CASE proc[p].agent = "seen"
    <3>1. Backed(ring, table, p, Len(ring) + 1)
      BY <2>1, <2>2, Zenon DEF Tracked, History, HistoryOf, SeenBacked
    <3>2. Len(ring) + 1 - 1 = Len(ring)
      BY DEF TagInv, Base, Typed
    <3>3. CASE Has(table, p)
      BY <2>1, <3>3, Zenon DEF Tracked, EntryTagged
    <3>4. CASE \E j \in 1..Len(ring) : Tags(ring[j]) /\ ring[j].pid = p
      BY <3>4, Zenon DEF Tags
    <3> QED
      BY <3>1, <3>2, <3>3, <3>4 DEF Backed
  <2>3. CASE proc[p].agent = "claimed"
    BY <2>1, <2>3, Zenon DEF Tracked, History, HistoryOf, ClaimsQueued, ExecOf
  <2> QED
    BY <2>2, <2>3, Zenon
<1> QED
  BY <1>1, TagInvariant, PTL

\* Nothing but handleExit takes a tag away.
LEMMA OnlyExitUntags ==
  ASSUME Typed, [Next]_vars, NEW p \in tagged, p \notin tagged'
  PROVE  HandleExit /\ Head(ring).pid = p
<1>1. ASSUME NEW q \in Pid \cup {InitPid}, NEW c \in Pid, Fork(q, c) PROVE FALSE
  BY <1>1, InsertHas, Zenon DEF Fork
<1>2. ASSUME NEW q \in Pid, NEW match \in BOOLEAN, Exec(q, match) PROVE FALSE
  BY <1>2, Zenon DEF Exec
<1>3. ASSUME NEW q \in Pid, Move(q) \/ Exit(q) \/ Act(q) PROVE FALSE
  BY <1>3, InsertHas, Zenon DEF Move, Exit, Act
<1>4. CASE HandleFork
  <2> DEFINE e == Head(ring)
             child == ParentEntry(table, e.ppid)
             t1 == Insert(tagged, e.pid)
             t2 == Insert(t1, child.root)
             t3 == Insert(t2, e.ppid)
  <2>1. tagged \subseteq t1 /\ t1 \subseteq t2 /\ t2 \subseteq t3
    BY InsertHas
  <2>2. tagged' = IF child.tagged THEN t3 ELSE tagged
    BY <1>4, Zenon DEF HandleFork
  <2> QED
    BY <2>1, <2>2, Zenon
<1>5. CASE HandleExec \/ HandleAction
  <2>1. tagged' \in {tagged, Insert(tagged, Head(ring).pid)}
    BY <1>5, Zenon DEF HandleExec, TryEnroll, HandleAction
  <2> QED
    BY <2>1, InsertHas, SMTT(30)
<1>6. CASE HandleExit
  BY <1>6, Zenon DEF HandleExit
<1>7. CASE ScanStep
  <2>1. ASSUME NEW q \in Pid, BootVisit(q) PROVE FALSE
    BY <2>1, InsertHas, Zenon DEF BootVisit, TryEnroll
  <2>2. CASE BootList \/ BootPassDone
    BY <2>2, Zenon DEF BootList, BootPassDone
  <2>3. CASE ResyncTracked \/ Propagate
    BY <2>3, TagAllTyped, Zenon DEF ResyncTracked, Propagate, Typed, ScanType
  <2> QED
    BY <1>7, <2>1, <2>2, <2>3, Zenon DEF ScanStep
<1>8. CASE ResyncBegin
  BY <1>8, Zenon DEF ResyncBegin
<1>9. ASSUME NEW q \in Pid, Prune(q) PROVE FALSE
  BY <1>9, Zenon DEF Prune
<1>10. CASE UNCHANGED vars
  BY <1>10, Zenon DEF vars
<1> QED
  BY <1>1, <1>2, <1>3, <1>4, <1>5, <1>6, <1>7, <1>8, <1>9, <1>10, Zenon DEF Next, Handle

\* A tag stays on a live process but for the exit event of an earlier process
\* with its pid (Engine.handleExit): an exit event never carries the start time
\* of a process that lives.
THEOREM TagsStick == Spec => TagSticks
<1>1. TagInv /\ [Next]_vars
        => [\A p \in Alive : p \in tagged /\ proc'[p].start = proc[p].start /\ ~StaleExit(p)
                               => p \in tagged']_vars
  <2> SUFFICES ASSUME TagInv, [Next]_vars, NEW p \in Alive, p \in tagged, p \notin tagged'
               PROVE  StaleExit(p)
    BY Zenon
  <2>1. Typed /\ HandleExit /\ Head(ring).pid = p
    BY OnlyExitUntags, Zenon DEF TagInv, Base
  <2>2. /\ Pending("exit") /\ Head(ring).type = "exit" /\ Head(ring) = ring[1]
        /\ 1 \in 1..Len(ring) /\ Len(ring') < Len(ring)
    BY <2>1, PendingTyped DEF HandleExit, Pending
  <2>3. Head(ring).start # proc[p].start
    BY <2>1, <2>2, Zenon DEF TagInv, Base, Stamps
  <2> QED
    BY <2>1, <2>2, <2>3, Zenon DEF StaleExit
<1> QED
  BY <1>1, TagInvariant, PTL DEF Spec, TagSticks

-----------------------------------------------------------------------------
(* The type invariant.  It takes facts about cardinalities, which come last.  *)

Size(S) == Cardinality(S)

Finite(S) == IsFiniteSet(S)

Fits(S) == Size(S) <= MaxTags

TagsFit == Fits(tagged)

SizeFacts ==
  /\ Size({}) = 0
  /\ \A S \in SUBSET AnyPid, p \in AnyPid :
       /\ Size(S) \in Nat /\ Size(S \cup {p}) \in Nat /\ Size(S \cup {p}) <= Size(S) + 1
       /\ Size(S \ {p}) \in Nat /\ Size(S \ {p}) <= Size(S)

LEMMA InsertFits ==
  ASSUME SizeFacts, NEW S \in SUBSET AnyPid, Fits(S), NEW p \in AnyPid
  PROVE  Insert(S, p) \in SUBSET AnyPid /\ Fits(Insert(S, p)) /\ Fits(S \ {p})
<1>1. /\ Size(S) \in Nat /\ Size(S \cup {p}) \in Nat /\ Size(S \cup {p}) <= Size(S) + 1
      /\ Size(S \ {p}) \in Nat /\ Size(S \ {p}) <= Size(S) /\ MaxTags \in Nat
  BY TagAssumption, Zenon DEF SizeFacts
<1>2. Fits(S \ {p}) /\ (Size(S) < MaxTags => Fits(S \cup {p}))
  BY <1>1 DEF Fits
<1>3. Insert(S, p) \in {S, S \cup {p}} /\ (Insert(S, p) = S \/ Size(S) < MaxTags)
  BY Zenon DEF Insert, Room, Size
<1> QED
  BY <1>2, <1>3, Zenon

LEMMA NextFits == SizeFacts /\ Typed /\ Fits(tagged) /\ [Next]_vars => Fits(tagged')
<1> SUFFICES ASSUME SizeFacts, Typed, Fits(tagged), [Next]_vars PROVE Fits(tagged')
  BY Zenon
<1>1. tagged \in SUBSET AnyPid /\ Pid \subseteq AnyPid
  BY Zenon DEF Typed, AnyPid
<1>2. ASSUME NEW p \in Pid, tagged' \in {tagged, Insert(tagged, p), tagged \ {p}} PROVE Fits(tagged')
  BY <1>1, <1>2, InsertFits, Zenon
<1>3. ASSUME NEW q \in Pid \cup {InitPid}, NEW c \in Pid, Fork(q, c) PROVE Fits(tagged')
  BY <1>2, <1>3, Zenon DEF Fork
<1>4. ASSUME NEW p \in Pid, NEW match \in BOOLEAN, Exec(p, match) PROVE Fits(tagged')
  BY <1>4, Zenon DEF Exec
<1>5. ASSUME NEW p \in Pid, Move(p) \/ Exit(p) \/ Act(p) PROVE Fits(tagged')
  BY <1>2, <1>5, Zenon DEF Move, Exit, Act
<1>6. CASE HandleFork
  <2> DEFINE e == Head(ring)
             child == ParentEntry(table, e.ppid)
             t1 == Insert(tagged, e.pid)
             t2 == Insert(t1, child.root)
             t3 == Insert(t2, e.ppid)
  <2>1. e.pid \in AnyPid /\ e.ppid \in AnyPid /\ child.root \in AnyPid
    <3>1. e \in EventType /\ child \in EntryType
      BY <1>6, PendingTyped, ParentEntryTyped, Zenon DEF HandleFork, Typed
    <3> QED
      BY <3>1, Zenon DEF EventType, EntryType, AnyPid
  <2>2. tagged' = IF child.tagged THEN t3 ELSE tagged
    BY <1>6, Zenon DEF HandleFork
  <2> HIDE DEF child, e
  <2>3. t1 \in SUBSET AnyPid /\ Fits(t1)
    BY <1>1, <2>1, InsertFits, Zenon
  <2>4. t2 \in SUBSET AnyPid /\ Fits(t2)
    BY <2>1, <2>3, InsertFits, Zenon
  <2>5. Fits(t3)
    BY <2>1, <2>4, InsertFits, Zenon
  <2> QED
    BY <2>2, <2>5, Zenon
<1>7. CASE HandleExec \/ HandleExit \/ HandleAction
  <2>1. Head(ring) \in EventType
    BY <1>7, PendingTyped, Zenon DEF HandleExec, TryEnroll, HandleExit, HandleAction
  <2>2. Head(ring).pid \in Pid
    BY <2>1, Zenon DEF EventType
  <2>3. tagged' \in {tagged, Insert(tagged, Head(ring).pid), tagged \ {Head(ring).pid}}
    BY <1>7, Zenon DEF HandleExec, TryEnroll, HandleExit, HandleAction
  <2> QED
    BY <1>2, <2>2, <2>3, Zenon
<1>8. CASE ScanStep
  <2>1. ASSUME NEW p \in Pid, BootVisit(p) PROVE Fits(tagged')
    BY <1>2, <2>1, Zenon DEF BootVisit, TryEnroll
  <2>2. CASE BootList \/ BootPassDone
    BY <2>2, Zenon DEF BootList, BootPassDone
  <2>3. CASE ResyncTracked \/ Propagate
    BY <2>3, Zenon DEF ResyncTracked, Propagate, TagAll, Fits, Size
  <2> QED
    BY <1>8, <2>1, <2>2, <2>3 DEF ScanStep
<1>9. CASE ResyncBegin
  BY <1>9, Zenon DEF ResyncBegin
<1>10. ASSUME NEW p \in Pid, Prune(p) PROVE Fits(tagged')
  BY <1>10, Zenon DEF Prune
<1>11. CASE UNCHANGED vars
  BY <1>11, Zenon DEF vars
<1> QED
  BY <1>3, <1>4, <1>5, <1>6, <1>7, <1>8, <1>9, <1>10, <1>11, Zenon DEF Next, Handle

LEMMA TypedFits == Typed /\ Fits(tagged) => TypeOK
  BY Zenon DEF Typed, TypeOK, ProcType, EntryType, AnyPid, Fits, Size

LEMMA TypedThroughout == SizeFacts => (Spec => []TypeOK)
<1> SUFFICES ASSUME SizeFacts PROVE Spec => []TypeOK
  BY Zenon
<1>1. Init => TagsFit
  BY TagAssumption DEF Init, Fits, SizeFacts, TagsFit
<1>2. Typed /\ TagsFit /\ [Next]_vars => TagsFit'
  BY NextFits, Zenon DEF TagsFit
<1>3. Typed /\ TagsFit => TypeOK
  BY TypedFits, Zenon DEF TagsFit
<1> QED
  BY <1>1, <1>2, <1>3, InitTyped, NextTyped, PTL DEF Spec

LEMMA PidsFinite == Finite(Pid)
  BY TagAssumption, Zenon DEF Finite

USE DEF Cardinality, IsFiniteSet
LOCAL INSTANCE FiniteSetTheorems
HIDE DEF Cardinality, IsFiniteSet

\* Size and Finite are what the library's theorems are about.
LEMMA SameFiniteSets == \A S : Size(S) = Cardinality(S) /\ (Finite(S) <=> IsFiniteSet(S))
  BY Zenon DEF Size, Finite, Cardinality, IsFiniteSet

LEMMA SizeFactsHold == SizeFacts
<1>1. IsFiniteSet(AnyPid)
  BY PidsFinite, SameFiniteSets, FS_AddElement, SMTT(30) DEF AnyPid
<1>2. ASSUME NEW S \in SUBSET AnyPid, NEW p \in AnyPid
      PROVE  /\ Size(S) \in Nat /\ Size(S \cup {p}) \in Nat /\ Size(S \cup {p}) <= Size(S) + 1
             /\ Size(S \ {p}) \in Nat /\ Size(S \ {p}) <= Size(S)
  <2>1. IsFiniteSet(S) /\ IsFiniteSet(S \cup {p}) /\ IsFiniteSet(S \ {p})
    BY <1>1, FS_Subset, Zenon
  <2>2. Cardinality(S) \in Nat /\ Cardinality(S \cup {p}) \in Nat /\ Cardinality(S \ {p}) \in Nat
    BY <2>1, FS_CardinalityType, Zenon
  <2>3. /\ Cardinality(S \cup {p}) = IF p \in S THEN Cardinality(S) ELSE Cardinality(S) + 1
        /\ Cardinality(S \ {p}) = IF p \in S THEN Cardinality(S) - 1 ELSE Cardinality(S)
    BY <2>1, FS_AddElement, FS_RemoveElement
  <2>4. /\ Size(S) = Cardinality(S) /\ Size(S \cup {p}) = Cardinality(S \cup {p})
        /\ Size(S \ {p}) = Cardinality(S \ {p})
    BY SameFiniteSets, Zenon
  <2> QED
    BY <2>2, <2>3, <2>4
<1>3. Size({}) = 0
  BY SameFiniteSets, FS_EmptySet, Zenon
<1> QED
  BY <1>2, <1>3, Zenon DEF SizeFacts

\* Types, and the capacities of the ring buffer and of tagged_pids.
THEOREM TypeCorrect == Spec => []TypeOK
  BY SizeFactsHold, TypedThroughout, Zenon
=============================================================================
