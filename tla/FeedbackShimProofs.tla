------------------------- MODULE FeedbackShimProofs -------------------------
(* Theorems about FeedbackShim, for any pids and agents, any limits of the     *)
(* hub, the file and the request, any grace and wait, any number of processes, *)
(* denials and crashes and any bound on the clock.                            *)
EXTENDS FeedbackShim, WellFoundedInduction, TLAPS

AnyAgent == Agent \cup {None}

-----------------------------------------------------------------------------
(* Sequences of decisions, and the newest of them.                            *)

LEMMA RangeAppend ==
  ASSUME NEW S, NEW s \in Seq(S), NEW d \in S
  PROVE  Append(s, d) \in Seq(S) /\ Range(Append(s, d)) = Range(s) \cup {d}
<1> DEFINE u == Append(s, d)
<1>1. /\ u \in Seq(S) /\ Len(s) \in Nat /\ DOMAIN s = 1..Len(s) /\ DOMAIN u = 1..(Len(s) + 1)
      /\ u[Len(s) + 1] = d /\ \A i \in 1..Len(s) : u[i] = s[i]
  OBVIOUS
<1> HIDE DEF u
<1>2. DOMAIN u = DOMAIN s \cup {Len(s) + 1}
  BY <1>1
<1>3. Range(u) = Range(s) \cup {d}
  BY <1>1, <1>2 DEF Range
<1> QED
  BY <1>1, <1>3, Zenon DEF u

LEMMA RangeTail ==
  ASSUME NEW S, NEW s \in Seq(S), s # << >>
  PROVE  Range(Tail(s)) \subseteq Range(s) /\ Head(s) \in Range(s) /\ Tail(s) \in Seq(S) /\ Head(s) \in S
  BY DEF Range

LEMMA RangeConcat ==
  ASSUME NEW S, NEW s \in Seq(S), NEW t \in Seq(S)
  PROVE  s \o t \in Seq(S) /\ Range(s \o t) = Range(s) \cup Range(t)
<1> DEFINE u == s \o t
<1>1. /\ u \in Seq(S) /\ Len(u) = Len(s) + Len(t) /\ Len(s) \in Nat /\ Len(t) \in Nat
      /\ \A i \in 1..Len(u) : u[i] = IF i <= Len(s) THEN s[i] ELSE t[i - Len(s)]
  OBVIOUS
<1> HIDE DEF u
<1>2. Range(u) \subseteq Range(s) \cup Range(t)
  BY <1>1 DEF Range
<1>3. ASSUME NEW i \in DOMAIN s PROVE s[i] \in Range(u)
  BY <1>1 DEF Range
<1>4. ASSUME NEW i \in DOMAIN t PROVE t[i] \in Range(u)
  <2>1. Len(s) + i \in DOMAIN u /\ u[Len(s) + i] = t[i]
    BY <1>1
  <2> QED
    BY <2>1, Zenon DEF Range
<1> QED
  BY <1>1, <1>2, <1>3, <1>4, Zenon DEF Range, u

LEMMA RangeType ==
  ASSUME NEW S, NEW s \in Seq(S)
  PROVE  Range(s) \subseteq S
  BY DEF Range

LEMMA RangeFront ==
  ASSUME NEW S, NEW s \in Seq(S)
  PROVE  SubSeq(s, 1, Len(s) - 1) \in Seq(S) /\ Range(SubSeq(s, 1, Len(s) - 1)) \subseteq Range(s)
  BY DEF Range

LEMMA NewestIs ==
  ASSUME NEW S, NEW s \in Seq(S), NEW n \in Nat
  PROVE  /\ Newest(s, n) \in Seq(S)
         /\ Len(s) <= n => Newest(s, n) = s
         /\ Len(s) > n => /\ Len(Newest(s, n)) = n
                          /\ \A i \in 1..n : Newest(s, n)[i] = s[Len(s) - n + i]
         /\ Len(Newest(s, n)) <= n
         /\ Range(Newest(s, n)) \subseteq Range(s)
<1>1. Len(s) \in Nat
  OBVIOUS
<1>2. CASE Len(s) <= n
  BY <1>1, <1>2 DEF Newest
<1>3. CASE Len(s) > n
  <2> DEFINE u == SubSeq(s, Len(s) - n + 1, Len(s))
  <2>1. Newest(s, n) = u
    BY <1>1, <1>3 DEF Newest
  <2>2. u \in Seq(S) /\ Len(u) = n /\ \A i \in 1..n : u[i] = s[Len(s) - n + i]
    BY <1>1, <1>3
  <2> HIDE DEF u
  <2>3. Range(u) \subseteq Range(s)
    BY <1>1, <1>3, <2>2 DEF Range
  <2> QED
    BY <1>1, <1>3, <2>1, <2>2, <2>3
<1> QED
  BY <1>1, <1>2, <1>3

\* Dropping the oldest after each addition leaves what dropping them at the end
\* would leave.
LEMMA NewestAppend ==
  ASSUME NEW S, NEW s \in Seq(S), NEW d \in S, NEW n \in Nat \ {0}
  PROVE  Newest(Append(Newest(s, n), d), n) = Newest(Append(s, d), n)
<1> DEFINE u == Newest(s, n)
           l == Append(u, d)
           r == Append(s, d)
<1>1. Len(s) \in Nat /\ n \in Nat
  OBVIOUS
<1>2. u \in Seq(S)
  BY <1>1, NewestIs, Zenon
<1>3. CASE Len(s) <= n
  BY <1>1, <1>3, NewestIs, Zenon
<1>4. CASE Len(s) > n
  <2>1. Len(u) = n /\ \A i \in 1..n : u[i] = s[Len(s) - n + i]
    BY <1>1, <1>4, NewestIs, ZenonT(60)
  <2> HIDE DEF u
  <2>2. /\ l \in Seq(S) /\ Len(l) = n + 1 /\ l[n + 1] = d /\ \A i \in 1..n : l[i] = u[i]
    BY <1>1, <1>2, <2>1
  <2>3. /\ r \in Seq(S) /\ Len(r) = Len(s) + 1 /\ r[Len(s) + 1] = d /\ \A i \in 1..Len(s) : r[i] = s[i]
    BY <1>1
  <2> HIDE DEF l, r
  <2>4. Newest(l, n) \in Seq(S) /\ Len(Newest(l, n)) = n /\ \A i \in 1..n : Newest(l, n)[i] = l[i + 1]
    <3>1. Len(l) > n /\ \A i \in 1..n : Len(l) - n + i = i + 1
      BY <2>2
    <3>2. Newest(l, n) \in Seq(S) /\ Len(Newest(l, n)) = n /\ \A i \in 1..n : Newest(l, n)[i] = l[Len(l) - n + i]
      <4>1. l \in Seq(S) /\ Len(l) > n
        BY <2>2, <3>1, Zenon
      <4> QED
        BY <1>1, <4>1, NewestIs, ZenonT(60)
    <3> QED
      BY <3>1, <3>2, Zenon
  <2>5. /\ Newest(r, n) \in Seq(S) /\ Len(Newest(r, n)) = n
        /\ \A i \in 1..n : Newest(r, n)[i] = r[Len(s) + 1 - n + i]
    <3>1. Len(r) > n
      BY <1>1, <1>4, <2>3
    <3>2. Newest(r, n) \in Seq(S) /\ Len(Newest(r, n)) = n /\ \A i \in 1..n : Newest(r, n)[i] = r[Len(r) - n + i]
      <4>1. r \in Seq(S) /\ Len(r) > n
        BY <2>3, <3>1, Zenon
      <4> QED
        BY <1>1, <4>1, NewestIs, ZenonT(60)
    <3> QED
      BY <2>3, <3>2
  <2>6. ASSUME NEW i \in 1..n PROVE l[i + 1] = r[Len(s) + 1 - n + i]
    <3>1. CASE i = n
      BY <1>1, <2>2, <2>3, <3>1
    <3>2. CASE i < n
      <4>1. l[i + 1] = s[Len(s) - n + (i + 1)]
        BY <1>1, <2>1, <2>2, <3>2
      <4>2. Len(s) - n + (i + 1) \in 1..Len(s) /\ Len(s) - n + (i + 1) = Len(s) + 1 - n + i
        BY <1>1, <1>4, <3>2
      <4> QED
        BY <2>3, <4>1, <4>2, Zenon
    <3> QED
      BY <3>1, <3>2
  <2>7. Newest(l, n) = Newest(r, n)
    <3> DEFINE x == Newest(l, n)
               y == Newest(r, n)
    <3>1. x \in Seq(S) /\ y \in Seq(S) /\ Len(x) = Len(y) /\ \A i \in 1..Len(x) : x[i] = y[i]
      BY <2>4, <2>5, <2>6, Zenon
    <3> HIDE DEF x, y
    <3>2. x = y
      BY <3>1
    <3> QED
      BY <3>2, Zenon DEF x, y
  <2> QED
    BY <2>7, Zenon DEF l, r, u
<1> QED
  BY <1>1, <1>3, <1>4

-----------------------------------------------------------------------------
(* matchPID finds a decision if there is one.                                 *)

LEMMA MinNat ==
  ASSUME NEW T, T \subseteq Nat, T # {}
  PROVE  \E x \in T : \A y \in T : x <= y
<1> DEFINE R == OpToRel(<, Nat)
<1>1. IsWellFoundedOn(R, Nat)
  BY NatLessThanWellFounded, Zenon
<1>2. \A x, y \in Nat : <<y, x>> \in R <=> y < x
  BY Zenon DEF OpToRel
<1> HIDE DEF R
<1>3. PICK x \in T : \A y \in T : ~ (<<y, x>> \in R)
  BY <1>1, WFMin, Zenon
<1>4. ASSUME NEW y \in T PROVE x <= y
  <2>1. x \in Nat /\ y \in Nat
    BY Zenon
  <2>2. ~(y < x)
    BY <2>1, <1>2, <1>3, Zenon
  <2> QED
    BY <2>1, <2>2
<1> QED
  BY <1>4, Zenon

\* No decision is from the future.
LEMMA MatchFinds ==
  ASSUME NEW list \in Seq(Decisions), NEW pid, NEW since \in Nat, NEW t \in Nat,
         \A d \in Range(list) : d.time <= t
  PROVE  \/ MatchPID(list, pid, since) = None /\ ~ \E d \in Range(list) : d.pid = pid /\ Recent(d, since)
         \/ /\ MatchPID(list, pid, since) \in Range(list)
            /\ MatchPID(list, pid, since).pid = pid /\ Recent(MatchPID(list, pid, since), since)
<1> DEFINE fits == {i \in 1..Len(list) : list[i].pid = pid /\ Recent(list[i], since)}
           newest == {i \in fits : \A j \in fits : list[j].time <= list[i].time}
           best == CHOOSE i \in newest : \A j \in newest : i <= j
<1>1. CASE fits = {}
  <2>1. ~ \E d \in Range(list) : d.pid = pid /\ Recent(d, since)
    BY <1>1 DEF Range
  <2> QED
    BY <1>1, <2>1, Zenon DEF MatchPID
<1>2. CASE fits # {}
  <2>1. \A i \in fits : list[i].time \in Nat /\ list[i].time <= t
    <3>1. ASSUME NEW i \in fits PROVE list[i] \in Decisions /\ list[i] \in Range(list)
      BY DEF Range
    <3> HIDE DEF fits
    <3> QED
      BY <3>1, Zenon DEF Decisions
  <2> DEFINE T == {t - list[i].time : i \in fits}
  <2>2. T \subseteq Nat /\ T # {}
    <3> HIDE DEF fits
    <3> QED
      BY <1>2, <2>1
  <2>3. PICK x \in T : \A y \in T : x <= y
    BY <2>2, MinNat, Zenon
  <2>4. PICK i \in fits : x = t - list[i].time
    BY Zenon
  <2>5. i \in newest
    <3>1. ASSUME NEW j \in fits PROVE list[j].time <= list[i].time
      <4>1. x <= t - list[j].time
        BY <2>3, Zenon
      <4> QED
        BY <2>1, <2>4, <4>1, SMTT(30)
    <3> QED
      BY <3>1, Zenon
  <2>6. newest \subseteq Nat /\ newest # {}
    BY <2>5
  <2>7. \E k \in newest : \A j \in newest : k <= j
    BY <2>6, MinNat, Zenon
  <2>8. best \in newest
    BY <2>7, Zenon
  <2>9. MatchPID(list, pid, since) = list[best]
    BY <1>2, Zenon DEF MatchPID
  <2> HIDE DEF best
  <2> QED
    BY <2>8, <2>9 DEF Range
<1> QED
  BY <1>1, <1>2, Zenon

-----------------------------------------------------------------------------
(* The invariant.                                                             *)

HubType == [byAgent : [AnyAgent -> Seq(Decisions)], recent : Seq(Decisions)]

FileType == [parsed : Seq(Decisions), open : BOOLEAN, glued : BOOLEAN, cut : SUBSET Nat]

ShimType ==
  [pc : {"off", "begin", "run", "file", "http", "match", "done"}, agent : AnyAgent, pid : Pid \cup {None},
   id : Nat, since : Nat, deadline : Nat, list : Seq(Decisions), shown : Decisions \cup {None},
   foreign : SUBSET Nat, early : SUBSET Decisions, due : SUBSET Decisions]

Typed ==
  /\ now \in 0..MaxTime /\ up \in BOOLEAN /\ writing \in BOOLEAN
  /\ proc \in [Pid -> [id : Nat, agent : AnyAgent]]
  /\ queue \in Seq(Denials) /\ log \in Seq(Decisions)
  /\ hub \in HubType /\ made \in HubType /\ file \in FileType /\ shim \in ShimType
  /\ used \in [procs : 0..MaxProcs, denials : 0..MaxDenials, crashes : 0..MaxCrashes]
  /\ Len(log) + Len(queue) <= used.denials

\* The hub has the newest of the decisions made.
Agrees(h, m) ==
  /\ h.recent = Newest(m.recent, 4 * MaxPerAgent)
  /\ \A a \in AnyAgent : h.byAgent[a] = Newest(m.byAgent[a], MaxPerAgent)

\* Whatever is kept or was fetched has been decided.
Stored ==
  /\ Range(file.parsed) \subseteq Range(log)
  /\ Range(made.recent) \subseteq Range(log) /\ \A a \in AnyAgent : Range(made.byAgent[a]) \subseteq Range(log)
  /\ Range(shim.list) \subseteq Range(log)
  /\ Agrees(hub, made)

\* The last line is open while it is written, or since the agent died on it.
Lines(f, l, w) ==
  /\ f.cut \subseteq 0..Len(l)
  /\ w => f.open /\ Len(l) \notin f.cut
  /\ f.open <=> w \/ Len(l) \in f.cut

\* Place j of the file has the i-th decision, with no more after it than in the
\* log; and if the last line still parses, only the last decision is on it.
At(f, l, i, j) ==
  /\ f.parsed[j] = l[i] /\ Len(f.parsed) - j <= Len(l) - i
  /\ f.open /\ ~f.glued /\ i < Len(l) => j < Len(f.parsed)

WholeIn(f, l, i) == i - 1 \notin f.cut /\ (i \in f.cut => i = Len(l))

\* A decision is in the file if the agent did not die on its line or on the one
\* before.
Written(f, l) == \A i \in 1..Len(l) : WholeIn(f, l, i) => \E j \in 1..Len(f.parsed) : At(f, l, i, j)

Appended == Lines(file, log, writing) /\ Written(file, log)

\* Nothing is from the future.
Aged ==
  /\ shim.since <= now
  /\ \A p \in Pid : proc[p].id <= used.procs
  /\ \A v \in Range(queue) : v.by <= used.procs
  /\ \A d \in Range(log) : d.by <= used.procs /\ d.time <= now

Spawned == shim.pc \notin {"off", "begin"}

\* A denial of the command's pid is the command's or a later process's, unless it
\* is foreign or too old; those of the command have its pid and are not too old.
QueueKnown(v) ==
  /\ v.pid = shim.pid => v.by >= shim.id \/ v.n \in shim.foreign
  /\ v.by = shim.id => v.pid = shim.pid

LogKnown(d) ==
  /\ d.pid = shim.pid => d.by >= shim.id \/ d.n \in shim.foreign \/ ~Recent(d, shim.since)
  /\ d.by = shim.id => d.pid = shim.pid /\ Recent(d, shim.since)

PidsKnown ==
  Spawned =>
    /\ shim.pid \in Pid /\ shim.id \in 1..used.procs
    /\ shim.pc = "run" => proc[shim.pid].id = shim.id
    /\ proc[shim.pid] = NoProc \/ proc[shim.pid].id >= shim.id
    /\ \A p \in Pid : proc[p].id = shim.id => p = shim.pid
    /\ \A v \in Range(queue) : QueueKnown(v)
    /\ \A d \in Range(log) : LogKnown(d)

Shows ==
  /\ ~Spawned \/ shim.pc = "run" => shim.shown = None /\ shim.early = {}
  /\ shim.shown # None =>
       shim.shown \in Range(log) /\ shim.shown.pid = shim.pid /\ Recent(shim.shown, shim.since)
  /\ \A d \in shim.early : d \in Range(log) /\ d.by = shim.id
  /\ shim.due \subseteq shim.early
  /\ shim.pc \in {"http", "match"} => shim.due \subseteq Range(shim.list)
  /\ shim.pc = "done" /\ shim.shown = None => shim.due = {}

ShimInv == Typed /\ Stored /\ Appended /\ Aged /\ PidsKnown /\ Shows

LEMMA Constants ==
  /\ MaxPerAgent \in Nat \ {0} /\ 4 * MaxPerAgent \in Nat \ {0} /\ FileLimit \in Nat /\ HTTPLimit \in Nat
  /\ MaxTime \in Nat /\ MaxProcs \in Nat /\ MaxDenials \in Nat /\ MaxCrashes \in Nat
  /\ Grace \in Nat /\ Wait \in Nat /\ None \notin Decisions
  BY ShimAssumption

LEMMA NewestOfNone ==
  ASSUME NEW n \in Nat
  PROVE  Newest(<< >>, n) = << >> /\ Range(<< >>) = {}
  BY DEF Newest, Range

LEMMA EmptyTyped == EmptyHub \in HubType /\ NoProc \in [id : Nat, agent : AnyAgent] /\ NotRun \in ShimType
  BY DEF EmptyHub, HubType, AnyAgent, NoProc, NotRun, ShimType

LEMMA EmptyStored ==
  /\ Range(EmptyHub.recent) = {} /\ \A a \in AnyAgent : Range(EmptyHub.byAgent[a]) = {}
  /\ Agrees(EmptyHub, EmptyHub)
<1>1. EmptyHub.recent = << >> /\ \A a \in AnyAgent : EmptyHub.byAgent[a] = << >>
  BY Zenon DEF EmptyHub, AnyAgent
<1>2. Range(<< >>) = {} /\ Newest(<< >>, 4 * MaxPerAgent) = << >> /\ Newest(<< >>, MaxPerAgent) = << >>
  BY Constants, NewestOfNone, Zenon
<1> QED
  BY <1>1, <1>2, Zenon DEF Agrees

LEMMA ShimInitial == Init => ShimInv
<1> SUFFICES ASSUME Init PROVE ShimInv
  BY Zenon
<1>1. Range(<< >>) = {}
  BY DEF Range
<1>2. Typed
  <2>1. proc \in [Pid -> [id : Nat, agent : AnyAgent]]
    BY EmptyTyped, Zenon DEF Init
  <2>2. file \in FileType
    BY DEF Init, FileType
  <2>3. used \in [procs : 0..MaxProcs, denials : 0..MaxDenials, crashes : 0..MaxCrashes] /\ used.denials = 0
    BY Constants DEF Init
  <2>4. /\ hub \in HubType /\ made \in HubType /\ shim \in ShimType
        /\ queue \in Seq(Denials) /\ log \in Seq(Decisions) /\ Len(log) + Len(queue) <= 0
    BY EmptyTyped DEF Init
  <2>5. now \in 0..MaxTime
    BY Constants DEF Init
  <2>6. up \in BOOLEAN /\ writing \in BOOLEAN
    BY Zenon DEF Init
  <2> QED
    BY <2>1, <2>2, <2>3, <2>4, <2>5, <2>6, Zenon DEF Typed
<1>3. Stored
  BY <1>1, EmptyStored, Zenon DEF Init, Stored, NotRun
<1>4. Aged /\ PidsKnown /\ Shows
  BY <1>1 DEF Init, Aged, PidsKnown, Spawned, Shows, NotRun, NoProc
<1>5. Appended
  BY DEF Init, Appended, Lines, Written
<1> QED
  BY <1>2, <1>3, <1>4, <1>5, Zenon DEF ShimInv

-----------------------------------------------------------------------------
(* Processes and denials.                                                     *)

LEMMA StartTyped ==
  ASSUME ShimInv, NEW p \in Pid, NEW a \in AnyAgent, Start(p, a)
  PROVE  /\ used' = [used EXCEPT !.procs = @ + 1]
         /\ used' \in [procs : 0..MaxProcs, denials : 0..MaxDenials, crashes : 0..MaxCrashes]
         /\ used'.procs = used.procs + 1 /\ used'.denials = used.denials /\ used.procs \in Nat
         /\ proc' \in [Pid -> [id : Nat, agent : AnyAgent]]
         /\ proc[p] = NoProc /\ proc'[p].id = used.procs + 1
         /\ \A q \in Pid \ {p} : proc'[q] = proc[q]
         /\ \A q \in Pid : proc[q].id \in Nat /\ proc[q].id <= used.procs /\ proc'[q].id <= used'.procs
<1>1. used.procs \in Nat /\ used.procs < MaxProcs /\ MaxProcs \in Nat
  BY Constants DEF ShimInv, Typed, Start
<1>2. used' = [used EXCEPT !.procs = @ + 1]
  BY Zenon DEF Start, Use
<1>3. /\ used' \in [procs : 0..MaxProcs, denials : 0..MaxDenials, crashes : 0..MaxCrashes]
      /\ used'.procs = used.procs + 1 /\ used'.denials = used.denials
  BY <1>1, <1>2 DEF ShimInv, Typed
<1>4. /\ proc' \in [Pid -> [id : Nat, agent : AnyAgent]]
      /\ proc'[p].id = used.procs + 1 /\ \A q \in Pid \ {p} : proc'[q] = proc[q]
  BY <1>1 DEF Start, ShimInv, Typed
<1>5. \A q \in Pid : proc[q].id \in Nat /\ proc[q].id <= used.procs
  BY Zenon DEF ShimInv, Typed, Aged
<1>6. \A q \in Pid : proc'[q].id <= used'.procs
  BY <1>1, <1>3, <1>4, <1>5
<1>7. proc[p] = NoProc
  BY Zenon DEF Start
<1> QED
  BY <1>1, <1>2, <1>3, <1>4, <1>5, <1>6, <1>7, Zenon

LEMMA StepStartOther ==
  ASSUME ShimInv, NEW p \in Pid, NEW a \in AnyAgent, StartOther(p, a)
  PROVE  ShimInv'
<1>1. Start(p, a) /\ UNCHANGED <<now, queue, hub, writing, made, up, file, log, shim>>
  BY Zenon DEF StartOther, agent
<1>2. /\ used' \in [procs : 0..MaxProcs, denials : 0..MaxDenials, crashes : 0..MaxCrashes]
      /\ used'.procs = used.procs + 1 /\ used'.denials = used.denials /\ used.procs \in Nat
      /\ proc' \in [Pid -> [id : Nat, agent : AnyAgent]]
      /\ proc[p] = NoProc /\ proc'[p].id = used.procs + 1
      /\ \A q \in Pid \ {p} : proc'[q] = proc[q]
      /\ \A q \in Pid : proc[q].id \in Nat /\ proc[q].id <= used.procs /\ proc'[q].id <= used'.procs
  BY <1>1, StartTyped, Zenon
<1>3. Typed'
  BY <1>1, <1>2, Zenon DEF ShimInv, Typed
<1>4. Stored' /\ Appended'
  BY <1>1, Zenon DEF ShimInv, Stored, Agrees, Appended
<1>5. Aged'
  <2>1. /\ \A v \in Range(queue) : v.by \in Nat /\ v.by <= used.procs
        /\ \A d \in Range(log) : d.by \in Nat /\ d.by <= used.procs
    <3>1. Range(queue) \subseteq Denials /\ Range(log) \subseteq Decisions
      BY RangeType, Zenon DEF ShimInv, Typed
    <3> QED
      BY <3>1, Zenon DEF ShimInv, Aged, Denials, Decisions
  <2>2. /\ \A v \in Range(queue) : v.by <= used'.procs
        /\ \A d \in Range(log) : d.by <= used'.procs
    BY <1>2, <2>1
  <2> QED
    BY <1>1, <1>2, <2>2, Zenon DEF ShimInv, Aged
<1>6. PidsKnown'
  <2> SUFFICES ASSUME Spawned PROVE PidsKnown'
    BY <1>1, Zenon DEF PidsKnown, Spawned
  <2>1. shim.pid \in Pid /\ shim.id \in 1..used.procs
    BY Zenon DEF ShimInv, PidsKnown
  <2>2. shim.pc = "run" => p # shim.pid
    BY <1>2, <2>1 DEF ShimInv, PidsKnown, NoProc
  <2>3. shim.pc = "run" => proc'[shim.pid].id = shim.id
    BY <1>2, <2>1, <2>2, Zenon DEF ShimInv, PidsKnown
  <2>4. proc'[shim.pid] = NoProc \/ proc'[shim.pid].id >= shim.id
    BY <1>2, <2>1 DEF ShimInv, PidsKnown
  <2>5. \A q \in Pid : proc'[q].id = shim.id => q = shim.pid
    BY <1>2, <2>1 DEF ShimInv, PidsKnown
  <2>6. shim.id \in 1..used'.procs
    BY <1>2, <2>1
  <2> QED
    BY <1>1, <2>1, <2>3, <2>4, <2>5, <2>6, Zenon
    DEF ShimInv, PidsKnown, QueueKnown, LogKnown, Recent
<1>7. Shows'
  BY <1>1, Zenon DEF ShimInv, Shows, Spawned, Recent
<1> QED
  BY <1>3, <1>4, <1>5, <1>6, <1>7, Zenon DEF ShimInv

LEMMA StepExitOther ==
  ASSUME ShimInv, NEW p \in Pid, ExitOther(p)
  PROVE  ShimInv'
<1>1. /\ proc' = [proc EXCEPT ![p] = NoProc] /\ ~(shim.pc = "run" /\ shim.pid = p)
      /\ UNCHANGED <<now, queue, hub, writing, made, up, file, log, shim, used>>
  BY Zenon DEF ExitOther, agent
<1>2. /\ proc' \in [Pid -> [id : Nat, agent : AnyAgent]] /\ proc'[p] = NoProc /\ NoProc.id = 0
      /\ \A q \in Pid \ {p} : proc'[q] = proc[q]
  BY <1>1, EmptyTyped, Zenon DEF ShimInv, Typed, NoProc
<1>3. Typed' /\ Stored' /\ Appended' /\ Shows'
  BY <1>1, <1>2, Zenon DEF ShimInv, Typed, Stored, Agrees, Appended, Shows, Spawned, Recent
<1>4. Aged'
  <2>1. used.procs \in Nat
    BY DEF ShimInv, Typed
  <2> QED
    BY <1>1, <1>2, <2>1 DEF ShimInv, Aged
<1>5. PidsKnown'
  <2> SUFFICES ASSUME Spawned PROVE PidsKnown'
    BY <1>1, Zenon DEF PidsKnown, Spawned
  <2>1. shim.pid \in Pid /\ shim.id \in 1..used.procs
    BY Zenon DEF ShimInv, PidsKnown
  <2>2. /\ shim.pc = "run" => proc'[shim.pid].id = shim.id
        /\ proc'[shim.pid] = NoProc \/ proc'[shim.pid].id >= shim.id
        /\ \A q \in Pid : proc'[q].id = shim.id => q = shim.pid
    BY <1>1, <1>2, <2>1 DEF ShimInv, PidsKnown
  <2> QED
    BY <1>1, <2>1, <2>2, Zenon DEF ShimInv, PidsKnown, QueueKnown, LogKnown, Recent
<1> QED
  BY <1>3, <1>4, <1>5, Zenon DEF ShimInv

LEMMA StepDeny ==
  ASSUME ShimInv, NEW p \in Pid, Deny(p)
  PROVE  ShimInv'
<1> DEFINE v == [n |-> used.denials + 1, pid |-> p, by |-> proc[p].id, agent |-> proc[p].agent]
<1>1. /\ queue' = Append(queue, v) /\ proc[p] # NoProc
      /\ used' = [used EXCEPT !.denials = @ + 1] /\ used.denials < MaxDenials
      /\ UNCHANGED <<now, proc, hub, writing, made, up, file, log, shim>>
  BY Zenon DEF Deny, Use
<1>2. v \in Denials /\ v.pid = p /\ v.by = proc[p].id
  BY DEF ShimInv, Typed, Denials, AnyAgent
<1> HIDE DEF v
<1>3. Typed /\ queue \in Seq(Denials) /\ Len(queue) \in Nat /\ Len(log) \in Nat
  BY DEF ShimInv, Typed
<1>4. queue' \in Seq(Denials) /\ Range(queue') = Range(queue) \cup {v}
  BY <1>1, <1>2, <1>3, RangeAppend
<1>5. Len(queue') = Len(queue) + 1
  BY <1>1, <1>2, <1>3
<1>6. /\ used' \in [procs : 0..MaxProcs, denials : 0..MaxDenials, crashes : 0..MaxCrashes]
      /\ used'.denials = used.denials + 1 /\ used'.procs = used.procs /\ used.denials \in Nat
  <2>1. used \in [procs : 0..MaxProcs, denials : 0..MaxDenials, crashes : 0..MaxCrashes]
    BY <1>3, Zenon DEF Typed
  <2>2. used.denials \in Nat /\ MaxDenials \in Nat /\ used.denials + 1 \in 0..MaxDenials
    BY <1>1, <2>1, Constants, SMTT(30)
  <2> QED
    BY <1>1, <2>1, <2>2, Zenon
<1>7. Typed'
  <2>1. Len(log) + Len(queue') <= used'.denials
    BY <1>3, <1>5, <1>6 DEF Typed
  <2> QED
    BY <1>1, <1>3, <1>4, <1>6, <2>1, Zenon DEF Typed
<1>8. Stored' /\ Appended' /\ Shows'
  BY <1>1, Zenon DEF ShimInv, Stored, Agrees, Appended, Shows, Spawned, Recent
<1>9. Aged'
  BY <1>1, <1>2, <1>4, <1>6, Zenon DEF ShimInv, Aged
<1>10. PidsKnown'
  <2> SUFFICES ASSUME Spawned PROVE PidsKnown'
    BY <1>1, Zenon DEF PidsKnown, Spawned
  <2>1. QueueKnown(v)
    BY <1>1, <1>2, Zenon DEF ShimInv, PidsKnown, QueueKnown
  <2>2. \A w \in Range(queue') : QueueKnown(w)
    BY <1>4, <2>1, Zenon DEF ShimInv, PidsKnown
  <2> QED
    BY <1>1, <1>6, <2>2, Zenon DEF ShimInv, PidsKnown, QueueKnown, LogKnown, Recent
<1> QED
  BY <1>7, <1>8, <1>9, <1>10, Zenon DEF ShimInv

-----------------------------------------------------------------------------
(* The agent.                                                                 *)

\* Hub.Record keeps the newest, in all its lists.
LEMMA ListKept ==
  ASSUME NEW all \in Seq(Decisions), NEW n \in Nat \ {0}, NEW d \in Decisions,
         NEW kept, kept = Newest(Append(Newest(all, n), d), n)
  PROVE  /\ kept \in Seq(Decisions) /\ kept = Newest(Append(all, d), n)
         /\ Append(all, d) \in Seq(Decisions) /\ Range(Append(all, d)) = Range(all) \cup {d}
<1>1. n \in Nat
  BY Zenon
<1>2. Append(all, d) \in Seq(Decisions) /\ Range(Append(all, d)) = Range(all) \cup {d}
  BY RangeAppend, ZenonT(60)
<1>3. kept = Newest(Append(all, d), n)
  BY NewestAppend, Zenon
<1>4. Newest(Append(all, d), n) \in Seq(Decisions)
  BY <1>1, <1>2, NewestIs, Zenon
<1> QED
  BY <1>2, <1>3, <1>4, Zenon

\* What Record does to the history.
Add(m, d) == [m EXCEPT !.byAgent[d.agent] = Append(@, d), !.recent = Append(@, d)]

LEMMA KeepNewest ==
  ASSUME NEW h \in HubType, NEW m \in HubType, NEW d \in Decisions, Agrees(h, m)
  PROVE  /\ Keep(h, d) \in HubType /\ Add(m, d) \in HubType /\ Agrees(Keep(h, d), Add(m, d))
         /\ Range(Add(m, d).recent) = Range(m.recent) \cup {d}
         /\ \A a \in AnyAgent : Range(Add(m, d).byAgent[a]) \subseteq Range(m.byAgent[a]) \cup {d}
<1> DEFINE b == d.agent
           lh == Newest(Append(h.byAgent[b], d), MaxPerAgent)
           rh == Newest(Append(h.recent, d), 4 * MaxPerAgent)
           lm == Append(m.byAgent[b], d)
           rm == Append(m.recent, d)
           h2 == Keep(h, d)
           m2 == Add(m, d)
<1>1. b \in AnyAgent
  BY Zenon DEF Decisions, AnyAgent
<1>2. /\ h.byAgent \in [AnyAgent -> Seq(Decisions)] /\ m.byAgent \in [AnyAgent -> Seq(Decisions)]
      /\ h.recent \in Seq(Decisions) /\ m.recent \in Seq(Decisions)
  BY Zenon DEF HubType
<1>3. m.byAgent[b] \in Seq(Decisions) /\ h.byAgent[b] = Newest(m.byAgent[b], MaxPerAgent)
  BY <1>1, <1>2, Zenon DEF Agrees
<1>4. MaxPerAgent \in Nat \ {0} /\ 4 * MaxPerAgent \in Nat \ {0}
  BY Constants, Zenon
<1>5. /\ lh \in Seq(Decisions) /\ lh = Newest(lm, MaxPerAgent)
      /\ lm \in Seq(Decisions) /\ Range(lm) = Range(m.byAgent[b]) \cup {d}
  BY <1>3, <1>4, ListKept, Zenon
<1>6. /\ rh \in Seq(Decisions) /\ rh = Newest(rm, 4 * MaxPerAgent)
      /\ rm \in Seq(Decisions) /\ Range(rm) = Range(m.recent) \cup {d}
  BY <1>2, <1>4, ListKept, Zenon DEF Agrees
<1>7. h2 = [h EXCEPT !.byAgent = [h.byAgent EXCEPT ![b] = lh], !.recent = rh]
  BY <1>1, <1>2, Zenon DEF Keep, HubType
<1>8. m2 = [m EXCEPT !.byAgent = [m.byAgent EXCEPT ![b] = lm], !.recent = rm]
  BY <1>1, <1>2, Zenon DEF Add, HubType
<1> HIDE DEF lh, rh, lm, rm, b, h2, m2
<1>9. /\ h2 \in HubType /\ h2.recent = rh /\ h2.byAgent[b] = lh
      /\ \A a \in AnyAgent \ {b} : h2.byAgent[a] = h.byAgent[a]
  <2> DEFINE F == [h.byAgent EXCEPT ![b] = lh]
  <2>1. F \in [AnyAgent -> Seq(Decisions)] /\ F[b] = lh /\ \A a \in AnyAgent \ {b} : F[a] = h.byAgent[a]
    BY <1>1, <1>2, <1>5, Zenon
  <2>2. h2 = [h EXCEPT !.byAgent = F, !.recent = rh]
    BY <1>7, Zenon
  <2> HIDE DEF F
  <2>3. h2 \in HubType /\ h2.recent = rh /\ h2.byAgent = F
    BY <1>6, <2>1, <2>2, Zenon DEF HubType
  <2> QED
    BY <2>1, <2>3, Zenon
<1>10. /\ m2 \in HubType /\ m2.recent = rm /\ m2.byAgent[b] = lm
       /\ \A a \in AnyAgent \ {b} : m2.byAgent[a] = m.byAgent[a]
  <2> DEFINE F == [m.byAgent EXCEPT ![b] = lm]
  <2>1. F \in [AnyAgent -> Seq(Decisions)] /\ F[b] = lm /\ \A a \in AnyAgent \ {b} : F[a] = m.byAgent[a]
    BY <1>1, <1>2, <1>5, Zenon
  <2>2. m2 = [m EXCEPT !.byAgent = F, !.recent = rm]
    BY <1>8, Zenon
  <2> HIDE DEF F
  <2>3. m2 \in HubType /\ m2.recent = rm /\ m2.byAgent = F
    BY <1>6, <2>1, <2>2, Zenon DEF HubType
  <2> QED
    BY <2>1, <2>3, Zenon
<1>11. \A a \in AnyAgent : h2.byAgent[a] = Newest(m2.byAgent[a], MaxPerAgent)
  BY <1>5, <1>9, <1>10, Zenon DEF Agrees
<1>12. \A a \in AnyAgent : Range(m2.byAgent[a]) \subseteq Range(m.byAgent[a]) \cup {d}
  BY <1>5, <1>10, Zenon
<1> QED
  BY <1>6, <1>9, <1>10, <1>11, <1>12, Zenon DEF Agrees, h2, m2

LEMMA AppendToFile ==
  ASSUME file \in FileType, NEW d \in Decisions
  PROVE  AppendTo(file, d) \in FileType /\ Range(AppendTo(file, d).parsed) \subseteq Range(file.parsed) \cup {d}
<1> DEFINE longer == Append(file.parsed, d)
           shorter == SubSeq(file.parsed, 1, Len(file.parsed) - 1)
<1>1. file.parsed \in Seq(Decisions)
  BY Zenon DEF FileType
<1>2. longer \in Seq(Decisions) /\ Range(longer) = Range(file.parsed) \cup {d}
  BY <1>1, RangeAppend
<1>3. shorter \in Seq(Decisions) /\ Range(shorter) \subseteq Range(file.parsed)
  BY <1>1, RangeFront, Zenon
<1> HIDE DEF longer, shorter
<1>4. CASE ~file.open
  <2>1. AppendTo(file, d) = [file EXCEPT !.parsed = longer, !.open = TRUE, !.glued = FALSE]
    BY <1>4, Zenon DEF AppendTo, longer
  <2>2. AppendTo(file, d) \in FileType /\ AppendTo(file, d).parsed = longer
    BY <1>2, <2>1, Zenon DEF FileType
  <2> QED
    BY <1>2, <2>2, Zenon
<1>5. CASE file.open /\ ~file.glued
  <2>1. AppendTo(file, d) = [file EXCEPT !.parsed = shorter, !.glued = TRUE]
    BY <1>5, Zenon DEF AppendTo, shorter
  <2>2. AppendTo(file, d) \in FileType /\ AppendTo(file, d).parsed = shorter
    BY <1>3, <2>1, Zenon DEF FileType
  <2> QED
    BY <1>3, <2>2, Zenon
<1>6. CASE file.open /\ file.glued
  BY <1>6, Zenon DEF AppendTo
<1> QED
  BY <1>4, <1>5, <1>6, Zenon

\* A decision appended to the file is there, whole or glued to the one before,
\* and the others are where they were.
LEMMA AppendWritten ==
  ASSUME NEW f \in FileType, NEW l \in Seq(Decisions), NEW d \in Decisions,
         Lines(f, l, FALSE), Written(f, l)
  PROVE  Lines(AppendTo(f, d), Append(l, d), TRUE) /\ Written(AppendTo(f, d), Append(l, d))
<1> DEFINE g == AppendTo(f, d)
           m == Append(l, d)
           n == Len(l)
           k == Len(f.parsed)
<1>1. /\ n \in Nat /\ Len(m) = n + 1 /\ m[n + 1] = d /\ \A i \in 1..n : m[i] = l[i]
      /\ k \in Nat /\ f.parsed \in Seq(Decisions)
  BY DEF FileType
<1>2. f.cut \subseteq 0..n /\ (f.open <=> n \in f.cut)
  BY Zenon DEF Lines
<1>3. g.open /\ g.cut = f.cut
  BY Zenon DEF AppendTo, FileType
<1>4. ASSUME NEW i \in 1..n, WholeIn(g, m, i) PROVE WholeIn(f, l, i) /\ i \notin f.cut
  BY <1>1, <1>3, <1>4 DEF WholeIn
<1>5. Lines(g, m, TRUE)
  <2>1. f.cut \subseteq 0..(n + 1) /\ n + 1 \notin f.cut
    BY <1>1, <1>2
  <2> QED
    BY <1>1, <1>3, <2>1, Zenon DEF Lines
<1>6. CASE ~f.open
  <2>1. /\ Len(g.parsed) = k + 1 /\ g.parsed[k + 1] = d /\ \A j \in 1..k : g.parsed[j] = f.parsed[j]
    <3>1. g.parsed = Append(f.parsed, d)
      BY <1>6, Zenon DEF AppendTo, FileType
    <3> QED
      BY <1>1, <3>1
  <2> HIDE DEF g, m, n, k
  <2>2. ASSUME NEW i \in 1..n, WholeIn(g, m, i) PROVE \E j \in 1..Len(g.parsed) : At(g, m, i, j)
    <3>1. PICK j \in 1..k : At(f, l, i, j)
      BY <1>4, <2>2, Zenon DEF Written, n, k
    <3>2. f.parsed[j] = l[i] /\ k - j <= n - i
      BY <3>1, Zenon DEF At, n, k
    <3>3. j \in 1..Len(g.parsed) /\ At(g, m, i, j)
      BY <1>1, <2>1, <3>2 DEF At
    <3> QED
      BY <3>3, Zenon
  <2>3. At(g, m, n + 1, k + 1) /\ k + 1 \in 1..Len(g.parsed)
    BY <1>1, <2>1 DEF At
  <2>4. \A i \in 1..Len(m) : i \in 1..n \/ i = n + 1
    BY <1>1
  <2> QED
    BY <1>5, <2>2, <2>3, <2>4, Zenon DEF Written, g, m
<1>7. CASE f.open
  <2>1. \A i \in 1..Len(m) : WholeIn(g, m, i) => i \in 1..n /\ i # n
    <3>1. n \in f.cut
      BY <1>2, <1>7, Zenon
    <3> QED
      BY <1>1, <1>3, <3>1 DEF WholeIn
  <2>2. ASSUME NEW i \in 1..n, i # n, WholeIn(g, m, i) PROVE \E j \in 1..Len(g.parsed) : At(g, m, i, j)
    <3>1. PICK j \in 1..k : At(f, l, i, j)
      BY <1>4, <2>2, Zenon DEF Written
    <3>2. CASE f.glued
      <4>1. g = f
        BY <1>7, <3>2, Zenon DEF AppendTo
      <4>2. j \in 1..Len(g.parsed) /\ At(g, m, i, j)
        <5> HIDE DEF g, m
        <5> QED
          BY <1>1, <3>1, <3>2, <4>1 DEF At
      <4> QED
        BY <4>2, Zenon
    <3>3. CASE ~f.glued
      <4>1. f.parsed[j] = l[i] /\ k - j <= n - i /\ j < k
        BY <1>1, <1>7, <2>2, <3>1, <3>3 DEF At
      <4>2. g.parsed = SubSeq(f.parsed, 1, k - 1) /\ g.glued
        BY <1>7, <3>3, Zenon DEF AppendTo, FileType
      <4>3. Len(g.parsed) = k - 1 /\ g.parsed[j] = f.parsed[j]
        BY <1>1, <4>1, <4>2
      <4> HIDE DEF g, m, n, k
      <4>4. j \in 1..Len(g.parsed) /\ At(g, m, i, j)
        BY <1>1, <4>1, <4>2, <4>3 DEF At
      <4> QED
        BY <4>4, Zenon
    <3> QED
      BY <3>2, <3>3, Zenon
  <2> QED
    BY <1>5, <2>1, <2>2, Zenon DEF Written
<1> QED
  BY <1>6, <1>7, Zenon

LEMMA StepRecord ==
  ASSUME ShimInv, Record
  PROVE  ShimInv'
<1> DEFINE v == Head(queue)
           made2(a, d) == [made EXCEPT !.byAgent[a] = Append(@, d), !.recent = Append(@, d)]
<1>1. Typed /\ Stored /\ Appended /\ Aged /\ PidsKnown /\ Shows
  BY Zenon DEF ShimInv
<1>2. /\ queue # << >> /\ ~writing /\ queue' = Tail(queue) /\ writing' = TRUE /\ UNCHANGED <<now, proc, up, shim, used>>
      /\ \E a \in {v.agent, proc[v.pid].agent} :
           LET d == [n |-> v.n, pid |-> v.pid, by |-> v.by, agent |-> a, time |-> now]
           IN  hub' = Keep(hub, d) /\ file' = AppendTo(file, d) /\ log' = Append(log, d) /\ made' = made2(a, d)
  BY Zenon DEF Record
<1>3. /\ queue' \in Seq(Denials) /\ Range(queue') \subseteq Range(queue)
      /\ v \in Range(queue) /\ v \in Denials
  BY <1>1, <1>2, RangeTail, Zenon DEF Typed
<1>4. Len(queue) \in Nat /\ Len(queue) > 0 /\ Len(queue') = Len(queue) - 1
  BY <1>1, <1>2 DEF Typed
<1> HIDE DEF v
<1>5. PICK a \in {v.agent, proc[v.pid].agent} :
         LET d == [n |-> v.n, pid |-> v.pid, by |-> v.by, agent |-> a, time |-> now]
         IN  hub' = Keep(hub, d) /\ file' = AppendTo(file, d) /\ log' = Append(log, d) /\ made' = made2(a, d)
  BY <1>2, Zenon
<1> DEFINE d == [n |-> v.n, pid |-> v.pid, by |-> v.by, agent |-> a, time |-> now]
<1>6. a \in AnyAgent /\ v.pid \in Pid /\ v.n \in Nat /\ v.by \in Nat /\ now \in Nat
  BY <1>1, <1>3, Constants DEF Typed, Denials, AnyAgent
<1>7. d \in Decisions /\ d.n = v.n /\ d.pid = v.pid /\ d.by = v.by /\ d.agent = a /\ d.time = now
  BY <1>6, Zenon DEF Decisions, AnyAgent
<1>8. hub' = Keep(hub, d) /\ file' = AppendTo(file, d) /\ log' = Append(log, d) /\ made' = made2(a, d)
  BY <1>5, Zenon
<1> HIDE DEF d
<1>9. log' \in Seq(Decisions) /\ Range(log') = Range(log) \cup {d} /\ Len(log') = Len(log) + 1 /\ Len(log) \in Nat
  BY <1>1, <1>7, <1>8, RangeAppend DEF Typed
<1>10. /\ hub' \in HubType /\ made' \in HubType /\ Agrees(hub', made')
       /\ Range(made'.recent) = Range(made.recent) \cup {d}
       /\ \A c \in AnyAgent : Range(made'.byAgent[c]) \subseteq Range(made.byAgent[c]) \cup {d}
  <2>1. hub \in HubType /\ made \in HubType /\ Agrees(hub, made)
    BY <1>1, Zenon DEF Typed, Stored
  <2>2. made' = Add(made, d)
    BY <1>7, <1>8, Zenon DEF Add
  <2>3. /\ Keep(hub, d) \in HubType /\ Add(made, d) \in HubType /\ Agrees(Keep(hub, d), Add(made, d))
        /\ Range(Add(made, d).recent) = Range(made.recent) \cup {d}
        /\ \A c \in AnyAgent : Range(Add(made, d).byAgent[c]) \subseteq Range(made.byAgent[c]) \cup {d}
    BY <1>7, <2>1, KeepNewest, Zenon
  <2> QED
    BY <1>8, <2>2, <2>3, Zenon
<1>11. file' \in FileType /\ Range(file'.parsed) \subseteq Range(file.parsed) \cup {d}
  BY <1>1, <1>7, <1>8, AppendToFile, Zenon DEF Typed
<1>12. Typed'
  <2>1. Len(log') + Len(queue') <= used'.denials
    BY <1>1, <1>2, <1>4, <1>9 DEF Typed
  <2> QED
    BY <1>1, <1>2, <1>3, <1>9, <1>10, <1>11, <2>1, Zenon DEF Typed
<1>13. Stored'
  BY <1>1, <1>2, <1>9, <1>10, <1>11, Zenon DEF Stored, Agrees
<1>14. Aged'
  BY <1>1, <1>2, <1>3, <1>6, <1>7, <1>9 DEF Aged
<1>15. PidsKnown'
  <2> SUFFICES ASSUME Spawned PROVE PidsKnown'
    BY <1>2, Zenon DEF PidsKnown, Spawned
  <2>1. QueueKnown(v)
    BY <1>1, <1>3, Zenon DEF PidsKnown
  <2>2. now + Grace >= shim.since
    BY <1>1, <1>6, Constants, SMTT(30) DEF Aged, Typed, ShimType
  <2>3. LogKnown(d)
    BY <1>7, <2>1, <2>2, Zenon DEF QueueKnown, LogKnown, Recent
  <2>4. \A e \in Range(log') : LogKnown(e)
    BY <1>1, <1>9, <2>3, Zenon DEF PidsKnown
  <2>5. \A w \in Range(queue') : QueueKnown(w)
    BY <1>1, <1>3, Zenon DEF PidsKnown
  <2> QED
    BY <1>1, <1>2, <2>4, <2>5, Zenon DEF PidsKnown, QueueKnown, LogKnown, Recent
<1>16. Shows'
  BY <1>1, <1>2, <1>9, Zenon DEF Shows, Spawned, Recent
<1>17. Appended'
  <2>1. file \in FileType /\ log \in Seq(Decisions) /\ Lines(file, log, FALSE) /\ Written(file, log)
    BY <1>1, <1>2, Zenon DEF Typed, Appended
  <2>2. Lines(AppendTo(file, d), Append(log, d), TRUE) /\ Written(AppendTo(file, d), Append(log, d))
    BY <1>7, <2>1, AppendWritten, Zenon
  <2> QED
    BY <1>2, <1>8, <2>2, Zenon DEF Appended
<1> QED
  BY <1>12, <1>13, <1>14, <1>15, <1>16, <1>17, Zenon DEF ShimInv

\* The rest of what the agent does leaves the log alone.
LEMMA StepAgent ==
  ASSUME ShimInv, EndLine \/ Crash \/ Restart
  PROVE  ShimInv'
<1>1. Typed /\ Stored /\ Appended /\ Aged /\ PidsKnown /\ Shows
  BY Zenon DEF ShimInv
<1>2. UNCHANGED <<now, proc, log, shim>> /\ Shows'
  BY <1>1, Zenon DEF EndLine, Crash, Restart, Shows, Spawned, Recent
<1>3. queue' \in Seq(Denials) /\ Range(queue') \subseteq Range(queue) /\ Len(log) + Len(queue') <= used.denials
  <2>1. CASE UNCHANGED queue
    BY <1>1, <2>1, Zenon DEF Typed
  <2>2. CASE queue' = << >>
    <3>1. Len(queue) \in Nat /\ Len(log) \in Nat /\ used.denials \in Nat
      BY <1>1 DEF Typed
    <3> QED
      BY <1>1, <2>2, <3>1 DEF Typed, Range
  <2> QED
    BY <2>1, <2>2, Zenon DEF EndLine, Crash, Restart
<1>4. file' \in FileType /\ file'.parsed = file.parsed
  <2>1. CASE file' = [file EXCEPT !.open = FALSE]
    BY <1>1, <2>1, Zenon DEF Typed, FileType
  <2>2. CASE file' = [file EXCEPT !.cut = IF writing THEN @ \cup {Len(log)} ELSE @]
    <3>1. file.cut \cup {Len(log)} \in SUBSET Nat
      BY <1>1 DEF Typed, FileType
    <3> QED
      BY <1>1, <2>2, <3>1, Zenon DEF Typed, FileType
  <2>3. CASE UNCHANGED file
    BY <1>1, <2>3, Zenon DEF Typed
  <2> QED
    BY <2>1, <2>2, <2>3, Zenon DEF EndLine, Crash, Restart
<1>5. UNCHANGED <<hub, made>> \/ (hub' = EmptyHub /\ made' = EmptyHub)
  BY Zenon DEF EndLine, Crash, Restart
<1>6. /\ used' \in [procs : 0..MaxProcs, denials : 0..MaxDenials, crashes : 0..MaxCrashes]
      /\ used'.procs = used.procs /\ used'.denials = used.denials
  <2>1. used \in [procs : 0..MaxProcs, denials : 0..MaxDenials, crashes : 0..MaxCrashes]
    BY <1>1, Zenon DEF Typed
  <2>2. CASE UNCHANGED used
    BY <2>1, <2>2, Zenon
  <2>3. CASE used' = [used EXCEPT !.crashes = @ + 1] /\ used.crashes < MaxCrashes
    BY <2>1, <2>3, Constants
  <2> QED
    BY <2>2, <2>3, Zenon DEF EndLine, Crash, Restart, Use
<1>7. up' \in BOOLEAN /\ writing' \in BOOLEAN
  BY <1>1, Zenon DEF EndLine, Crash, Restart, Typed
<1>8. Typed'
  BY <1>1, <1>2, <1>3, <1>4, <1>5, <1>6, <1>7, EmptyTyped, Zenon DEF Typed
<1>9. Stored'
  <2>1. CASE UNCHANGED <<hub, made>>
    BY <1>1, <1>2, <1>4, <2>1, Zenon DEF Stored, Agrees
  <2>2. CASE hub' = EmptyHub /\ made' = EmptyHub
    BY <1>1, <1>2, <1>4, <2>2, EmptyStored, Zenon DEF Stored, Agrees
  <2> QED
    BY <1>5, <2>1, <2>2, Zenon
<1>10. Aged'
  BY <1>1, <1>2, <1>3, <1>6, Zenon DEF Aged
<1>11. PidsKnown'
  BY <1>1, <1>2, <1>3, <1>6, Zenon DEF PidsKnown, Spawned, QueueKnown, LogKnown, Recent
<1>12. Appended'
  <2> DEFINE n == Len(log)
  <2>1. file \in FileType /\ n \in Nat /\ Lines(file, log, writing) /\ Written(file, log)
    BY <1>1 DEF Typed, Appended
  <2>2. CASE EndLine
    <3>1. writing /\ ~writing' /\ file' = [file EXCEPT !.open = FALSE]
      BY <1>1, <2>2, Zenon DEF EndLine
    <3>2. ~file'.open /\ file'.cut = file.cut /\ file'.parsed = file.parsed
      BY <2>1, <3>1, Zenon DEF FileType
    <3>3. Lines(file', log, writing')
      BY <2>1, <3>1, <3>2, Zenon DEF Lines
    <3>4. Written(file', log)
      BY <2>1, <3>2, Zenon DEF Written, WholeIn, At
    <3> QED
      BY <1>2, <3>3, <3>4, Zenon DEF Appended
  <2>3. CASE Crash /\ writing
    <3>1. ~writing' /\ file' = [file EXCEPT !.cut = file.cut \cup {n}]
      BY <1>1, <2>3, Zenon DEF Crash, Typed, FileType
    <3>2. /\ file'.open = file.open /\ file'.glued = file.glued /\ file'.parsed = file.parsed
          /\ file'.cut = file.cut \cup {n}
      BY <2>1, <3>1, Zenon DEF FileType
    <3>3. Lines(file', log, writing')
      BY <2>1, <2>3, <3>1, <3>2 DEF Lines
    <3>4. ASSUME NEW i \in 1..n, WholeIn(file', log, i) PROVE WholeIn(file, log, i)
      BY <3>2, <3>4, Zenon DEF WholeIn
    <3>5. Written(file', log)
      BY <2>1, <3>2, <3>4, Zenon DEF Written, At
    <3> QED
      BY <1>2, <3>3, <3>5, Zenon DEF Appended
  <2>4. CASE (Crash /\ ~writing) \/ Restart
    <3>1. writing' = writing
      BY <1>1, <2>4, Zenon DEF Crash, Restart, Typed
    <3>2. file' = file
      BY <2>1, <2>4, Zenon DEF Crash, Restart, FileType
    <3> QED
      BY <1>2, <2>1, <3>1, <3>2, Zenon DEF Appended
  <2> QED
    BY <2>2, <2>3, <2>4, Zenon
<1> QED
  BY <1>2, <1>8, <1>9, <1>10, <1>11, <1>12, Zenon DEF ShimInv

-----------------------------------------------------------------------------
(* The shim.                                                                  *)

LEMMA StepBegin ==
  ASSUME ShimInv, NEW a \in AnyAgent, ShimBegin(a)
  PROVE  ShimInv'
<1>1. /\ shim' = [NotRun EXCEPT !.pc = "begin", !.agent = a, !.since = now]
      /\ UNCHANGED <<now, proc, queue, hub, writing, made, up, file, log, used>>
  BY Zenon DEF ShimBegin, agent
<1>2. now \in Nat
  BY Constants DEF ShimInv, Typed
<1>3. /\ shim' \in ShimType /\ shim'.pc = "begin" /\ shim'.since = now /\ shim'.list = << >>
      /\ shim'.shown = None /\ shim'.early = {} /\ shim'.due = {}
  <2>1. NotRun \in ShimType
    BY EmptyTyped, Zenon
  <2>2. NotRun.list = << >> /\ NotRun.shown = None /\ NotRun.early = {} /\ NotRun.due = {}
    BY Zenon DEF NotRun
  <2> QED
    BY <1>1, <1>2, <2>1, <2>2, Zenon DEF ShimType
<1>4. Range(<< >>) = {}
  BY DEF Range
<1>5. Typed'
  BY <1>1, <1>3, Zenon DEF ShimInv, Typed
<1>6. Stored' /\ Appended'
  BY <1>1, <1>3, <1>4, Zenon DEF ShimInv, Stored, Agrees, Appended
<1>7. Aged' /\ PidsKnown' /\ Shows'
  BY <1>1, <1>2, <1>3 DEF ShimInv, Aged, PidsKnown, Spawned, Shows
<1> QED
  BY <1>5, <1>6, <1>7, Zenon DEF ShimInv

LEMMA StepSpawn ==
  ASSUME ShimInv, NEW p \in Pid, NEW a \in AnyAgent, Spawn(p, a)
  PROVE  ShimInv'
<1> DEFINE alien == {v.n : v \in {w \in Range(queue) : w.pid = p}} \cup
                    {d.n : d \in {e \in Range(log) : e.pid = p /\ Recent(e, shim.since)}}
<1>1. /\ shim.pc = "begin" /\ Start(p, a) /\ UNCHANGED <<now, queue, hub, writing, made, up, file, log>>
      /\ shim' = [shim EXCEPT !.pc = "run", !.pid = p, !.id = proc'[p].id, !.foreign = alien]
  BY Zenon DEF Spawn, agent
<1>2. /\ used' \in [procs : 0..MaxProcs, denials : 0..MaxDenials, crashes : 0..MaxCrashes]
      /\ used'.procs = used.procs + 1 /\ used'.denials = used.denials /\ used.procs \in Nat
      /\ proc' \in [Pid -> [id : Nat, agent : AnyAgent]]
      /\ proc[p] = NoProc /\ proc'[p].id = used.procs + 1
      /\ \A q \in Pid \ {p} : proc'[q] = proc[q]
      /\ \A q \in Pid : proc[q].id \in Nat /\ proc[q].id <= used.procs /\ proc'[q].id <= used'.procs
  BY <1>1, StartTyped, Zenon
<1>3. Range(queue) \subseteq Denials /\ Range(log) \subseteq Decisions /\ shim \in ShimType
  BY RangeType, Zenon DEF ShimInv, Typed
<1>4. /\ \A v \in Range(queue) : v.by \in Nat /\ v.by <= used.procs /\ v.n \in Nat
      /\ \A d \in Range(log) : d.by \in Nat /\ d.by <= used.procs /\ d.n \in Nat
  BY <1>3, Zenon DEF ShimInv, Aged, Denials, Decisions
<1>5. /\ alien \in SUBSET Nat
      /\ \A v \in Range(queue) : v.pid = p => v.n \in alien
      /\ \A d \in Range(log) : d.pid = p /\ Recent(d, shim.since) => d.n \in alien
  BY <1>4, Zenon
<1> HIDE DEF alien
<1>6. /\ shim' \in ShimType /\ shim'.pc = "run" /\ shim'.pid = p /\ shim'.id = used.procs + 1
      /\ shim'.foreign = alien
      /\ shim'.since = shim.since /\ shim'.list = shim.list /\ shim'.shown = shim.shown
      /\ shim'.early = shim.early /\ shim'.due = shim.due
  BY <1>1, <1>2, <1>3, <1>5, Zenon DEF ShimType
<1>7. Typed'
  BY <1>1, <1>2, <1>6, Zenon DEF ShimInv, Typed
<1>8. Stored' /\ Appended'
  BY <1>1, <1>6, Zenon DEF ShimInv, Stored, Agrees, Appended
<1>9. Aged'
  <2>1. /\ \A v \in Range(queue) : v.by <= used'.procs
        /\ \A d \in Range(log) : d.by <= used'.procs
    BY <1>2, <1>4
  <2> QED
    BY <1>1, <1>2, <1>6, <2>1, Zenon DEF ShimInv, Aged
<1>10. PidsKnown'
  <2>1. \A v \in Range(queue) : QueueKnown(v)'
    BY <1>2, <1>4, <1>5, <1>6 DEF QueueKnown
  <2>2. \A d \in Range(log) : LogKnown(d)'
    BY <1>2, <1>4, <1>5, <1>6 DEF LogKnown, Recent
  <2>3. \A q \in Pid : proc'[q].id = shim'.id => q = shim'.pid
    BY <1>2, <1>6
  <2>4. shim'.id \in 1..used'.procs
    BY <1>2, <1>6
  <2> QED
    BY <1>1, <1>2, <1>6, <2>1, <2>2, <2>3, <2>4, Zenon DEF PidsKnown
<1>11. Shows'
  <2>1. shim.shown = None /\ shim.early = {} /\ shim.due \subseteq {}
    BY <1>1, Zenon DEF ShimInv, Shows, Spawned
  <2> QED
    BY <1>6, <2>1, Zenon DEF Shows
<1> QED
  BY <1>7, <1>8, <1>9, <1>10, <1>11, Zenon DEF ShimInv

\* The steps after which the shim is still about the same command.
SameCommand ==
  /\ Spawned /\ shim' \in ShimType /\ shim'.pc \notin {"off", "begin", "run"}
  /\ shim'.pid = shim.pid /\ shim'.id = shim.id /\ shim'.since = shim.since /\ shim'.foreign = shim.foreign
  /\ Range(shim'.list) \subseteq Range(log)
  /\ UNCHANGED <<now, queue, hub, writing, made, up, file, log, used>>

LEMMA StepSame ==
  ASSUME ShimInv, SameCommand, UNCHANGED proc
  PROVE  Typed' /\ Stored' /\ Appended' /\ Aged' /\ PidsKnown'
<1>1. Typed'
  BY Zenon DEF ShimInv, SameCommand, Typed
<1>2. Stored' /\ Appended'
  BY Zenon DEF ShimInv, SameCommand, Stored, Agrees, Appended
<1>3. Aged'
  BY Zenon DEF ShimInv, SameCommand, Aged
<1>4. PidsKnown'
  <2>1. \A v \in Range(queue) : QueueKnown(v)'
    BY Zenon DEF ShimInv, PidsKnown, SameCommand, QueueKnown
  <2>2. \A d \in Range(log) : LogKnown(d)'
    BY Zenon DEF ShimInv, PidsKnown, SameCommand, LogKnown, Recent
  <2> QED
    BY <2>1, <2>2, Zenon DEF ShimInv, PidsKnown, SameCommand
<1> QED
  BY <1>1, <1>2, <1>3, <1>4, Zenon

LEMMA StepEnds ==
  ASSUME ShimInv, NEW failed \in BOOLEAN, CommandEnds(failed)
  PROVE  ShimInv'
<1>1. /\ shim.pc = "run" /\ proc' = [proc EXCEPT ![shim.pid] = NoProc]
      /\ UNCHANGED <<now, queue, hub, writing, made, up, file, log, used>>
  BY Zenon DEF CommandEnds, agent
<1>2. shim \in ShimType /\ now \in Nat /\ now + Wait \in Nat
  BY Constants DEF ShimInv, Typed
<1>3. {d \in Range(log) : d.by = shim.id} \subseteq Decisions
  BY RangeType, Zenon DEF ShimInv, Typed
<1>4. SameCommand /\ shim'.shown = shim.shown /\ shim'.due = shim.due
  <2>1. CASE failed
    <3>1. shim' = [shim EXCEPT !.pc = "file", !.deadline = now + Wait,
                               !.early = {d \in Range(log) : d.by = shim.id}]
      BY <2>1, Zenon DEF CommandEnds
    <3> QED
      BY <1>1, <1>2, <1>3, <3>1, Zenon DEF ShimInv, Stored, SameCommand, Spawned, ShimType
  <2>2. CASE ~failed
    <3>1. shim' = [shim EXCEPT !.pc = "done"]
      BY <2>2, Zenon DEF CommandEnds
    <3> QED
      BY <1>1, <1>2, <3>1, Zenon DEF ShimInv, Stored, SameCommand, Spawned, ShimType
  <2> QED
    BY <2>1, <2>2, Zenon
<1>5. shim'.pc \in {"file", "done"} /\ shim'.early \subseteq {d \in Range(log) : d.by = shim.id}
  <2>1. shim.early = {}
    BY <1>1, Zenon DEF ShimInv, Shows
  <2> QED
    BY <1>2, <2>1, Zenon DEF CommandEnds, ShimType
<1>6. /\ proc' \in [Pid -> [id : Nat, agent : AnyAgent]] /\ proc'[shim.pid] = NoProc /\ NoProc.id = 0
      /\ \A q \in Pid \ {shim.pid} : proc'[q] = proc[q] /\ shim.pid \in Pid /\ shim.id \in 1..used.procs
  <2>1. shim.pid \in Pid /\ shim.id \in 1..used.procs
    BY <1>1, Zenon DEF ShimInv, PidsKnown, Spawned
  <2> QED
    BY <1>1, <2>1, EmptyTyped, Zenon DEF ShimInv, Typed, NoProc
<1>7. Typed'
  BY <1>4, <1>6, Zenon DEF ShimInv, SameCommand, Typed
<1>8. Stored' /\ Appended'
  BY <1>4, Zenon DEF ShimInv, SameCommand, Stored, Agrees, Appended
<1>9. Aged'
  <2>1. used.procs \in Nat
    BY DEF ShimInv, Typed
  <2> QED
    BY <1>4, <1>6, <2>1 DEF ShimInv, SameCommand, Aged
<1>10. PidsKnown'
  <2>1. \A v \in Range(queue) : QueueKnown(v)'
    BY <1>4, Zenon DEF ShimInv, PidsKnown, SameCommand, QueueKnown
  <2>2. \A d \in Range(log) : LogKnown(d)'
    BY <1>4, Zenon DEF ShimInv, PidsKnown, SameCommand, LogKnown, Recent
  <2>3. shim.pid \in Pid /\ shim.id \in 1..used.procs /\ \A q \in Pid : proc[q].id = shim.id => q = shim.pid
    BY <1>4, Zenon DEF ShimInv, PidsKnown, SameCommand
  <2>4. \A q \in Pid : proc'[q].id = shim.id => q = shim.pid
    BY <1>6, <2>3, Zenon
  <2> QED
    BY <1>4, <1>6, <2>1, <2>2, <2>3, <2>4, Zenon DEF PidsKnown, SameCommand
<1>11. Shows'
  <2>1. shim.shown = None /\ shim.due \subseteq {}
    BY <1>1, Zenon DEF ShimInv, Shows
  <2>2. \A d \in shim'.early : d \in Range(log') /\ d.by = shim'.id
    BY <1>4, <1>5, Zenon DEF SameCommand
  <2>3. shim'.shown = None /\ shim'.due = {} /\ Spawned' /\ shim'.pc \notin {"run", "http", "match"}
    BY <1>4, <1>5, <2>1, Zenon DEF SameCommand, Spawned
  <2> QED
    BY <2>2, <2>3, Zenon DEF Shows
<1> QED
  BY <1>7, <1>8, <1>9, <1>10, <1>11, Zenon DEF ShimInv

\* The file tells all that is to be expected.
LEMMA FileTells ==
  ASSUME ShimInv
  PROVE  Filed \subseteq Range(RecentFromFile(FileLimit))
<1> DEFINE new == RecentFromFile(FileLimit)
           k == Len(file.parsed)
<1>1. /\ file.parsed \in Seq(Decisions) /\ k \in Nat /\ Len(log) \in Nat /\ FileLimit \in Nat
      /\ Written(file, log)
  BY Constants DEF ShimInv, Typed, FileType, Appended
<1>2. /\ new \in Seq(Decisions) /\ (k <= FileLimit => new = file.parsed)
      /\ k > FileLimit => Len(new) = FileLimit /\ \A x \in 1..FileLimit : new[x] = file.parsed[k - FileLimit + x]
  <2>1. new = Newest(file.parsed, FileLimit)
    BY Zenon DEF RecentFromFile
  <2>2. \A s \in Seq(Decisions), n \in Nat :
          /\ Newest(s, n) \in Seq(Decisions) /\ (Len(s) <= n => Newest(s, n) = s)
          /\ Len(s) > n => Len(Newest(s, n)) = n /\ \A x \in 1..n : Newest(s, n)[x] = s[Len(s) - n + x]
    BY NewestIs, Zenon
  <2> HIDE DEF new
  <2> QED
    BY <1>1, <2>1, <2>2, Zenon
<1> HIDE DEF new
<1>3. ASSUME NEW i \in 1..Len(log), i + FileLimit > Len(log), Whole(i) PROVE log[i] \in Range(new)
  <2>1. PICK j \in 1..k : At(file, log, i, j)
    BY <1>1, <1>3, Zenon DEF Written, Whole, WholeIn
  <2>2. file.parsed[j] = log[i] /\ k - j <= Len(log) - i
    BY <2>1, Zenon DEF At
  <2>3. CASE k <= FileLimit
    BY <1>1, <1>2, <2>2, <2>3 DEF Range
  <2>4. CASE k > FileLimit
    <3> DEFINE x == j - (k - FileLimit)
    <3>1. x \in 1..FileLimit /\ k - FileLimit + x = j
      <4>1. k \in Nat /\ Len(log) \in Nat /\ FileLimit \in Nat /\ i + FileLimit > Len(log)
        BY <1>1, <1>3, Zenon
      <4> HIDE DEF k
      <4> QED
        BY <2>2, <2>4, <4>1
    <3> HIDE DEF x
    <3>2. new[x] = log[i] /\ x \in DOMAIN new
      BY <1>2, <2>2, <2>4, <3>1
    <3> QED
      BY <3>2, Zenon DEF Range
  <2> QED
    BY <1>1, <2>3, <2>4
<1> QED
  BY <1>3, Zenon DEF Filed, new

LEMMA StepFile ==
  ASSUME ShimInv, CollectFile
  PROVE  ShimInv'
<1> DEFINE new == RecentFromFile(FileLimit)
<1>1. /\ shim.pc = "file" /\ UNCHANGED <<now, proc, queue, hub, writing, made, up, file, log, used>>
      /\ \/ shim' = [shim EXCEPT !.pc = "http", !.list = new, !.due = shim.early \cap Filed]
         \/ shim' = [shim EXCEPT !.pc = "http", !.due = {}]
  BY Zenon DEF CollectFile, ShimFrame, agent
<1>2. /\ shim \in ShimType /\ file.parsed \in Seq(Decisions) /\ Range(file.parsed) \subseteq Range(log)
      /\ Range(shim.list) \subseteq Range(log)
  BY Zenon DEF ShimInv, Typed, FileType, Stored
<1>3. new \in Seq(Decisions) /\ Range(new) \subseteq Range(log)
  <2>1. new \in Seq(Decisions) /\ Range(new) \subseteq Range(file.parsed)
    BY <1>2, Constants, NewestIs, Zenon DEF RecentFromFile
  <2> QED
    BY <1>2, <2>1, Zenon
<1>4. Filed \subseteq Range(new)
  BY FileTells, Zenon
<1> HIDE DEF new
<1>5. /\ SameCommand /\ shim'.pc = "http" /\ shim'.shown = shim.shown /\ shim'.early = shim.early
      /\ shim'.due \subseteq shim.early /\ shim'.due \subseteq Range(shim'.list)
  <2>1. CASE shim' = [shim EXCEPT !.pc = "http", !.list = new, !.due = shim.early \cap Filed]
    BY <1>1, <1>2, <1>3, <1>4, <2>1, Zenon DEF SameCommand, Spawned, ShimType
  <2>2. CASE shim' = [shim EXCEPT !.pc = "http", !.due = {}]
    BY <1>1, <1>2, <2>2, Zenon DEF SameCommand, Spawned, ShimType
  <2> QED
    BY <1>1, <2>1, <2>2, Zenon
<1>6. Shows'
  BY <1>1, <1>5, Zenon DEF ShimInv, Shows, SameCommand, Spawned, Recent
<1> QED
  BY <1>1, <1>5, <1>6, StepSame, Zenon DEF ShimInv

\* The hub answers with all that is to be expected.
LEMMA StepHTTP ==
  ASSUME ShimInv, CollectHTTP
  PROVE  ShimInv'
<1>1. shim.pc = "http" /\ UNCHANGED <<now, proc, queue, hub, writing, made, up, file, log, used>>
  BY Zenon DEF CollectHTTP, ShimFrame, agent
<1>2. /\ shim \in ShimType /\ shim.list \in Seq(Decisions) /\ Range(shim.list) \subseteq Range(log)
      /\ shim.agent \in AnyAgent /\ shim.due \subseteq Range(shim.list)
  BY <1>1, Zenon DEF ShimInv, Typed, ShimType, Stored, Shows
<1>3. FromHTTP = Askable
  BY <1>2, Zenon DEF ShimInv, Stored, Agrees, FromHTTP, Askable
<1>4. FromHTTP \in Seq(Decisions) /\ Range(FromHTTP) \subseteq Range(log)
  <2>1. /\ made.recent \in Seq(Decisions) /\ Range(made.recent) \subseteq Range(log)
        /\ made.byAgent[shim.agent] \in Seq(Decisions) /\ Range(made.byAgent[shim.agent]) \subseteq Range(log)
    BY <1>2, Zenon DEF ShimInv, Typed, HubType, Stored
  <2>2. MaxPerAgent \in Nat /\ 4 * MaxPerAgent \in Nat /\ HTTPLimit \in Nat
    BY Constants, Zenon
  <2>3. CASE shim.agent = None
    <3> DEFINE most == 4 * MaxPerAgent
               kept == Newest(made.recent, most)
    <3>1. kept \in Seq(Decisions) /\ Range(kept) \subseteq Range(made.recent)
      <4>1. most \in Nat
        BY <2>2, Zenon
      <4> HIDE DEF most
      <4> QED
        BY <2>1, <4>1, NewestIs, Zenon
    <3>2. Newest(kept, HTTPLimit) \in Seq(Decisions) /\ Range(Newest(kept, HTTPLimit)) \subseteq Range(kept)
      BY <2>2, <3>1, NewestIs, ZenonT(60)
    <3>3. FromHTTP = Newest(kept, HTTPLimit)
      BY <1>3, <2>3, Zenon DEF Askable
    <3> QED
      BY <2>1, <3>1, <3>2, <3>3, Zenon
  <2>4. CASE shim.agent # None
    <3> DEFINE kept == Newest(made.byAgent[shim.agent], MaxPerAgent)
    <3>1. kept \in Seq(Decisions) /\ Range(kept) \subseteq Range(made.byAgent[shim.agent])
      BY <2>1, <2>2, NewestIs, Zenon
    <3>2. FromHTTP = kept
      BY <1>3, <2>4, Zenon DEF Askable
    <3> QED
      BY <2>1, <3>1, <3>2, Zenon
  <2> QED
    BY <2>3, <2>4, Zenon
<1> DEFINE list == shim.list \o FromHTTP
<1>5. list \in Seq(Decisions) /\ Range(list) = Range(shim.list) \cup Range(FromHTTP)
  BY <1>2, <1>4, RangeConcat, ZenonT(60)
<1>6. /\ SameCommand /\ shim'.pc = "match" /\ shim'.shown = shim.shown /\ shim'.early = shim.early
      /\ shim'.due \subseteq shim.early /\ shim'.due \subseteq Range(shim'.list)
  <2>1. shim.due \subseteq shim.early
    BY Zenon DEF ShimInv, Shows
  <2>2. CASE shim' = [shim EXCEPT !.pc = "match"]
    BY <1>1, <1>2, <2>1, <2>2, Zenon DEF SameCommand, Spawned, ShimType
  <2>3. CASE shim' = [shim EXCEPT !.pc = "match", !.list = list,
                                  !.due = shim.due \cup (shim.early \cap Range(Askable))]
    <3> HIDE DEF list
    <3>1. Range(list) \subseteq Range(log) /\ Range(Askable) \subseteq Range(list)
      BY <1>2, <1>3, <1>4, <1>5, Zenon
    <3> QED
      BY <1>1, <1>2, <1>5, <2>1, <2>3, <3>1, Zenon DEF SameCommand, Spawned, ShimType
  <2> QED
    BY <2>2, <2>3, Zenon DEF CollectHTTP
<1>7. Shows'
  BY <1>1, <1>6, Zenon DEF ShimInv, Shows, SameCommand, Spawned, Recent
<1> QED
  BY <1>1, <1>6, <1>7, StepSame, Zenon DEF ShimInv

\* A decision that was due is found, whichever the shim takes.
LEMMA StepMatch ==
  ASSUME ShimInv, Match
  PROVE  ShimInv'
<1> DEFINE found == MatchPID(shim.list, shim.pid, shim.since)
<1>1. /\ shim.pc = "match" /\ UNCHANGED <<now, proc, queue, hub, writing, made, up, file, log, used>>
      /\ shim' = [shim EXCEPT !.pc = IF found # None \/ now > shim.deadline THEN "done" ELSE "file",
                              !.shown = found, !.list = << >>]
  BY Zenon DEF Match, ShimFrame, agent
<1>2. /\ shim \in ShimType /\ shim.list \in Seq(Decisions) /\ Range(shim.list) \subseteq Range(log)
      /\ shim.since \in Nat /\ now \in Nat /\ Range(log) \subseteq Decisions
  BY Constants, RangeType, SMTT(30) DEF ShimInv, Typed, ShimType, Stored
<1>3. \A d \in Range(shim.list) : d.time <= now
  BY <1>2, Zenon DEF ShimInv, Aged
<1>4. \/ found = None /\ ~ \E d \in Range(shim.list) : d.pid = shim.pid /\ Recent(d, shim.since)
      \/ found \in Range(shim.list) /\ found.pid = shim.pid /\ Recent(found, shim.since)
  BY <1>2, <1>3, MatchFinds, Zenon
<1> HIDE DEF found
<1>5. found = None => shim.due = {}
  <2> SUFFICES ASSUME found = None, NEW d \in shim.due PROVE FALSE
    BY Zenon
  <2>1. d \in Range(shim.list) /\ d \in Range(log) /\ d.by = shim.id
    BY <1>1, Zenon DEF ShimInv, Shows
  <2>2. LogKnown(d)
    BY <1>1, <2>1, Zenon DEF ShimInv, PidsKnown, Spawned
  <2>3. d.pid = shim.pid /\ Recent(d, shim.since)
    BY <2>1, <2>2, Zenon DEF LogKnown
  <2>4. None \notin Range(shim.list)
    BY <1>2, Constants, Zenon
  <2> QED
    BY <1>4, <2>1, <2>3, <2>4, Zenon
<1>6. Range(<< >>) = {} /\ << >> \in Seq(Decisions)
  BY DEF Range
<1>7. found \in Decisions \cup {None}
  BY <1>2, <1>4, Zenon
<1>8. /\ SameCommand /\ shim'.pc \in {"file", "done"} /\ shim'.shown = found /\ shim'.early = shim.early
      /\ shim'.due = shim.due
  BY <1>1, <1>2, <1>6, <1>7, Zenon DEF SameCommand, Spawned, ShimType
<1>9. Shows'
  <2>1. found # None => found \in Range(log) /\ found.pid = shim.pid /\ Recent(found, shim.since)
    BY <1>2, <1>4, Zenon
  <2> QED
    BY <1>1, <1>5, <1>8, <2>1, Zenon DEF ShimInv, Shows, SameCommand, Spawned, Recent
<1> QED
  BY <1>1, <1>8, <1>9, StepSame, Zenon DEF ShimInv

LEMMA StepTick ==
  ASSUME ShimInv, Tick
  PROVE  ShimInv'
<1>1. now < MaxTime /\ now' = now + 1 /\ UNCHANGED <<proc, queue, hub, writing, made, up, file, log, shim, used>>
  BY Zenon DEF Tick, agent
<1>2. now \in Nat /\ now' \in 0..MaxTime /\ now' \in Nat /\ now <= now' /\ shim.since \in Nat
  BY <1>1, Constants DEF ShimInv, Typed, ShimType
<1>3. Typed' /\ Stored' /\ Appended' /\ Shows'
  BY <1>1, <1>2, Zenon DEF ShimInv, Typed, Stored, Agrees, Appended, Shows, Spawned, Recent
<1>4. Aged'
  <2>1. \A d \in Range(log) : d.time \in Nat
    <3>1. Range(log) \subseteq Decisions
      BY RangeType, Zenon DEF ShimInv, Typed
    <3> QED
      BY <3>1, Zenon DEF Decisions
  <2> QED
    BY <1>1, <1>2, <2>1 DEF ShimInv, Aged
<1>5. PidsKnown'
  BY <1>1, Zenon DEF ShimInv, PidsKnown, Spawned, QueueKnown, LogKnown, Recent
<1> QED
  BY <1>3, <1>4, <1>5, Zenon DEF ShimInv

-----------------------------------------------------------------------------

LEMMA ShimStep ==
  ASSUME ShimInv, [Next]_vars
  PROVE  ShimInv'
<1>1. ASSUME NEW p \in Pid, NEW a \in AnyAgent, StartOther(p, a) \/ Spawn(p, a) PROVE ShimInv'
  BY <1>1, StepStartOther, StepSpawn, Zenon
<1>2. ASSUME NEW p \in Pid, ExitOther(p) \/ Deny(p) PROVE ShimInv'
  BY <1>2, StepExitOther, StepDeny, Zenon
<1>3. CASE Record
  BY <1>3, StepRecord, Zenon
<1>4. CASE EndLine \/ Crash \/ Restart
  BY <1>4, StepAgent, Zenon
<1>5. ASSUME NEW a \in AnyAgent, ShimBegin(a) PROVE ShimInv'
  BY <1>5, StepBegin, Zenon
<1>6. ASSUME NEW failed \in BOOLEAN, CommandEnds(failed) PROVE ShimInv'
  BY <1>6, StepEnds, Zenon
<1>7. CASE Poll
  BY <1>7, StepFile, StepHTTP, StepMatch, ZenonT(60) DEF Poll
<1>8. CASE Tick
  BY <1>8, StepTick, Zenon
<1>9. CASE UNCHANGED vars
  <2>1. UNCHANGED <<now, proc, queue, hub, writing, made, up, file, log, shim, used>>
    BY <1>9, Zenon DEF vars, agent
  <2> QED
    BY <2>1 DEF ShimInv, Typed, Stored, Agrees, Appended, Aged, PidsKnown, Spawned, QueueKnown, LogKnown, Recent, Shows
<1> QED
  BY <1>1, <1>2, <1>3, <1>4, <1>5, <1>6, <1>7, <1>8, <1>9, Zenon DEF Next, AnyAgent

\* Whatever the hub, the file and the shim hold was decided, the hub holds the
\* newest, and what is decided about the command's pid is the command's own or
\* known to be foreign, too old or later (Hub.Record, FindForPID).
THEOREM ShimInvariant == Spec => []ShimInv
<1>1. Init => ShimInv
  BY ShimInitial, Zenon
<1>2. ShimInv /\ [Next]_vars => ShimInv'
  BY ShimStep, Zenon
<1> QED
  BY <1>1, <1>2, PTL DEF Spec

LEMMA TypeState ==
  ASSUME ShimInv
  PROVE  TypeOK
<1>1. now \in 0..MaxTime /\ {up, writing} \subseteq BOOLEAN
  BY Zenon DEF ShimInv, Typed
<1>2. \A p \in Pid : proc[p] \in [id : 0..MaxProcs, agent : Agent \cup {None}]
  <2>1. used.procs \in 0..MaxProcs
    BY Zenon DEF ShimInv, Typed
  <2>2. ASSUME NEW p \in Pid PROVE proc[p].id \in 0..MaxProcs /\ proc[p] \in [id : Nat, agent : AnyAgent]
    BY <2>1, Constants DEF ShimInv, Typed, Aged
  <2> QED
    BY <2>2, Zenon DEF AnyAgent
<1>3. Len(hub.recent) <= 4 * MaxPerAgent /\ \A a \in AnyAgent : Len(hub.byAgent[a]) <= MaxPerAgent
  <2>1. made.recent \in Seq(Decisions) /\ \A a \in AnyAgent : made.byAgent[a] \in Seq(Decisions)
    BY Zenon DEF ShimInv, Typed, HubType
  <2>2. MaxPerAgent \in Nat /\ 4 * MaxPerAgent \in Nat
    BY Constants, Zenon
  <2>3. Len(Newest(made.recent, 4 * MaxPerAgent)) <= 4 * MaxPerAgent
    <3> DEFINE most == 4 * MaxPerAgent
    <3>1. most \in Nat
      BY <2>2, Zenon
    <3> HIDE DEF most
    <3>2. Len(Newest(made.recent, most)) <= most
      BY <2>1, <3>1, NewestIs, Zenon
    <3> QED
      BY <3>2, Zenon DEF most
  <2>4. \A a \in AnyAgent : Len(Newest(made.byAgent[a], MaxPerAgent)) <= MaxPerAgent
    BY <2>1, <2>2, NewestIs, Zenon
  <2> QED
    BY <2>3, <2>4, Zenon DEF ShimInv, Stored, Agrees
<1>4. Len(log) + Len(queue) <= MaxDenials
  BY Constants DEF ShimInv, Typed
<1>5. shim.pc \in {"off", "begin", "run", "file", "http", "match", "done"}
  BY Zenon DEF ShimInv, Typed, ShimType
<1> QED
  BY <1>1, <1>2, <1>3, <1>4, <1>5, Zenon DEF TypeOK, AnyAgent

\* The hub's lists keep within their bounds, and the variables have their types
\* (Hub.Record).
THEOREM TypeCorrect == Spec => []TypeOK
  BY ShimInvariant, TypeState, PTL

\* The shim shows its own command's decision, or that of a later process with its
\* pid, unless the denial was on its way or just decided when the command was
\* started (FindForPID, matchPID).
THEOREM OwnIsShown == Spec => []ShownIsOwn
<1>1. ShimInv => ShownIsOwn
  <2> SUFFICES ASSUME ShimInv, shim.shown # None
               PROVE  shim.shown.by >= shim.id \/ shim.shown.n \in shim.foreign
    BY Zenon DEF ShownIsOwn
  <2>1. Spawned /\ shim.shown \in Range(log) /\ shim.shown.pid = shim.pid /\ Recent(shim.shown, shim.since)
    BY Zenon DEF ShimInv, Shows
  <2>2. LogKnown(shim.shown)
    BY <2>1, Zenon DEF ShimInv, PidsKnown
  <2> QED
    BY <2>1, <2>2, Zenon DEF LogKnown
<1> QED
  BY <1>1, ShimInvariant, PTL

\* A shim that gives up had no decision of its command within reach in its last
\* round (FindForPID, RecentFromFile, Hub.Record).
THEOREM DecisionIsShown == Spec => []RecordedIsShown
<1>1. ShimInv => RecordedIsShown
  BY Zenon DEF ShimInv, Shows, RecordedIsShown
<1> QED
  BY <1>1, ShimInvariant, PTL
=============================================================================
