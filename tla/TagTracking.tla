---------------------------- MODULE TagTracking -----------------------------
(***************************************************************************)
(* Which processes belong to an enrolled agent.                            *)
(*                                                                         *)
(* Three parties keep track of it.  The tracepoints of enroll.bpf.c run    *)
(* inside fork, exec, exit and other system calls: they propagate tags in  *)
(* the kernel's tagged_pids map and send events through a ring buffer.     *)
(* The consume goroutine takes the events one by one, keeps the proctable  *)
(* and tags and untags pids in the kernel map.  A background goroutine     *)
(* re-tags the whole proctable from time to time and prunes it.  Pids are  *)
(* reused, events are handled late or dropped, parents exit first.         *)
(*                                                                         *)
(* A process is enrolled by what its exec event says of the program (Mode  *)
(* B, fingerprints), or by the cgroup it is in when the event is handled   *)
(* (Mode A): that is read from /proc, where another process may have the   *)
(* pid by then, or none.                                                   *)
(*                                                                         *)
(* What is abstracted: there is one agent id; a program either matches a   *)
(* fingerprint or does not, a cgroup is an agent's or is not; every        *)
(* process has a single thread.                                            *)
(***************************************************************************)
EXTENDS Naturals, Sequences, FiniteSets

CONSTANTS
  Pid,          \* pids the processes of interest use
  InitPid,      \* the process orphans are given to; never enrolled
  Running,      \* pids that may be in use when the agent starts
  WalkDepth,    \* ancestors ensure_tagged_from_ancestor looks at (16)
  MaxTime,      \* bound on forks, execs, moves and actions, which drive the clock
  RingCap,      \* capacity of the events ring buffer, in events
  MaxTags,      \* capacity of tagged_pids
  PromptReuse   \* may a pid be reused while events about it are queued?

ASSUME TagAssumption ==
  /\ IsFiniteSet(Pid) /\ InitPid \notin Pid /\ Running \subseteq Pid
  /\ {WalkDepth, MaxTime, RingCap, MaxTags} \subseteq Nat /\ MaxTime # 0
  /\ PromptReuse \in BOOLEAN

VARIABLES
  proc,     \* the kernel's process table
  clock,    \* advances with every fork, exec, move and action
  tagged,   \* tagged_pids
  ring,     \* events not yet handled
  lost,     \* an event was dropped, or a tag refused for lack of room
  table,    \* proctable.Table
  engine,   \* "boot" during BootstrapRunning, then "run"
  scan,     \* progress of BootstrapRunning, and later of ResyncKernelTags
  listing   \* result of listProcesses in either of them

kernel == <<proc, clock>>
vars == <<proc, clock, tagged, ring, lost, table, engine, scan, listing>>

-----------------------------------------------------------------------------
(* Processes.  agent is the truth the code tries to track.  A process is    *)
(* "seen" to belong to an agent if it called exec on an agent program under  *)
(* the eyes of the tracepoints, if it ran one or was in an agent's cgroup    *)
(* when the bootstrap came by, if it was in one when an exec of its was      *)
(* handled, or if a seen process forked it.  One that called exec in an      *)
(* agent's cgroup is "claimed" until that is handled or it leaves the        *)
(* cgroup.  One is "found" if it was below an agent's process when the       *)
(* bootstrap came by; its children are seen once userspace has it.           *)

Dead == [start |-> 0, ppid |-> InitPid, match |-> FALSE, cgroup |-> FALSE, agent |-> "none"]

Alive == {p \in Pid : proc[p].start # 0}

\* Processes that ran before the tracepoints were attached.
Older == {p \in Pid : proc[p].start = 1}

\* p and its ancestors along real_parent, up to a number of levels.
Lineage(p, levels) ==
  LET up[n \in 0..levels] == IF n = 0 THEN {p}
                             ELSE up[n-1] \cup {proc[q].ppid : q \in up[n-1] \cap Pid}
  IN  up[levels]

\* What an enforcement hook finds out about p with ensure_tagged_from_ancestor.
HookSees(p) == (Lineage(p, WalkDepth) \ {InitPid}) \cap tagged # {}

-----------------------------------------------------------------------------
(* tagged_pids and the ring buffer, both of bounded size.                  *)

Room(set, p) == p \in set \/ Cardinality(set) < MaxTags

Insert(set, p) == IF Room(set, p) THEN set \cup {p} ELSE set

\* Tagging pids in an unspecified order, until the map is full.
TagAll(pids) ==
  \E some \in SUBSET pids :
    /\ tagged' = tagged \cup some
    /\ Cardinality(tagged') <= MaxTags
    /\ some = pids \/ Cardinality(tagged') = MaxTags
    /\ lost' = (lost \/ ~ pids \subseteq tagged')

\* seen is history: the process forked is seen to belong to an agent.
Event(type, p, ppid, start, match, seen) ==
  [type |-> type, pid |-> p, ppid |-> ppid, start |-> start, match |-> match, seen |-> seen]

\* Mutation: the producer overruns the consumer.
MutEmit(e, refused) ==
  /\ ring' = Append(ring, e)
  /\ lost' = (lost \/ refused)

\* bpf_ringbuf_output, or inc_drop; refused says whether a tag was refused.
Emit(e, refused) ==
  /\ ring' = IF Len(ring) < RingCap THEN Append(ring, e) ELSE ring
  /\ lost' = (lost \/ refused \/ Len(ring) >= RingCap)

-----------------------------------------------------------------------------
(* Userspace's proctable.                                                  *)

NoProc == [known |-> FALSE, start |-> 0, tagged |-> FALSE, root |-> InitPid, exited |-> FALSE]

\* An entry that takes over the tag of its parent's.
Inherit(entry, parent) == [entry EXCEPT !.tagged = parent.tagged, !.root = parent.root]

ParentEntry(tbl, ppid) == IF ppid \in Pid THEN tbl[ppid] ELSE NoProc

\* Mutation: untagged forks are the only ones recorded.
MutOnFork(tbl, p, ppid) ==
  IF ParentEntry(tbl, ppid).tagged THEN tbl ELSE [tbl EXCEPT ![p] = [NoProc EXCEPT !.known = TRUE]]

\* Forks of untagged parents are not recorded, and do not displace an entry.
OnFork(tbl, p, ppid) ==
  LET parent == ParentEntry(tbl, ppid)
  IN  IF parent.tagged THEN [tbl EXCEPT ![p] = Inherit([NoProc EXCEPT !.known = TRUE], parent)]
                       ELSE tbl

\* The stored entry is stale if both start times are known and differ.
OnExec(tbl, p, start, ppid) ==
  LET old   == tbl[p]
      kept  == old.known /\ ~(old.start # 0 /\ start # 0 /\ old.start # start)
      entry == [(IF kept THEN old ELSE [NoProc EXCEPT !.known = TRUE])
                  EXCEPT !.start = start, !.exited = FALSE]
  IN  [tbl EXCEPT ![p] = IF entry.tagged THEN entry ELSE Inherit(entry, ParentEntry(tbl, ppid))]

\* A fresh anchor.
Tag(tbl, p) == [tbl EXCEPT ![p].tagged = TRUE, ![p].root = p]

OnExit(tbl, p) == [tbl EXCEPT ![p].exited = @ \/ tbl[p].known]

TaggedSnapshot == {p \in Pid : table[p].tagged /\ ~table[p].exited}

\* What both loops of ResyncKernelTags start from.
Seeds == TaggedSnapshot \cup {table[p].root : p \in TaggedSnapshot}

\* The pids at or below the seeds: the least set that has the seeds and, with a
\* pid, those whose parent it is.
Below(seeds, parent) ==
  {p \in Pid \cup {InitPid} :
     \A S \in SUBSET (Pid \cup {InitPid}) :
       seeds \subseteq S /\ (\A q \in DOMAIN parent : parent[q] \in S => q \in S) => p \in S}

-----------------------------------------------------------------------------
(* The processes, and the tracepoints inside their system calls.           *)

\* A pid is free once its process is gone and, unless reuse is prompt, no
\* event about it is queued.
Free(p) ==
  /\ p \notin Alive
  /\ PromptReuse \/ \A i \in 1..Len(ring) : ring[i].pid # p

\* A child of p is seen to belong to an agent.
ChildSeen(p) ==
  p # InitPid /\ (proc[p].agent = "seen" \/ (proc[p].agent = "found" /\ table[p].tagged))

Child(p) ==
  [start |-> clock + 1, ppid |-> p, match |-> p # InitPid /\ proc[p].match,
   cgroup |-> p # InitPid /\ proc[p].cgroup,
   agent |-> IF ChildSeen(p) THEN "seen" ELSE "none"]

\* Mutation: forks of untagged processes are not reported.
MutFork(p, c) ==
  /\ p \in Alive \cup {InitPid}
  /\ Free(c)
  /\ clock < MaxTime /\ clock' = clock + 1
  /\ proc' = [proc EXCEPT ![c] = Child(p)]
  /\ tagged' = IF p \in tagged THEN Insert(tagged, c) ELSE tagged
  /\ IF p \in tagged THEN Emit(Event("fork", c, p, 0, FALSE, ChildSeen(p)), ~Room(tagged, c))
                      ELSE UNCHANGED <<ring, lost>>
  /\ UNCHANGED <<table, engine, scan, listing>>

\* handle_fork: a tagged parent's child is tagged at once.  The event carries
\* no start time.
Fork(p, c) ==
  /\ p \in Alive \cup {InitPid}
  /\ Free(c)
  /\ clock < MaxTime /\ clock' = clock + 1
  /\ proc' = [proc EXCEPT ![c] = Child(p)]
  /\ tagged' = IF p \in tagged THEN Insert(tagged, c) ELSE tagged
  /\ Emit(Event("fork", c, p, 0, FALSE, ChildSeen(p)), p \in tagged /\ ~Room(tagged, c))
  /\ UNCHANGED <<table, engine, scan, listing>>

\* handle_exec.
Exec(p, match) ==
  /\ p \in Alive
  /\ clock < MaxTime /\ clock' = clock + 1
  /\ proc' = [proc EXCEPT ![p].match = match,
                          ![p].agent = IF match THEN "seen"
                                       ELSE IF proc[p].cgroup /\ @ = "none" THEN "claimed" ELSE @]
  /\ Emit(Event("exec", p, proc[p].ppid, proc[p].start, match, FALSE), FALSE)
  /\ UNCHANGED <<tagged, table, engine, scan, listing>>

\* A process is moved into a cgroup of agents, or out of it.
Move(p) ==
  /\ p \in Alive
  /\ clock < MaxTime /\ clock' = clock + 1
  /\ proc' = [proc EXCEPT ![p].cgroup = ~@, ![p].agent = IF @ = "claimed" THEN "none" ELSE @]
  /\ UNCHANGED <<tagged, ring, lost, table, engine, scan, listing>>

\* handle_exit: the kernel map is left to userspace.  Children are orphaned.
Exit(p) ==
  /\ p \in Alive
  /\ proc' = [q \in Pid |-> IF q = p THEN Dead
                            ELSE IF proc[q].ppid = p THEN [proc[q] EXCEPT !.ppid = InitPid]
                            ELSE proc[q]]
  /\ Emit(Event("exit", p, InitPid, proc[p].start, FALSE, FALSE), FALSE)
  /\ UNCHANGED <<clock, tagged, table, engine, scan, listing>>

\* A hooked system call: ensure_tagged_from_ancestor, then the action event of
\* a tagged process.
Act(p) ==
  /\ p \in Alive
  /\ HookSees(p)
  /\ clock < MaxTime /\ clock' = clock + 1
  /\ tagged' = Insert(tagged, p)
  /\ IF Room(tagged, p) THEN Emit(Event("action", p, proc[p].ppid, proc[p].start, FALSE, FALSE), FALSE)
                        ELSE lost' = TRUE /\ ring' = ring
  /\ UNCHANGED <<proc, table, engine, scan, listing>>

\* tryEnroll: matchCgroup reads /proc now, and finds nothing if the process is
\* gone; the fingerprints are matched with what the caller knows of the program.
TryEnroll(p, match) == proc[p].cgroup \/ match

-----------------------------------------------------------------------------
(* History: userspace comes by a process and enrols it.                    *)

\* An exit of p is among the queued events i to j.
Ends(p, i, j) == \E k \in i..j : ring[k].type = "exit" /\ ring[k].pid = p

\* The queued forks by p, or by a process whose fork is in S and that did not exit since.
ForksBy(p, S) ==
  {i \in 1..Len(ring) :
     /\ ring[i].type = "fork"
     /\ \/ ring[i].ppid = p
        \/ \E j \in S : j < i /\ ring[j].pid = ring[i].ppid /\ ~Ends(ring[j].pid, j, i)}

\* The queued forks of p and of those it forked.
Forks(p) ==
  {i \in 1..Len(ring) : \A S \in SUBSET (1..Len(ring)) : ForksBy(p, S) \subseteq S => i \in S}

\* The process p that userspace comes by is the one the events are about.
Present(p) == p \in Alive /\ ~Ends(p, 1, Len(ring))

\* Then p and whom it forked since are seen ...
See(p, found) ==
  LET forked(q) == \E i \in Forks(p) : ring[i].pid = q /\ ~Ends(q, i, Len(ring))
      is(q) == IF q = p \/ (q \in Alive /\ forked(q)) THEN "seen"
               ELSE IF q \in found /\ proc[q].agent = "none" THEN "found" ELSE proc[q].agent
  IN  [q \in Pid |-> [proc[q] EXCEPT !.agent = is(q)]]

\* ... and so are their forks in the queue.
SeeForks(p) ==
  [i \in 1..Len(ring) |-> IF i \in Forks(p) THEN [ring[i] EXCEPT !.seen = TRUE] ELSE ring[i]]

-----------------------------------------------------------------------------
(* The consume goroutine: Engine.Handle on the oldest event.               *)

Pending(type) == engine = "run" /\ ring # << >> /\ Head(ring).type = type

HandleFork ==
  /\ Pending("fork")
  /\ LET e == Head(ring)
         new == OnFork(table, e.pid, e.ppid)
         \* the entry OnFork returns, stored or not
         child == ParentEntry(table, e.ppid)
         t1 == Insert(tagged, e.pid)
         t2 == Insert(t1, child.root)
         t3 == Insert(t2, e.ppid)
     IN  /\ table' = new
         /\ tagged' = IF child.tagged THEN t3 ELSE tagged
         /\ lost' = (lost \/ (child.tagged /\ ~ {e.pid, child.root, e.ppid} \subseteq t3))
  /\ ring' = Tail(ring)
  /\ UNCHANGED <<kernel, engine, scan, listing>>

HandleExec ==
  /\ Pending("exec")
  /\ LET e == Head(ring)
         upd == OnExec(table, e.pid, e.start, e.ppid)
         new == IF ~upd[e.pid].tagged /\ TryEnroll(e.pid, e.match) THEN Tag(upd, e.pid) ELSE upd
         enrolled == Present(e.pid) /\ proc[e.pid].cgroup
     IN  /\ table' = new
         /\ tagged' = IF new[e.pid].tagged THEN Insert(tagged, e.pid) ELSE tagged
         /\ lost' = (lost \/ (new[e.pid].tagged /\ ~Room(tagged, e.pid)))
         /\ proc' = IF enrolled THEN See(e.pid, {}) ELSE proc
         /\ ring' = IF enrolled THEN Tail(SeeForks(e.pid)) ELSE Tail(ring)
  /\ UNCHANGED <<clock, engine, scan, listing>>

\* Mutation: the whole lineage is untagged when one of its processes exits.
MutHandleExit ==
  /\ Pending("exit")
  /\ LET p == Head(ring).pid
     IN  /\ tagged' = IF table[p].tagged THEN tagged \ {p, table[p].root} ELSE tagged
         /\ table' = OnExit(table, p)
  /\ ring' = Tail(ring)
  /\ UNCHANGED <<kernel, lost, engine, scan, listing>>

\* Only pids the proctable holds as tagged are untagged.
HandleExit ==
  /\ Pending("exit")
  /\ LET p == Head(ring).pid
     IN  /\ tagged' = IF table[p].tagged THEN tagged \ {p} ELSE tagged
         /\ table' = OnExit(table, p)
  /\ ring' = Tail(ring)
  /\ UNCHANGED <<kernel, lost, engine, scan, listing>>

\* The pid is tagged again before start times are compared.
HandleAction ==
  /\ Pending("action")
  /\ LET p == Head(ring).pid
     IN  /\ tagged' = IF table[p].tagged THEN Insert(tagged, p) ELSE tagged
         /\ lost' = (lost \/ (table[p].tagged /\ ~Room(tagged, p)))
  /\ ring' = Tail(ring)
  /\ UNCHANGED <<kernel, table, engine, scan, listing>>

Handle == HandleFork \/ HandleExec \/ HandleExit \/ HandleAction

-----------------------------------------------------------------------------
(* BootstrapRunning, after the tracepoints are attached and before consume, *)
(* and ResyncKernelTags, from the snapshot ticker of the background goroutine. *)

Scan(pc, pass, todo) == [pc |-> pc, pass |-> pass, todo |-> todo]

ListProcesses == listing' = [p \in Alive |-> proc[p].ppid]

BootList ==
  /\ engine = "boot" /\ scan.pc = "idle"
  /\ ListProcesses
  /\ scan' = Scan("visit", 1, Alive)
  /\ UNCHANGED <<kernel, tagged, ring, lost, table, engine>>

\* The bootstrap comes by p: p runs an agent program, is in an agent's cgroup, or was
\* found below an agent's process and is in the table.  The older ones below it are found.
ComeBy(p) ==
  IF /\ Present(p)
     /\ proc[p].match \/ proc[p].cgroup \/ (proc[p].agent = "found" /\ table'[p].tagged)
  THEN proc' = See(p, Older \cap Below({p}, [q \in Pid |-> proc[q].ppid])) /\ ring' = SeeForks(p)
  ELSE UNCHANGED <<proc, ring>>

\* bootstrapPID, on the listed pids in any order.  A pid without a binary is
\* gone by now.
BootVisit(p) ==
  /\ scan.pc = "visit" /\ p \in scan.todo
  /\ scan' = [scan EXCEPT !.todo = @ \ {p}]
  /\ LET upd  == OnExec(table, p, 0, listing[p])
         new  == IF table[p].tagged \/ p \notin Alive THEN table
                 ELSE IF ~upd[p].tagged /\ TryEnroll(p, proc[p].match) THEN Tag(upd, p) ELSE upd
     IN  /\ table' = new
         /\ tagged' = IF new[p].tagged THEN Insert(tagged, p) ELSE tagged
         /\ lost' = (lost \/ (new[p].tagged /\ ~Room(tagged, p)))
  /\ ComeBy(p)
  /\ UNCHANGED <<clock, engine, listing>>

\* Three passes, then propagateKernelDescendants.
BootPassDone ==
  /\ scan.pc = "visit" /\ scan.todo = {}
  /\ scan' = IF scan.pass < 3 THEN Scan("visit", scan.pass + 1, DOMAIN listing)
             ELSE Scan("propagate", 0, Below(Seeds, listing))
  /\ UNCHANGED <<kernel, tagged, ring, lost, table, engine, listing>>

\* listProcesses and the first TaggedSnapshot.
ResyncBegin ==
  /\ engine = "run" /\ scan.pc = "idle"
  /\ ListProcesses
  /\ scan' = Scan("tracked", 0, Seeds)
  /\ UNCHANGED <<kernel, tagged, ring, lost, table, engine>>

\* The snapshot is tagged; events may have been handled since it was taken.
\* Then propagateKernelDescendants takes its own.
ResyncTracked ==
  /\ scan.pc = "tracked"
  /\ TagAll(scan.todo)
  /\ scan' = Scan("propagate", 0, Below(Seeds, listing))
  /\ UNCHANGED <<kernel, ring, table, engine, listing>>

\* Mutation: only tracked pids are tagged, not the tree below them.
MutPropagate ==
  /\ scan.pc = "propagate"
  /\ TagAll(Seeds)
  /\ scan' = Scan("idle", 0, {})
  /\ listing' = << >>
  /\ engine' = "run"
  /\ UNCHANGED <<kernel, ring, table>>

\* The last loop of propagateKernelDescendants.  The consume goroutine starts
\* after the bootstrap.
Propagate ==
  /\ scan.pc = "propagate"
  /\ TagAll(scan.todo)
  /\ scan' = Scan("idle", 0, {})
  /\ listing' = << >>
  /\ engine' = "run"
  /\ UNCHANGED <<kernel, ring, table>>

ScanStep == BootList \/ (\E p \in Pid : BootVisit(p)) \/ BootPassDone \/ ResyncTracked \/ Propagate

\* Entries age one by one; an exited or untagged one is dropped when its time
\* has come.
Prune(p) ==
  /\ engine = "run" /\ scan.pc = "idle"
  /\ table[p].known /\ (table[p].exited \/ ~table[p].tagged)
  /\ table' = [table EXCEPT ![p] = NoProc]
  /\ UNCHANGED <<kernel, tagged, ring, lost, engine, scan, listing>>

-----------------------------------------------------------------------------

Init ==
  /\ proc \in [Pid -> {Dead} \cup
       [start : {1}, ppid : Running \cup {InitPid}, match : BOOLEAN, cgroup : BOOLEAN,
        agent : {"none"}]]
  /\ Alive \subseteq Running
  /\ \A p \in Alive : proc[p].ppid \in Alive \cup {InitPid} /\ InitPid \in Lineage(p, Cardinality(Pid))
  /\ clock = 1
  /\ tagged = {}
  /\ ring = << >>
  /\ lost = FALSE
  /\ table = [p \in Pid |-> NoProc]
  /\ engine = "boot"
  /\ scan = Scan("idle", 0, {})
  /\ listing = << >>

Next ==
  \/ \E p \in Pid \cup {InitPid}, c \in Pid : Fork(p, c)
  \/ \E p \in Pid, match \in BOOLEAN : Exec(p, match)
  \/ \E p \in Pid : Move(p) \/ Exit(p) \/ Act(p)
  \/ Handle \/ ScanStep \/ ResyncBegin
  \/ \E p \in Pid : Prune(p)

Spec == Init /\ [][Next]_vars

\* Both goroutines keep running; when the snapshot ticker fires is left open.
FairSpec == Spec /\ WF_vars(Handle) /\ WF_vars(ScanStep)

-----------------------------------------------------------------------------

\* Type invariant; the maps stay within their capacities.
TypeOK ==
  /\ proc \in [Pid -> [start : 0..MaxTime, ppid : Pid \cup {InitPid},
                       match : BOOLEAN, cgroup : BOOLEAN,
                       agent : {"none", "claimed", "found", "seen"}]]
  /\ clock \in 1..MaxTime
  /\ tagged \subseteq Pid \cup {InitPid} /\ Cardinality(tagged) <= MaxTags
  /\ Len(ring) <= RingCap /\ lost \in BOOLEAN
  /\ table \in [Pid -> [known : BOOLEAN, start : 0..MaxTime, tagged : BOOLEAN,
                        root : Pid \cup {InitPid}, exited : BOOLEAN]]

\* Userspace has caught up with everything that happened.
Quiescent == engine = "run" /\ ring = << >> /\ scan.pc = "idle" /\ ~lost

\* Once the events are handled, every live process of an agent is tagged in the
\* kernel, however forks, execs, moves between cgroups, exits, reparenting, pid
\* reuse, the bootstrap listing and the background re-tagging interleaved
\* (Engine.Handle, BootstrapRunning, ResyncKernelTags, handle_fork), if nothing
\* was lost.  Not claimed of a process forked by one that was in an agent's
\* cgroup and exited or left it before its exec was handled, nor of one forked
\* by a process that was found but not in the proctable yet.
LineageTagged == Quiescent => \A p \in Alive : proc[p].agent # "none" => p \in tagged

\* ... and is known to userspace as a live, tagged process, so that its actions
\* and denials are attributed, unless it was only found (Table.OnFork,
\* Table.OnExec, Engine.tryEnroll).  A found one may be tagged in the kernel
\* alone: its parent exits during the bootstrap, or three passes do not get down
\* to it.
LineageKnown ==
  Quiescent => \A p \in Alive : proc[p].agent \in {"claimed", "seen"}
                                 => table[p].tagged /\ ~table[p].exited

\* At no moment is a live process of an agent forgotten: it is tagged, or the
\* record of a fork or exec that gets it tagged is still queued, also while
\* exits of its parent and of earlier processes with its pid, re-tagging and
\* pruning come in between (handle_fork, handle_exec, Engine.Handle).
TaggedOrQueued ==
  ~lost => \A p \in Alive : proc[p].agent \in {"claimed", "seen"} =>
             p \in tagged \/ \E i \in 1..Len(ring) : ring[i].pid = p /\ ring[i].type \in {"fork", "exec"}

\* The event handled is the exit of an earlier process with pid p.
StaleExit(p) ==
  /\ Pending("exit") /\ Head(ring).pid = p /\ Head(ring).start # proc[p].start
  /\ Len(ring') < Len(ring)

\* A tag put on a live process stays until the process exits, whatever is lost,
\* pruned or tagged again meanwhile (Engine.handleExit, Prune), but for one case:
\* handleExit does not compare start times, so an exit event handled after its
\* pid was reused takes the new process's tag away.
TagSticks ==
  [][\A p \in Alive : p \in tagged /\ proc'[p].start = proc[p].start /\ ~StaleExit(p)
                       => p \in tagged']_vars

\* Every process of an agent is tagged eventually, unless it exits first, or leaves
\* the cgroup that made it one before its exec is handled, or an event or tag was
\* lost (consume).
EventuallyTagged ==
  \A p \in Pid : (proc[p].agent # "none") ~> (proc[p].agent = "none" \/ p \in tagged \/ lost)

-----------------------------------------------------------------------------
(* What comments in the code say and the code does not do.                 *)

\* enroll.bpf.c on tagged_pids: userspace "deletes on exit".  So when userspace
\* has caught up only live processes are tagged; yet handleFork tags the root of
\* the lineage again after the root's exit was handled, and so does a re-tagging
\* whose snapshot is older than the exit.
ExitDeletesTag == Quiescent => tagged \subseteq Alive

\* proctable.go on reused pids: "Discard the stale entry so an unrelated process
\* is not misattributed."  So the first exec seen after a process was recorded
\* as exited inherits a tag from its own parent or not at all.  Yet the entry of
\* a child that never called exec has no start time to compare, and hands its
\* tag to the next process with that pid.
ReuseNotMisattributed ==
  Pending("exec") =>
    LET e == Head(ring)
    IN  table[e.pid].exited /\ ~ParentEntry(table, e.ppid).tagged
          => ~OnExec(table, e.pid, e.start, e.ppid)[e.pid].tagged
=============================================================================
