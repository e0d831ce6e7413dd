---------------------------- MODULE FeedbackShim ----------------------------
(***************************************************************************)
(* How the decision about a denied call gets back to who ran the command.  *)
(*                                                                         *)
(* The consumer hands decisions to the feedback hub, which keeps the       *)
(* newest in memory, to be asked for over HTTP, and appends each to a      *)
(* file.  The shim runs a command; when it fails the shim polls the file   *)
(* and the hub for a decision about the command's pid until a deadline.    *)
(* Meanwhile pids are reused, decisions arrive late, and the agent crashes *)
(* and is started again.                                                   *)
(*                                                                         *)
(* What is abstracted: DenyConsumer models how a record becomes a          *)
(* decision; here it waits in a queue.  A decision is its pid, its agent   *)
(* and its time, which is when it was made, not when the call was denied.  *)
(***************************************************************************)
EXTENDS Naturals, Sequences, Functions

CONSTANTS
  Pid, Agent,
  None,          \* nil, the empty string
  MaxPerAgent,   \* of the hub
  FileLimit,     \* records RecentFromFile returns (64)
  HTTPLimit,     \* records FromHTTP asks for without an agent (32)
  Grace, Wait,   \* matchGrace and -wait-ms, in ticks
  MaxTime, MaxProcs, MaxDenials, MaxCrashes   \* bounds

\* n and by are history: the number of the denial and the process.
Denials == [n : Nat, pid : Pid, by : Nat, agent : Agent \cup {None}]
Decisions == [n : Nat, pid : Pid, by : Nat, agent : Agent \cup {None}, time : Nat]

ASSUME ShimAssumption ==
  /\ None \notin Agent \cup Decisions
  /\ {MaxPerAgent, FileLimit, HTTPLimit} \subseteq Nat \ {0}
  /\ {Grace, Wait, MaxTime, MaxProcs, MaxDenials, MaxCrashes} \subseteq Nat

VARIABLES
  now,
  proc,      \* the process of each pid; processes are numbered as they start
  queue,     \* denials that are not decided yet
  hub,       \* feedback.Hub: byAgent and recent
  writing,   \* Hub.Record has not written its newline yet
  file,      \* the feedback file: the decisions on lines that parse, whether the
             \* last line is open (has no newline), and holds several decisions;
             \* cut is history: the places in log where the agent died on the line
  log,       \* history: all decisions
  made,      \* history: those made since the agent came up
  up,        \* the agent runs
  shim,      \* the shim
  used       \* what was used up of the bounds

agent == <<queue, hub, writing, made, up>>
vars == <<now, proc, agent, file, log, shim, used>>

Use(what) == used' = [used EXCEPT ![what] = @ + 1]

\* Mutation: nothing is dropped.
MutNewest(s, n) == s

\* The newest n members of a sequence.
Newest(s, n) == IF Len(s) <= n THEN s ELSE SubSeq(s, Len(s) - n + 1, Len(s))

-----------------------------------------------------------------------------
(* Processes, and their denials.                                           *)

NoProc == [id |-> 0, agent |-> None]

\* A process gets a free pid.
Start(p, a) ==
  /\ proc[p] = NoProc /\ used.procs < MaxProcs
  /\ proc' = [proc EXCEPT ![p] = [id |-> used.procs + 1, agent |-> a]]
  /\ Use("procs")

StartOther(p, a) == Start(p, a) /\ UNCHANGED <<now, agent, file, log, shim>>

ExitOther(p) ==
  /\ proc[p] # NoProc /\ ~(shim.pc = "run" /\ shim.pid = p)
  /\ proc' = [proc EXCEPT ![p] = NoProc]
  /\ UNCHANGED <<now, agent, file, log, shim, used>>

Deny(p) ==
  /\ up /\ proc[p] # NoProc
  /\ used.denials < MaxDenials /\ Use("denials")
  /\ queue' = Append(queue, [n |-> used.denials + 1, pid |-> p, by |-> proc[p].id, agent |-> proc[p].agent])
  /\ UNCHANGED <<now, proc, hub, writing, made, up, file, log, shim>>

-----------------------------------------------------------------------------
(* feedback.Hub.                                                           *)

\* Mutation: a single list, of the size of one agent's.
MutKeep(h, d) ==
  [h EXCEPT !.byAgent = [a \in DOMAIN @ |-> Newest(Append(@[a], d), MaxPerAgent)],
            !.recent = Newest(Append(@, d), 4 * MaxPerAgent)]

\* The lists of the hub, with the oldest decisions dropped.  The list of no
\* agent is called "_unknown".
Keep(h, d) ==
  [h EXCEPT !.byAgent[d.agent] = Newest(Append(@, d), MaxPerAgent),
            !.recent = Newest(Append(@, d), 4 * MaxPerAgent)]

\* A line is left open until its newline is written.  Two decisions on one line
\* do not parse.
AppendTo(f, d) ==
  IF ~f.open THEN [f EXCEPT !.parsed = Append(@, d), !.open = TRUE, !.glued = FALSE]
  ELSE IF ~f.glued THEN [f EXCEPT !.parsed = SubSeq(@, 1, Len(@) - 1), !.glued = TRUE]
  ELSE f

\* NewDecision and Hub.Record, up to the newline, with the lock held.  The agent
\* is the one the process table has for the pid by now.
Record ==
  /\ queue # << >> /\ ~writing
  /\ LET v == Head(queue)
     IN  \E a \in {v.agent, proc[v.pid].agent} :
           LET d == [n |-> v.n, pid |-> v.pid, by |-> v.by, agent |-> a, time |-> now]
           IN  /\ hub' = Keep(hub, d)
               /\ file' = AppendTo(file, d)
               /\ log' = Append(log, d)
               /\ made' = [made EXCEPT !.byAgent[a] = Append(@, d), !.recent = Append(@, d)]
  /\ queue' = Tail(queue)
  /\ writing' = TRUE
  /\ UNCHANGED <<now, proc, up, shim, used>>

EndLine ==
  /\ writing /\ writing' = FALSE
  /\ file' = [file EXCEPT !.open = FALSE]
  /\ UNCHANGED <<now, proc, queue, hub, made, up, log, shim, used>>

EmptyHub == [byAgent |-> [a \in Agent \cup {None} |-> << >>], recent |-> << >>]

\* The ring buffer and the hub die with the agent.
Crash ==
  /\ up /\ used.crashes < MaxCrashes /\ Use("crashes")
  /\ up' = FALSE
  /\ queue' = << >> /\ hub' = EmptyHub /\ made' = EmptyHub /\ writing' = FALSE
  /\ file' = [file EXCEPT !.cut = IF writing THEN @ \cup {Len(log)} ELSE @]
  /\ UNCHANGED <<now, proc, log, shim>>

\* NewHub opens the file to append.
Restart ==
  /\ ~up /\ up' = TRUE
  /\ UNCHANGED <<now, proc, queue, hub, writing, made, file, log, shim, used>>

-----------------------------------------------------------------------------
(* The shim, with a feedback file and a feedback URL.                      *)

\* foreign, early and due are history: see the properties.
NotRun == [pc |-> "off", agent |-> None, pid |-> None, id |-> 0, since |-> 0, deadline |-> 0,
           list |-> << >>, shown |-> None, foreign |-> {}, early |-> {}, due |-> {}]

\* a is the -agent-id.
ShimBegin(a) ==
  /\ shim.pc = "off"
  /\ shim' = [NotRun EXCEPT !.pc = "begin", !.agent = a, !.since = now]
  /\ UNCHANGED <<now, proc, agent, file, log, used>>

Recent(d, since) == d.time + Grace >= since

\* The command is started, some time after the shim looked at the clock.
Spawn(p, a) ==
  /\ shim.pc = "begin"
  /\ Start(p, a)
  /\ shim' = [shim EXCEPT !.pc = "run", !.pid = p, !.id = proc'[p].id,
       !.foreign = {v.n : v \in {w \in Range(queue) : w.pid = p}} \cup
                   {d.n : d \in {e \in Range(log) : e.pid = p /\ Recent(e, shim.since)}}]
  /\ UNCHANGED <<now, agent, file, log>>

\* Lines that do not parse are skipped.
RecentFromFile(limit) == Newest(file.parsed, limit)

\* ForAgent, or Recent if the shim has no agent.
FromHTTP == IF shim.agent = None THEN Newest(hub.recent, HTTPLimit) ELSE hub.byAgent[shim.agent]

\* The command ends.  Only if it failed the shim has something to look up.
CommandEnds(failed) ==
  /\ shim.pc = "run"
  /\ failed => now + Wait < MaxTime
  /\ proc' = [proc EXCEPT ![shim.pid] = NoProc]
  /\ shim' = IF failed THEN [shim EXCEPT !.pc = "file", !.deadline = now + Wait,
                               !.early = {d \in Range(log) : d.by = shim.id}]
                       ELSE [shim EXCEPT !.pc = "done"]
  /\ UNCHANGED <<now, agent, file, log, used>>

ShimFrame == UNCHANGED <<now, proc, agent, file, log, used>>

\* What the hub is to answer: the newest decisions about the shim's agent that
\* the running agent made.
Askable ==
  IF shim.agent = None THEN Newest(Newest(made.recent, 4 * MaxPerAgent), HTTPLimit)
  ELSE Newest(made.byAgent[shim.agent], MaxPerAgent)

\* What the file is to tell: the newest decisions of all, without those whose
\* lines a crash left without a newline and another decision was glued to.
Whole(i) == i - 1 \notin file.cut /\ (i \in file.cut => i = Len(log))
Filed == {log[i] : i \in {j \in 1..Len(log) : j + FileLimit > Len(log) /\ Whole(j)}}

\* Mutation: the wait begins anew with each poll.
MutCollectFile ==
  /\ shim.pc = "file"
  /\ shim' = [shim EXCEPT !.pc = "http", !.list = RecentFromFile(FileLimit), !.deadline = now + Wait,
                          !.due = shim.early \cap Filed]
  /\ ShimFrame

\* The file is read, or opening or reading it fails: only the agent's user may
\* read it, and a line may be longer than the scanner's buffer.
CollectFile ==
  /\ shim.pc = "file"
  /\ \/ shim' = [shim EXCEPT !.pc = "http", !.list = RecentFromFile(FileLimit),
                             !.due = shim.early \cap Filed]
     \/ shim' = [shim EXCEPT !.pc = "http", !.due = {}]
  /\ ShimFrame

\* The debug server answers, when the hub's lock is free, or the request fails.
CollectHTTP ==
  /\ shim.pc = "http"
  /\ \/ /\ up /\ ~writing
        /\ shim' = [shim EXCEPT !.pc = "match", !.list = @ \o FromHTTP,
                                !.due = @ \cup (shim.early \cap Range(Askable))]
     \/ shim' = [shim EXCEPT !.pc = "match"]
  /\ ShimFrame

\* Mutation: the newest decision of the pid, however old it is.
MutMatchPID(list, pid, since) ==
  LET fits == {i \in 1..Len(list) : list[i].pid = pid}
      newest == {i \in fits : \A j \in fits : list[j].time <= list[i].time}
  IN  IF fits = {} THEN None ELSE list[CHOOSE i \in newest : \A j \in newest : i <= j]

\* The first of the newest.
MatchPID(list, pid, since) ==
  LET fits == {i \in 1..Len(list) : list[i].pid = pid /\ Recent(list[i], since)}
      newest == {i \in fits : \A j \in fits : list[j].time <= list[i].time}
  IN  IF fits = {} THEN None ELSE list[CHOOSE i \in newest : \A j \in newest : i <= j]

\* The rest of the loop of FindForPID: show, give up or poll again.
Match ==
  /\ shim.pc = "match"
  /\ LET d == MatchPID(shim.list, shim.pid, shim.since)
     IN  shim' = [shim EXCEPT !.pc = IF d # None \/ now > shim.deadline THEN "done" ELSE "file",
                              !.shown = d, !.list = << >>]
  /\ ShimFrame

Poll == CollectFile \/ CollectHTTP \/ Match

Tick ==
  /\ now < MaxTime /\ now' = now + 1
  /\ UNCHANGED <<proc, agent, file, log, shim, used>>

-----------------------------------------------------------------------------

Init ==
  /\ now = 0
  /\ proc = [p \in Pid |-> NoProc]
  /\ queue = << >> /\ hub = EmptyHub /\ writing = FALSE /\ made = EmptyHub /\ up = TRUE
  /\ file = [parsed |-> << >>, open |-> FALSE, glued |-> FALSE, cut |-> {}] /\ log = << >>
  /\ shim = NotRun
  /\ used = [procs |-> 0, denials |-> 0, crashes |-> 0]

Next ==
  \/ \E p \in Pid, a \in Agent \cup {None} : StartOther(p, a) \/ Spawn(p, a)
  \/ \E p \in Pid : ExitOther(p) \/ Deny(p)
  \/ Record \/ EndLine \/ Crash \/ Restart
  \/ \E a \in Agent \cup {None} : ShimBegin(a)
  \/ (\E failed \in BOOLEAN : CommandEnds(failed)) \/ Poll
  \/ Tick

Spec == Init /\ [][Next]_vars

\* The shim keeps running, and time passes.
FairSpec == Spec /\ WF_vars(Poll) /\ WF_vars(Tick)

-----------------------------------------------------------------------------

\* Type invariant; the hub's lists stay within their bounds.
TypeOK ==
  /\ now \in 0..MaxTime /\ {up, writing} \subseteq BOOLEAN
  /\ \A p \in Pid : proc[p] \in [id : 0..MaxProcs, agent : Agent \cup {None}]
  /\ \A a \in Agent \cup {None} : Len(hub.byAgent[a]) <= MaxPerAgent
  /\ Len(hub.recent) <= 4 * MaxPerAgent
  /\ Len(log) + Len(queue) <= MaxDenials
  /\ shim.pc \in {"off", "begin", "run", "file", "http", "match", "done"}

\* A decision the shim shows is about its own command, although decisions are
\* found by pid: unless, when the command started, a denial of an earlier process
\* with the pid was not decided yet or had been decided within the grace period,
\* or a later process got the pid while the shim polled (FindForPID, matchPID).
ShownIsOwn ==
  shim.shown # None => shim.shown.by >= shim.id \/ shim.shown.n \in shim.foreign

\* If a decision about the command had been made when the command ended, the
\* shim shows one, however late it gets to run: unless, in its last round, both
\* ways to it failed.  The file could not be read, or FileLimit newer decisions
\* were made, or the agent died before it had ended the decision's line or the
\* one before.  And the request failed, or newer decisions about the same agent
\* had displaced it, or the agent had been started again (FindForPID, collect,
\* RecentFromFile, Hub.Record).
RecordedIsShown == shim.pc = "done" /\ shim.shown = None => shim.due = {}

\* A shim whose command failed ends, with a decision or without (FindForPID).
ShimEnds == (shim.pc = "file") ~> (shim.pc = "done")
=============================================================================
