--------------------------- MODULE SyscallStaging ---------------------------
(***************************************************************************)
(* How an enforcement hook learns what a system call is about.             *)
(*                                                                         *)
(* The fmod_ret hooks of enforcer.bpf.c do not read user memory.  The      *)
(* sys_enter tracepoints of enroll.bpf.c run first, copy the path or the   *)
(* address, and store it in a hash map under the process id (tgid) and in  *)
(* a slot of the CPU they run on.  The hook of the same call looks the     *)
(* process up, and falls back to the slot of the CPU it runs on.  Between  *)
(* the two the thread may move to another CPU, sibling threads and other   *)
(* processes make calls of their own, and userspace may tag or untag the   *)
(* process.  Entries are never deleted.                                    *)
(*                                                                         *)
(* What is abstracted: paths and addresses are members of Target, and the  *)
(* policy in force is the set of targets it denies.  LivePolicy models how *)
(* the policy changes, TagTracking how processes are tagged.               *)
(***************************************************************************)
EXTENDS Naturals, FiniteSets, Functions

CONSTANTS
  Thread, Process,
  ProcessOf,    \* the process of each thread
  Cpu,
  Target,       \* paths and addresses
  Denied,       \* the ones the policy denies
  Kind,         \* system calls made, of "open", "connect", "unlink", "rename"
  MapCap,       \* entries of a pending map (4096)
  MaxCalls      \* bound on the number of calls made

ASSUME StagingAssumption ==
  /\ ProcessOf \in [Thread -> Process]
  /\ Denied \subseteq Target
  /\ Kind \subseteq {"open", "connect", "unlink", "rename"}
  /\ MapCap \in Nat /\ MaxCalls \in Nat

VARIABLES
  tagged,    \* tagged processes
  pending,   \* pending_open_paths, pending_connects, ...: hash maps by process
  percpu,    \* pending_open_cpu, pending_connect_cpu, ...: a slot per CPU
  call,      \* the call each thread is in, or its last one
  calls      \* number of calls made

vars == <<tagged, pending, percpu, call, calls>>

-----------------------------------------------------------------------------
(* The argument of a call: its targets (two for a rename; none for an empty *)
(* string or another address family), whether the tracepoint can read them *)
(* (a page that is not resident cannot be), and the flag AT_EMPTY_PATH.    *)

Arg(kind) ==
  [names : {n \in SUBSET Target : Cardinality(n) <= IF kind = "rename" THEN 2 ELSE 1},
   readable : BOOLEAN,
   empty : IF kind = "unlink" THEN BOOLEAN ELSE {FALSE}]

\* A staged entry; by is the process that staged it, known to the model only.
Entry == [names : SUBSET Target, empty : BOOLEAN, by : Process]

\* Per-CPU array slots start zeroed.
Zeroed == [names |-> {}, empty |-> FALSE]

\* The length is valid (valid_path_len), or the address length is 4 or 16.
Valid(entry) == entry.names # {}

\* The handlers' early returns.  An unlink is staged with length 0 if its path
\* is empty, or unreadable but not needed.
Stages(kind, arg) ==
  IF kind = "unlink" THEN arg.readable \/ arg.empty
                     ELSE arg.readable /\ arg.names # {}

StagedNames(arg) == IF arg.readable THEN arg.names ELSE {}

\* Mutation: the map is taken to grow without bound.
MutHasRoom(kind, p) == TRUE

\* bpf_map_update_elem on the hash map succeeds.
HasRoom(kind, p) ==
  p \in DOMAIN pending[kind] \/ Cardinality(DOMAIN pending[kind]) < MapCap

-----------------------------------------------------------------------------

Idle == [at |-> "user", kind |-> "none", arg |-> [names |-> {}, readable |-> FALSE, empty |-> FALSE],
         fresh |-> FALSE, gated |-> FALSE, judged |-> {}, by |-> "none", res |-> "allow"]

\* A call enters the kernel on a CPU: handle_openat, handle_connect,
\* handle_unlink, handle_unlinkat or handle_renameat2.  fresh says that the
\* process's entry is this call's.
Enter(t, kind, arg, cpu) ==
  LET p == ProcessOf[t]
      staged == p \in tagged /\ Stages(kind, arg)
      stored == staged /\ HasRoom(kind, p)
      entry == [names |-> StagedNames(arg), empty |-> arg.empty, by |-> p]
  IN  /\ call[t].at = "user"
      /\ calls < MaxCalls /\ calls' = calls + 1
      /\ pending' = IF stored THEN [pending EXCEPT ![kind] =
                                      [q \in DOMAIN @ \cup {p} |-> IF q = p THEN entry ELSE @[q]]]
                              ELSE pending
      /\ percpu' = IF staged THEN [percpu EXCEPT ![kind][cpu] = entry] ELSE percpu
      /\ call' = [u \in Thread |->
                    IF u = t THEN [Idle EXCEPT !.at = "kernel", !.kind = kind, !.arg = arg, !.fresh = stored]
                    ELSE IF stored /\ ProcessOf[u] = p /\ call[u].at = "kernel" /\ call[u].kind = kind
                    THEN [call[u] EXCEPT !.fresh = FALSE]
                    ELSE call[u]]
      /\ UNCHANGED tagged

\* Mutation: the slot of this CPU is preferred to the process's entry.
MutLookup(kind, p, cpu) ==
  IF Valid(percpu[kind][cpu]) \/ p \notin DOMAIN pending[kind] THEN percpu[kind][cpu]
  ELSE pending[kind][p]

\* The process's entry, or this CPU's slot if there is none or it is not valid.
Lookup(kind, p, cpu) ==
  IF p \in DOMAIN pending[kind] /\
     (kind = "connect" \/ Valid(pending[kind][p]) \/ (kind = "unlink" /\ pending[kind][p].empty))
  THEN pending[kind][p]
  ELSE percpu[kind][cpu]

\* Mutation: a call whose target is not known goes through.
MutFromPending(kind, entry) ==
  IF Valid(entry) /\ entry.names \cap Denied # {} THEN "deny" ELSE "allow"

\* enforce_openat_from_pending and its three siblings.  Without a valid entry
\* open and connect go through, unlink and rename do not.
FromPending(kind, entry) ==
  IF Valid(entry) /\ ~entry.empty
  THEN IF entry.names \cap Denied # {} THEN "deny" ELSE "allow"
  ELSE IF kind \in {"unlink", "rename"} THEN "deny" ELSE "allow"

\* The fmod_ret hook, on the CPU the thread runs on by now.
Hook(t, cpu) ==
  LET p == ProcessOf[t]
      kind == call[t].kind
      gated == p \in tagged
      entry == Lookup(kind, p, cpu)
  IN  /\ call[t].at = "kernel"
      /\ call' = [call EXCEPT ![t].at = "user",
                    ![t].gated = gated,
                    ![t].judged = IF gated THEN entry.names ELSE {},
                    ![t].by = IF gated /\ Valid(entry) THEN entry.by ELSE "none",
                    ![t].res = IF gated THEN FromPending(kind, entry) ELSE "allow"]
      /\ UNCHANGED <<tagged, pending, percpu, calls>>

\* Userspace, or another hook, updates tagged_pids.
SetTag(p) ==
  /\ tagged' = (IF p \in tagged THEN tagged \ {p} ELSE tagged \cup {p})
  /\ UNCHANGED <<pending, percpu, call, calls>>

Init ==
  /\ tagged \in SUBSET Process
  /\ pending = [k \in Kind |-> << >>]
  /\ percpu = [k \in Kind |-> [c \in Cpu |-> Zeroed]]
  /\ call = [t \in Thread |-> Idle]
  /\ calls = 0

Next ==
  \/ \E t \in Thread, kind \in Kind, cpu \in Cpu : \E arg \in Arg(kind) : Enter(t, kind, arg, cpu)
  \/ \E t \in Thread, cpu \in Cpu : Hook(t, cpu)
  \/ \E p \in Process : SetTag(p)

Spec == Init /\ [][Next]_vars

-----------------------------------------------------------------------------

\* Type invariant; the pending maps stay within their capacity.
TypeOK ==
  /\ tagged \subseteq Process
  /\ calls \in 0..MaxCalls
  /\ \A k \in Kind :
       /\ DOMAIN pending[k] \subseteq Process /\ Cardinality(DOMAIN pending[k]) <= MapCap
       /\ \A p \in DOMAIN pending[k] : pending[k][p] \in Entry
       /\ \A c \in Cpu : percpu[k][c] = Zeroed \/ percpu[k][c] \in Entry
  /\ \A t \in Thread : /\ call[t].at \in {"user", "kernel"} /\ call[t].kind \in Kind \cup {"none"}
                       /\ call[t].res \in {"allow", "deny"}

\* The call has been through its hook, which found the process tagged.
Judged(t) == call[t].at = "user" /\ call[t].gated

\* What the policy says of a call.  An unlink that names no path is denied.
Policy(kind, arg) ==
  IF kind = "unlink" /\ (arg.empty \/ arg.names = {}) THEN "deny"
  ELSE IF arg.names \cap Denied # {} THEN "deny" ELSE "allow"

\* A call whose target was stored under its process, and not overwritten by a
\* sibling thread since, gets the policy's verdict on its own target: whichever
\* CPUs the two programs ran on, whatever other processes staged meanwhile and
\* whatever the process staged before (enforce_*_from_pending).
OwnVerdict ==
  \A t \in Thread : Judged(t) /\ call[t].fresh /\ call[t].arg.readable /\ call[t].arg.names # {}
                      => call[t].res = Policy(call[t].kind, call[t].arg)

\* A process that has an entry of its own is never judged on what another one
\* staged on the CPU, even when the call at hand staged nothing.  Unlinks of the
\* empty string are the exception, their entry is not valid.
NeverOthersTarget ==
  [][\A t \in Thread :
       /\ call[t].at = "kernel" /\ call'[t].at = "user" /\ call'[t].gated
       /\ call[t].kind # "unlink" /\ ProcessOf[t] \in DOMAIN pending[call[t].kind]
       => call'[t].by = ProcessOf[t]]_vars

\* No unlink or rename of a tagged process goes through unjudged
\* (enforce_unlink_from_pending, enforce_rename_from_pending).
UnlinkNeverUnjudged ==
  \A t \in Thread : Judged(t) /\ call[t].kind \in {"unlink", "rename"} /\ call[t].res = "allow"
                      => call[t].judged # {}

\* config.md: "when a tagged agent reaches an unlink or rename fmod_ret hook
\* without resolvable staged paths ... the enforcer returns -EPERM rather than
\* allowing the operation".  Yet an entry of an earlier call is still there, and
\* decides instead.
UnresolvedDenied ==
  \A t \in Thread : Judged(t) /\ call[t].kind \in {"unlink", "rename"} /\ ~call[t].arg.readable
                      => call[t].res = "deny"
=============================================================================
