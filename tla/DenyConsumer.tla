---------------------------- MODULE DenyConsumer ----------------------------
(***************************************************************************)
(* From a kernel denial to the decision reported about it.                 *)
(*                                                                         *)
(* A hook that denies a call puts a record into the ring buffer            *)
(* deny_verdicts.  The consumer goroutine takes the records one by one and *)
(* completes them: the rule from the policy holder, the target from the    *)
(* record or else from the connect cache.  Meanwhile reloadPolicy replaces *)
(* the policy, first in the kernel and then in the holder, and the engine  *)
(* changes the cache.  When the agent starts, pinned maps may still enforce *)
(* the policy of the one before, and the ring buffer fills before there is *)
(* a consumer.                                                             *)
(*                                                                         *)
(* What is abstracted: the kernel's policy changes as PolicySwap says,     *)
(* which LivePolicy implements, and the fail direction is left open; an    *)
(* entry of the cache expires at any time; the columns taken from the      *)
(* process table are left out.  Ring buffer, holder and cache do not       *)
(* outlive the agent, so it does not crash here.                           *)
(***************************************************************************)
EXTENDS Naturals, Sequences, Functions

CONSTANTS
  Pid, Target,
  Policy,        \* compiled policies: [version, rules]
  ConnectRule,   \* the rules, of all policies, about connect
  None,          \* nil, the empty string
  RingCap,       \* capacity of deny_verdicts, in records
  MaxDenials, MaxReloads   \* bounds

ASSUME ConsumerAssumption ==
  /\ None \notin Policy /\ None \notin Target
  /\ None \notin ConnectRule /\ \A p \in Policy : None \notin p.rules
  /\ RingCap \in Nat /\ MaxDenials \in Nat /\ MaxReloads \in Nat

VARIABLES
  inForce,    \* the policy the kernel enforces
  reload,     \* reloadPolicy: its control point, the new policy, the previous one
  reloads,    \* number of reloads begun
  holder,     \* policy.Holder
  installs,   \* history: the policies in the order they came into force
  denials,    \* number of denials
  refused,    \* history: the denials without a record
  ring,       \* deny_verdicts
  current,    \* the record the consumer works on
  connects,   \* deny.ConnectCache
  log         \* the decisions reported

policies == <<inForce, reload, reloads, holder, installs>>
vars == <<policies, denials, refused, ring, current, connects, log>>

Rule == UNION {p.rules : p \in Policy}

\* main has loaded the first policy, and starts the goroutines.
Started == holder # None

-----------------------------------------------------------------------------
(* The kernel.                                                             *)

\* Mutation: a connect is recorded as any other call, without an address.
MutVerdictTarget(rule, target, named) ==
  IF rule \notin ConnectRule /\ named THEN target ELSE None

\* emit_deny and emit_deny_ex: the address of a connect is always known, the
\* path of a file not in file_open.
VerdictTarget(rule, target, named) ==
  IF rule \in ConnectRule \/ named THEN target ELSE None

\* Mutation: off by one.
MutReserve == Len(ring) <= RingCap

\* bpf_ringbuf_reserve succeeds.
Reserve == Len(ring) < RingCap

\* Mutation: a full ring buffer overwrites its oldest record.
MutSubmit(v) ==
  /\ ring' = Append(IF Reserve THEN ring ELSE Tail(ring), v)
  /\ UNCHANGED refused

\* The early return, or bpf_ringbuf_submit.
Submit(v) ==
  IF Reserve THEN ring' = Append(ring, v) /\ UNCHANGED refused
             ELSE refused' = refused \cup {v.n} /\ UNCHANGED ring

\* A rule denies a call, with or without a record.  n, to, nth and calm are history:
\* the number of the denial, the target, which policy denied it, and the reload
\* after which it happened (0 if during one, or before the first).
Deny(p, rule, target, named) ==
  /\ inForce # None /\ rule \in inForce.rules
  /\ denials < MaxDenials /\ denials' = denials + 1
  /\ Submit([pid |-> p, rule |-> rule, target |-> VerdictTarget(rule, target, named),
             n |-> denials', to |-> target, nth |-> Len(installs),
             calm |-> IF Started /\ reload.pc = "idle" THEN reloads + 1 ELSE 0])
  /\ UNCHANGED <<policies, current, connects, log>>

\* A hook denies a call without a rule, and sends no record: policy_ctrl fails
\* closed and enforcement is not active, or the path of an unlink or a rename is
\* not known.
DenyUnrecorded ==
  /\ denials < MaxDenials /\ denials' = denials + 1
  /\ refused' = refused \cup {denials'}
  /\ UNCHANGED <<policies, ring, current, connects, log>>

-----------------------------------------------------------------------------
(* reloadPolicy; main loads the first policy in the same way.              *)

Kernel == INSTANCE PolicySwap WITH NoPolicy <- None

ReloadFrame == UNCHANGED <<denials, refused, ring, current, connects, log>>

\* Mutation: the holder is swapped before the maps are loaded.
MutWithdraw(p) ==
  /\ reload.pc = "idle" /\ p # holder
  /\ reloads < MaxReloads /\ reloads' = reloads + 1
  /\ Kernel!Withdraw
  /\ reload' = [pc |-> "load", policy |-> p, prev |-> holder]
  /\ holder' = p
  /\ UNCHANGED installs /\ ReloadFrame

\* A policy of another version is current: applyLivePolicy deactivates first.
Withdraw(p) ==
  /\ reload.pc = "idle" /\ p # holder
  /\ reloads < MaxReloads /\ reloads' = reloads + 1
  /\ Kernel!Withdraw
  /\ reload' = [pc |-> "load", policy |-> p, prev |-> holder]
  /\ UNCHANGED <<holder, installs>> /\ ReloadFrame

ReloadStep(from, to) == reload.pc = from /\ reload' = [reload EXCEPT !.pc = to]

Install(p) == Kernel!Install(p) /\ installs' = Append(installs, p)

\* The maps are loaded and activated.
Apply ==
  /\ ReloadStep("load", "swap") /\ Install(reload.policy)
  /\ UNCHANGED <<reloads, holder>> /\ ReloadFrame

\* They could not be: the previous policy is restored, or that fails as well.
\* If it was the first policy, the agent exits.
ApplyFails ==
  /\ Started /\ ReloadStep("load", "idle")
  /\ Install(reload.prev) \/ UNCHANGED <<inForce, installs>>
  /\ UNCHANGED <<reloads, holder>> /\ ReloadFrame

Swap ==
  /\ ReloadStep("swap", "idle")
  /\ holder' = reload.policy
  /\ UNCHANGED <<inForce, reloads, installs>> /\ ReloadFrame

-----------------------------------------------------------------------------
(* The connect cache, as the engine changes it.                            *)

CacheFrame == UNCHANGED <<policies, denials, refused, ring, current, log>>

\* recordConnectDest, of any connect of a tagged process.
RecordConnectDest(p, t) == Started /\ connects' = [connects EXCEPT ![p] = t] /\ CacheFrame

\* The process exits, or the entry is older than connectCacheTTL.
Forget(p) == Started /\ connects' = [connects EXCEPT ![p] = None] /\ CacheFrame

-----------------------------------------------------------------------------
(* deny.Consumer.                                                          *)

ConsumerFrame == UNCHANGED <<policies, denials, refused, connects>>

Read ==
  /\ Started /\ current = << >> /\ ring # << >>
  /\ current' = <<Head(ring)>>
  /\ ring' = Tail(ring)
  /\ UNCHANGED log /\ ConsumerFrame

\* resolveTarget.
ResolveTarget(v) ==
  IF v.target # None \/ v.rule \notin ConnectRule THEN v.target ELSE connects[v.pid]

\* Mutation: a record whose rule is not known is skipped.
MutEmit ==
  /\ current # << >>
  /\ LET v == Head(current)
     IN  log' = IF v.rule \notin holder.rules THEN log ELSE
                Append(log, [n |-> v.n, to |-> v.to, target |-> ResolveTarget(v),
                             nth |-> v.nth, calm |-> v.calm = reloads + 1 /\ reload.pc = "idle",
                             policy |-> holder, rule |-> v.rule])
  /\ current' = << >>
  /\ UNCHANGED ring /\ ConsumerFrame

\* emit: the record is reported with the holder's version, and with the rule if
\* the holder's policy has one of that hash.
Emit ==
  /\ current # << >>
  /\ LET v == Head(current)
     IN  log' = Append(log, [n |-> v.n, to |-> v.to, target |-> ResolveTarget(v),
                             nth |-> v.nth, calm |-> v.calm = reloads + 1 /\ reload.pc = "idle",
                             policy |-> holder,
                             rule |-> IF v.rule \in holder.rules THEN v.rule ELSE None])
  /\ current' = << >>
  /\ UNCHANGED ring /\ ConsumerFrame

-----------------------------------------------------------------------------

\* The hooks are attached, to empty maps or to those of an earlier agent.
Init ==
  /\ inForce \in Policy \cup {None} /\ holder = None
  /\ installs = IF inForce = None THEN << >> ELSE <<inForce>>
  /\ reload = [pc |-> "idle", policy |-> None, prev |-> None] /\ reloads = 0
  /\ denials = 0 /\ refused = {} /\ ring = << >>
  /\ current = << >> /\ log = << >>
  /\ connects = [p \in Pid |-> None]

Next ==
  \/ \E p \in Pid, rule \in Rule, target \in Target, named \in BOOLEAN : Deny(p, rule, target, named)
  \/ DenyUnrecorded
  \/ \E p \in Policy : Withdraw(p)
  \/ Apply \/ ApplyFails \/ Swap
  \/ \E p \in Pid : Forget(p) \/ \E t \in Target : RecordConnectDest(p, t)
  \/ Read \/ Emit

Spec == Init /\ [][Next]_vars

\* The consumer's goroutine keeps running.
FairSpec == Spec /\ WF_vars(Read \/ Emit)

-----------------------------------------------------------------------------

\* Type invariant; the ring buffer stays within its capacity.
TypeOK ==
  /\ inForce \in Policy \cup {None} /\ holder \in Policy \cup {None}
  /\ reload \in [pc : {"idle", "load", "swap"}, policy : Policy \cup {None}, prev : Policy \cup {None}]
  /\ reloads \in 0..MaxReloads /\ denials \in 0..MaxDenials
  /\ refused \subseteq 1..MaxDenials
  /\ installs \in Seq(Policy)
  /\ Len(ring) <= RingCap /\ Len(current) <= 1
  /\ connects \in [Pid -> Target \cup {None}]

\* The policy a decision names is the one that denied the call, and its rule is
\* named, unless the agent started or a reload went on between the denial and the
\* report.  Then it is that policy, one that came into force later, or the one it
\* had just replaced: never an older one, nor one that failed to load (the order
\* of applyLivePolicy and Holder.Swap in reloadPolicy, Consumer.emit).
AttributedToPolicyInForce ==
  \A d \in Range(log) :
    /\ d.calm => d.policy = installs[d.nth] /\ d.rule # None
    /\ \E i \in 1..Len(installs) : i + 1 >= d.nth /\ d.policy = installs[i]

\* The target reported is the one of the denied call, or none where the kernel
\* does not know it; of a denied connect it is always named, and never an
\* earlier destination from the cache (emit_deny_ex, resolveTarget).
TargetIsOwn ==
  \A d \in Range(log) : d.target \in {d.to, None} /\ (d.rule \in ConnectRule => d.target = d.to)

\* The denials on their way to the log, and those in it, by number.
Line == [i \in 1..Len(log) |-> log[i].n] \o [i \in 1..Len(current) |-> current[i].n]
          \o [i \in 1..Len(ring) |-> ring[i].n]

\* Every denial is reported once, in the order of the denials, whatever reloads
\* and the cache do, except those under a rule that met a full ring buffer, and
\* those without a rule (emit_deny_ex, the hooks' other returns, Consumer.Run).
ReportedOnceInOrder ==
  /\ \A i, j \in 1..Len(Line) : i < j => Line[i] < Line[j]
  /\ Range(Line) = (1..denials) \ refused

\* Every record in the ring buffer is reported in the end, once the agent has a
\* policy (Consumer.Run).
EveryRecordReported ==
  \A n \in 1..MaxDenials :
    (Started /\ \E v \in Range(ring) : v.n = n) ~> (\E d \in Range(log) : d.n = n)

-----------------------------------------------------------------------------
(* What the documents say and the code does not do.                        *)

\* config.md: "Each kernel deny emits a `policy_feedback` audit event with rule
\* rationale".  Yet no record is sent of a denial without a rule or when the ring
\* buffer is full, and the rationale is lost with a rule that a reload removes.
EachDenyExplained ==
  ring = << >> /\ current = << >> =>
    \A n \in 1..denials : \E d \in Range(log) : d.n = n /\ d.rule # None
=============================================================================
