------------------------- MODULE DenyConsumerProofs -------------------------
(* Theorems about DenyConsumer, for any policies, processes and targets, any  *)
(* capacity of the ring buffer and any number of denials and reloads.         *)
EXTENDS DenyConsumer, SequenceTheorems, TLAPS

RecordType ==
  [pid : Pid, rule : Rule, target : Target \cup {None}, n : Nat, to : Target, nth : Nat, calm : Nat]

DecisionType ==
  [n : Nat, to : Target, target : Target \cup {None}, nth : Nat, calm : BOOLEAN,
   policy : Policy, rule : Rule \cup {None}]

ReloadType == [pc : {"idle", "load", "swap"}, policy : Policy \cup {None}, prev : Policy \cup {None}]

\* The type invariant in the form the proofs need.
Typed ==
  /\ inForce \in Policy \cup {None} /\ holder \in Policy \cup {None}
  /\ reload \in ReloadType
  /\ reloads \in 0..MaxReloads /\ denials \in 0..MaxDenials /\ refused \subseteq 1..MaxDenials
  /\ installs \in Seq(Policy)
  /\ ring \in Seq(RecordType) /\ Len(ring) <= RingCap
  /\ current \in Seq(RecordType) /\ Len(current) <= 1
  /\ log \in Seq(DecisionType)
  /\ connects \in [Pid -> Target \cup {None}]

\* The holder's policy is the last to have come into force; between activation
\* and Holder.Swap it is the last but one.  Until there is one, nothing is read.
HolderInv ==
  /\ inForce # None => Len(installs) > 0
  /\ holder = None => Len(current) = 0
  /\ reload.pc = "idle" /\ holder # None =>
       Len(installs) > 0 /\ holder = installs[Len(installs)] /\ inForce \in {holder, None}
  /\ reload.pc = "load" =>
       /\ holder # None => Len(installs) > 0 /\ holder = installs[Len(installs)]
       /\ inForce = None /\ reload.policy \in Policy /\ reload.prev = holder
  /\ reload.pc = "swap" =>
       /\ holder # None => Len(installs) > 1 /\ holder = installs[Len(installs) - 1]
       /\ Len(installs) > 0 /\ reload.policy = installs[Len(installs)] /\ inForce = reload.policy

\* A record is about a policy that was in force; it is calm until the next
\* reload begins.  The address of a connect is in it.
RecordInv(v) ==
  /\ v.nth \in 1..Len(installs)
  /\ v.calm <= reloads + 1
  /\ v.calm = reloads + 1 =>
       holder # None /\ reload.pc = "idle" /\ v.nth = Len(installs) /\ v.rule \in holder.rules
  /\ IF v.rule \in ConnectRule THEN v.target = v.to ELSE v.target \in {v.to, None}

DecisionInv(d) ==
  /\ d.nth \in 1..Len(installs)
  /\ d.calm => d.policy = installs[d.nth] /\ d.rule # None
  /\ \E i \in 1..Len(installs) : i + 1 >= d.nth /\ d.policy = installs[i]
  /\ d.target \in {d.to, None} /\ (d.rule \in ConnectRule => d.target = d.to)

\* The inductive invariant.
ConsumerInv ==
  /\ Typed
  /\ HolderInv
  /\ \A i \in 1..Len(ring) : RecordInv(ring[i])
  /\ \A i \in 1..Len(current) : RecordInv(current[i])
  /\ \A i \in 1..Len(log) : DecisionInv(log[i])

-----------------------------------------------------------------------------

\* A denial in force while no reload goes on is the holder's.
LEMMA DenyKeeps ==
  ASSUME ConsumerInv, NEW p \in Pid, NEW rule \in Rule, NEW target \in Target, NEW named \in BOOLEAN,
         Deny(p, rule, target, named)
  PROVE  ConsumerInv'
<1> DEFINE v == [pid |-> p, rule |-> rule, target |-> VerdictTarget(rule, target, named),
                 n |-> denials', to |-> target, nth |-> Len(installs),
                 calm |-> IF Started /\ reload.pc = "idle" THEN reloads + 1 ELSE 0]
<1> USE ConsumerAssumption
<1>1. /\ inForce # None /\ rule \in inForce.rules /\ denials' = denials + 1 /\ denials < MaxDenials
      /\ Submit(v) /\ UNCHANGED <<inForce, reload, reloads, holder, installs, current, connects, log>>
  BY Zenon DEF Deny, policies
<1>2. v \in RecordType
  BY <1>1 DEF RecordType, VerdictTarget, ConsumerInv, Typed
<1>3. RecordInv(v)
  <2>1. v.nth \in 1..Len(installs) /\ v.calm <= reloads + 1
    BY <1>1 DEF ConsumerInv, Typed, HolderInv
  <2>2. v.calm = reloads + 1 =>
          holder # None /\ reload.pc = "idle" /\ v.nth = Len(installs) /\ v.rule \in holder.rules
    BY <1>1 DEF ConsumerInv, Typed, HolderInv, Started
  <2>3. IF v.rule \in ConnectRule THEN v.target = v.to ELSE v.target \in {v.to, None}
    BY Zenon DEF VerdictTarget
  <2>4. QED
    BY <2>1, <2>2, <2>3, Zenon DEF RecordInv
<1>4. /\ ring' \in Seq(RecordType) /\ Len(ring') <= RingCap /\ refused' \subseteq 1..MaxDenials
      /\ \A i \in 1..Len(ring') : RecordInv(ring'[i])
  <2>1. CASE Reserve
    <3>1. ring' = Append(ring, v) /\ refused' = refused
      BY <1>1, <2>1, Zenon DEF Submit
    <3>2. /\ ring' \in Seq(RecordType) /\ Len(ring') = Len(ring) + 1
          /\ \A i \in 1..Len(ring') : ring'[i] = IF i <= Len(ring) THEN ring[i] ELSE v
      BY <1>2, <3>1 DEF ConsumerInv, Typed
    <3>3. QED
      BY <1>3, <2>1, <3>1, <3>2 DEF ConsumerInv, Typed, Reserve
  <2>2. CASE ~Reserve
    <3>1. v.n \in 1..MaxDenials
      BY <1>1 DEF ConsumerInv, Typed
    <3>2. QED
      BY <1>1, <2>2, <3>1, ZenonT(30) DEF Submit, ConsumerInv, Typed
  <2>3. QED
    BY <2>1, <2>2, Zenon
<1>5. Typed'
  BY <1>1, <1>4 DEF ConsumerInv, Typed
<1>6. HolderInv'
  BY <1>1, Zenon DEF ConsumerInv, HolderInv
<1>7. (\A i \in 1..Len(ring) : RecordInv(ring[i]))'
  BY <1>1, <1>4, Zenon DEF RecordInv
<1>8. (\A i \in 1..Len(current) : RecordInv(current[i]))'
  BY <1>1, Zenon DEF ConsumerInv, RecordInv
<1>9. (\A i \in 1..Len(log) : DecisionInv(log[i]))'
  BY <1>1, Zenon DEF ConsumerInv, DecisionInv
<1>10. QED
  BY <1>5, <1>6, <1>7, <1>8, <1>9, Zenon DEF ConsumerInv

\* When only the policies change, it is enough that the history grows and that
\* no record is calm once a reload begins.
LEMMA PoliciesChange ==
  ASSUME ConsumerInv, Typed', HolderInv', UNCHANGED <<ring, current, log>>,
         Len(installs') >= Len(installs),
         \A i \in 1..Len(installs) : installs'[i] = installs[i],
         (reload.pc # "idle" /\ reloads' = reloads) \/ reloads' = reloads + 1
  PROVE  ConsumerInv'
<1>1. Len(installs) \in Nat /\ Len(installs') \in Nat /\ reloads \in Nat
  BY DEF ConsumerInv, Typed
<1>2. ASSUME NEW i \in 1..Len(ring') PROVE RecordInv(ring[i])'
  <2>0. ring \in Seq(RecordType) /\ \A k \in 1..Len(ring) : RecordInv(ring[k])
    BY Zenon DEF ConsumerInv, Typed
  <2>1. ring' = ring /\ ring[i] \in RecordType /\ RecordInv(ring[i])
    BY <2>0
  <2>2. QED
    BY <1>1, <2>1 DEF RecordInv, RecordType
<1>3. ASSUME NEW i \in 1..Len(current') PROVE RecordInv(current[i])'
  <2>0. current \in Seq(RecordType) /\ \A k \in 1..Len(current) : RecordInv(current[k])
    BY Zenon DEF ConsumerInv, Typed
  <2>1. current' = current /\ current[i] \in RecordType /\ RecordInv(current[i])
    BY <2>0
  <2>2. QED
    BY <1>1, <2>1 DEF RecordInv, RecordType
<1>4. ASSUME NEW i \in 1..Len(log') PROVE DecisionInv(log[i])'
  <2>0. log \in Seq(DecisionType) /\ \A k \in 1..Len(log) : DecisionInv(log[k])
    BY Zenon DEF ConsumerInv, Typed
  <2>1. log' = log /\ log[i] \in DecisionType /\ DecisionInv(log[i])
    BY <2>0
  <2>2. PICK k \in 1..Len(installs) : k + 1 >= log[i].nth /\ log[i].policy = installs[k]
    BY <2>1, Zenon DEF DecisionInv
  <2>3. k \in 1..Len(installs') /\ log[i].policy = installs'[k]
    BY <1>1, <2>2
  <2>4. log[i].nth \in 1..Len(installs') /\ installs'[log[i].nth] = installs[log[i].nth]
    BY <1>1, <2>1 DEF DecisionInv
  <2>5. QED
    BY <2>1, <2>2, <2>3, <2>4, Zenon DEF DecisionInv
<1>5. QED
  BY <1>2, <1>3, <1>4, Zenon DEF ConsumerInv

LEMMA ReloadTyped ==
  ASSUME reload \in ReloadType, NEW to \in {"idle", "load", "swap"}, reload' = [reload EXCEPT !.pc = to]
  PROVE  reload' \in ReloadType /\ reload'.pc = to /\ reload'.policy = reload.policy /\ reload'.prev = reload.prev
  BY Zenon DEF ReloadType

\* reloadPolicy keeps kernel, holder and history in step.
LEMMA ReloadKeeps ==
  ASSUME ConsumerInv, (\E p \in Policy : Withdraw(p)) \/ Apply \/ ApplyFails \/ Swap
  PROVE  ConsumerInv'
<1> USE ConsumerAssumption DEF ReloadFrame
<1>1. ASSUME NEW p \in Policy, Withdraw(p) PROVE ConsumerInv'
  <2>1. Typed' /\ HolderInv'
    BY <1>1 DEF ReloadType, Withdraw, Kernel!Withdraw, ConsumerInv, Typed, HolderInv
  <2>2. QED
    BY <1>1, <2>1, PoliciesChange DEF ReloadType, Withdraw, ConsumerInv, Typed
<1>2. \A p \in Policy : LET s == Append(installs, p)
                         IN  /\ s \in Seq(Policy) /\ Len(s) = Len(installs) + 1
                             /\ \A i \in 1..Len(installs) : s[i] = installs[i]
                             /\ s[Len(installs) + 1] = p
  BY DEF ConsumerInv, Typed
<1>3. CASE Apply
  <2>1. /\ reload.policy \in Policy /\ reload.pc = "load" /\ reload' = [reload EXCEPT !.pc = "swap"]
        /\ installs' = Append(installs, reload.policy) /\ inForce' = reload.policy
        /\ UNCHANGED <<reloads, holder, denials, refused, ring, current, connects, log>>
    BY <1>3, Zenon DEF Apply, ReloadStep, Install, Kernel!Install, ConsumerInv, HolderInv
  <2>2. /\ installs' \in Seq(Policy) /\ Len(installs') = Len(installs) + 1
        /\ \A i \in 1..Len(installs) : installs'[i] = installs[i]
        /\ installs'[Len(installs) + 1] = reload.policy
    BY <1>2, <2>1, Zenon
  <2>3. Typed'
    <3>1. reload' \in ReloadType
      BY <2>1, ReloadTyped, Zenon DEF ConsumerInv, Typed
    <3>2. inForce' \in Policy \cup {None} /\ installs' \in Seq(Policy)
      BY <2>1, <2>2, Zenon DEF ConsumerInv, Typed
    <3>3. QED
      BY <2>1, <3>1, <3>2, Zenon DEF ConsumerInv, Typed
  <2>4. HolderInv'
    <3>1. /\ Len(installs) \in Nat /\ Len(current') = Len(current) /\ (holder = None => Len(current) = 0)
          /\ holder # None => Len(installs) > 0 /\ holder = installs[Len(installs)]
      BY <2>1 DEF ConsumerInv, Typed, HolderInv
    <3>2. reload'.pc = "swap" /\ reload'.policy = reload.policy
      BY <2>1 DEF ConsumerInv, Typed, ReloadType
    <3>3. /\ Len(installs') > 0 /\ installs'[Len(installs')] = reload.policy
          /\ holder # None => Len(installs') > 1 /\ holder = installs'[Len(installs') - 1]
      BY <2>2, <3>1
    <3> QED
      BY <2>1, <3>1, <3>2, <3>3, Zenon DEF HolderInv
  <2>5. QED
    BY <2>1, <2>2, <2>3, <2>4, PoliciesChange DEF ConsumerInv, Typed
<1>4. CASE ApplyFails
  <2>1. /\ reload.pc = "load" /\ reload' = [reload EXCEPT !.pc = "idle"] /\ reload.prev = holder
        /\ holder # None /\ UNCHANGED <<reloads, holder, denials, refused, ring, current, connects, log>>
    BY <1>4, Zenon DEF ApplyFails, ReloadStep, ConsumerInv, HolderInv, Started
  <2>2. CASE Install(reload.prev)
    <3>1. installs' = Append(installs, holder) /\ inForce' = holder /\ holder \in Policy
      BY <2>1, <2>2, Zenon DEF Install, Kernel!Install, ConsumerInv, Typed
    <3>2. /\ installs' \in Seq(Policy) /\ Len(installs') = Len(installs) + 1
          /\ \A i \in 1..Len(installs) : installs'[i] = installs[i]
          /\ installs'[Len(installs) + 1] = holder
      BY <1>2, <3>1, Zenon
    <3>3. reload' \in ReloadType
      BY <2>1, ReloadTyped, Zenon DEF ConsumerInv, Typed
    <3>4. Typed'
      BY <2>1, <3>1, <3>2, <3>3, Zenon DEF ConsumerInv, Typed
    <3>5. HolderInv'
      BY <2>1, <3>1, <3>2 DEF ConsumerInv, Typed, HolderInv
    <3>6. QED
      BY <2>1, <3>2, <3>4, <3>5, PoliciesChange DEF ConsumerInv, Typed
  <2>3. CASE UNCHANGED <<inForce, installs>>
    <3>1. reload' \in ReloadType /\ reload'.pc = "idle"
      BY <2>1, ReloadTyped, Zenon DEF ConsumerInv, Typed
    <3>2. Typed'
      BY <2>1, <2>3, <3>1, Zenon DEF ConsumerInv, Typed
    <3>3. HolderInv'
      BY <2>1, <2>3, <3>1, Zenon DEF ConsumerInv, HolderInv
    <3>4. QED
      BY <2>1, <2>3, <3>2, <3>3, PoliciesChange DEF ConsumerInv, Typed
  <2>4. QED
    BY <1>4, <2>2, <2>3, Zenon DEF ApplyFails
<1>5. CASE Swap
  <2>1. /\ reload.pc = "swap" /\ reload' = [reload EXCEPT !.pc = "idle"] /\ holder' = reload.policy
        /\ UNCHANGED <<inForce, reloads, installs, denials, refused, ring, current, connects, log>>
    BY <1>5, Zenon DEF Swap, ReloadStep
  <2>2. holder' = installs[Len(installs)] /\ inForce' = holder' /\ holder' \in Policy
    BY <2>1 DEF ConsumerInv, Typed, HolderInv
  <2>3. Typed' /\ HolderInv'
    BY <2>1, <2>2, ZenonT(30) DEF ReloadType, ConsumerInv, Typed, HolderInv
  <2>4. QED
    BY <2>1, <2>3, PoliciesChange DEF ConsumerInv, Typed
<1>6. QED
  BY <1>1, <1>3, <1>4, <1>5, Zenon

\* The consumer moves a record; what is known of it stays.
LEMMA ConsumerKeeps ==
  ASSUME ConsumerInv, Read \/ Emit
  PROVE  ConsumerInv'
<1> USE ConsumerAssumption DEF ConsumerFrame, policies
<1>1. /\ ring \in Seq(RecordType) /\ current \in Seq(RecordType) /\ log \in Seq(DecisionType)
      /\ \A i \in 1..Len(ring) : RecordInv(ring[i])
      /\ \A i \in 1..Len(current) : RecordInv(current[i])
      /\ \A i \in 1..Len(log) : DecisionInv(log[i])
  BY Zenon DEF ConsumerInv, Typed
<1>2. UNCHANGED <<inForce, reload, reloads, holder, installs, denials, refused, connects>>
  BY Zenon DEF Read, Emit
<1>3. CASE Read
  <2>1. /\ holder # None /\ ring # << >> /\ current' = <<Head(ring)>> /\ ring' = Tail(ring) /\ log' = log
    BY <1>3, Zenon DEF Read, Started
  <2>2. /\ Head(ring) \in RecordType /\ Head(ring) = ring[1] /\ 1 \in 1..Len(ring)
        /\ Tail(ring) \in Seq(RecordType) /\ Len(Tail(ring)) = Len(ring) - 1
        /\ \A i \in 1..Len(Tail(ring)) : Tail(ring)[i] = ring[i + 1] /\ i + 1 \in 1..Len(ring)
    BY <1>1, <2>1
  <2>3. /\ current' \in Seq(RecordType) /\ Len(current') = 1 /\ current'[1] = Head(ring)
    BY <2>1, <2>2
  <2>4. Typed'
    BY <1>2, <2>1, <2>2, <2>3 DEF ConsumerInv, Typed
  <2>5. HolderInv'
    BY <1>2, <2>1, Zenon DEF ConsumerInv, HolderInv
  <2>6. \A i \in 1..Len(ring') : RecordInv(ring'[i])
    BY <1>1, <2>1, <2>2, Zenon
  <2>7. \A i \in 1..Len(current') : RecordInv(current'[i])
    BY <1>1, <2>1, <2>2, <2>3
  <2>8. QED
    BY <1>1, <1>2, <2>1, <2>4, <2>5, <2>6, <2>7 DEF ConsumerInv, RecordInv, DecisionInv
<1>4. CASE Emit
  <2> DEFINE v == Head(current)
             d == [n |-> v.n, to |-> v.to, target |-> ResolveTarget(v),
                   nth |-> v.nth, calm |-> v.calm = reloads + 1 /\ reload.pc = "idle",
                   policy |-> holder,
                   rule |-> IF v.rule \in holder.rules THEN v.rule ELSE None]
  <2>1. /\ current # << >> /\ current' = << >> /\ ring' = ring /\ log' = Append(log, d)
    BY <1>4, Zenon DEF Emit
  <2>2. v \in RecordType /\ RecordInv(v) /\ holder \in Policy
    <3>1. Len(current) > 0
      BY <1>1, <2>1
    <3>2. QED
      BY <1>1, <2>1, <3>1 DEF ConsumerInv, Typed, HolderInv
  <2>3. /\ v.n \in Nat /\ v.to \in Target /\ v.target \in Target \cup {None} /\ v.nth \in Nat
        /\ v.rule \in Rule /\ v.pid \in Pid
    BY <2>2, Zenon DEF RecordType
  <2>4. v.target # None \/ v.rule \notin ConnectRule
    BY <2>2, <2>3, Zenon DEF RecordInv
  <2>5. ResolveTarget(v) = v.target
    BY <2>4, Zenon DEF ResolveTarget
  <2>6. d \in DecisionType
    BY <2>2, <2>3, <2>5, Zenon DEF ConsumerInv, Typed, DecisionType
  <2>7. DecisionInv(d)
    <3>1. d.nth \in 1..Len(installs)
      BY <2>2, Zenon DEF RecordInv
    <3>2. d.calm => d.policy = installs[d.nth] /\ d.rule # None
      <4>1. ASSUME v.calm = reloads + 1, reload.pc = "idle"
            PROVE  /\ holder = installs[v.nth] /\ v.rule \in holder.rules
                   /\ (IF v.rule \in holder.rules THEN v.rule ELSE None) # None
        <5>1. holder = installs[v.nth] /\ v.rule \in holder.rules /\ holder \in Policy
          BY <2>2, <4>1, Zenon DEF RecordInv, ConsumerInv, HolderInv, Typed
        <5>2. v.rule # None
          BY <5>1, Zenon
        <5>3. QED
          BY <5>1, <5>2, Zenon
      <4>2. d.calm = (v.calm = reloads + 1 /\ reload.pc = "idle")
        BY ZenonT(30)
      <4>3. d.policy = holder /\ d.nth = v.nth /\ d.rule = IF v.rule \in holder.rules THEN v.rule ELSE None
        BY Zenon
      <4>4. QED
        <5> HIDE DEF d, v
        <5> QED
          BY <4>1, <4>2, <4>3, ZenonT(30)
    <3>3. \E i \in 1..Len(installs) : i + 1 >= d.nth /\ d.policy = installs[i]
      <4>1. \E i \in 1..Len(installs) : i + 1 >= Len(installs) /\ holder = installs[i]
        <5>1. holder # None /\ Len(installs) \in Nat /\ reload.pc \in {"idle", "load", "swap"}
          BY <2>2 DEF ReloadType, ConsumerInv, Typed
        <5>2. \/ Len(installs) > 0 /\ holder = installs[Len(installs)]
              \/ Len(installs) > 1 /\ holder = installs[Len(installs) - 1]
          BY <5>1, Zenon DEF ConsumerInv, HolderInv
        <5>3. QED
          BY <5>1, <5>2
      <4>2. d.policy = holder /\ Len(installs) \in Nat
        BY DEF ConsumerInv, Typed
      <4>3. QED
        <5> HIDE DEF d
        <5> QED
          BY <3>1, <4>1, <4>2
    <3>4. d.target \in {d.to, None}
      BY <2>2, <2>5, Zenon DEF RecordInv
    <3>5. d.rule \in ConnectRule => d.target = d.to
      BY <2>2, <2>5, Zenon DEF RecordInv
    <3>6. QED
      BY <3>1, <3>2, <3>3, <3>4, <3>5, ZenonT(30) DEF DecisionInv
  <2>8. /\ log' \in Seq(DecisionType) /\ Len(log') = Len(log) + 1
        /\ \A i \in 1..Len(log') : log'[i] = IF i <= Len(log) THEN log[i] ELSE d
    <3> HIDE DEF d
    <3> QED
      BY <1>1, <2>1, <2>6
  <2>9. \A i \in 1..Len(log') : DecisionInv(log'[i])
    <3> HIDE DEF d
    <3> QED
      BY <1>1, <2>7, <2>8
  <2>10. Typed'
    <3>1. current' \in Seq(RecordType) /\ Len(current') = 0
      BY <2>1
    <3> QED
      BY <1>2, <2>1, <2>8, <3>1 DEF ConsumerInv, Typed
  <2>11. HolderInv'
    BY <1>2, <2>2, Zenon DEF ConsumerInv, HolderInv
  <2>12. \A i \in 1..Len(ring') : RecordInv(ring[i])'
    BY <1>1, <1>2, <2>1, ZenonT(30) DEF RecordInv
  <2>13. \A i \in 1..Len(current') : RecordInv(current[i])'
    BY <2>1
  <2>14. \A i \in 1..Len(log') : DecisionInv(log[i])'
    BY <1>2, <2>9, ZenonT(30) DEF DecisionInv
  <2>15. QED
    BY <2>10, <2>11, <2>12, <2>13, <2>14, Zenon DEF ConsumerInv
<1>5. QED
  BY <1>3, <1>4, Zenon

\* The invariant holds from the start and in every step.
THEOREM ConsumerInvariant == Spec => []ConsumerInv
<1> USE ConsumerAssumption
<1>1. Init => ConsumerInv
  <2> SUFFICES ASSUME Init PROVE ConsumerInv
    BY Zenon
  <2>1. /\ ring = << >> /\ current = << >> /\ log = << >>
        /\ ring \in Seq(RecordType) /\ current \in Seq(RecordType) /\ log \in Seq(DecisionType)
        /\ Len(ring) = 0 /\ Len(current) = 0 /\ Len(log) = 0
    BY DEF Init
  <2>2. installs \in Seq(Policy) /\ (inForce # None => Len(installs) = 1)
    BY DEF Init
  <2>3. Typed
    BY <2>1, <2>2 DEF ReloadType, Init, Typed
  <2>4. HolderInv
    BY <2>1, <2>2 DEF Init, HolderInv
  <2>5. QED
    BY <2>1, <2>3, <2>4 DEF ConsumerInv
<1>2. ConsumerInv /\ [Next]_vars => ConsumerInv'
  <2> SUFFICES ASSUME ConsumerInv, [Next]_vars PROVE ConsumerInv'
    BY Zenon
  <2>1. ASSUME NEW p \in Pid, Forget(p) \/ \E t \in Target : RecordConnectDest(p, t) PROVE ConsumerInv'
    <3>1. /\ connects' \in [Pid -> Target \cup {None}]
          /\ UNCHANGED <<inForce, reload, reloads, holder, installs, denials, refused, ring, current, log>>
      BY <2>1, Zenon DEF Forget, RecordConnectDest, CacheFrame, policies, ConsumerInv, Typed
    <3>2. QED
      BY <3>1, ZenonT(30) DEF ConsumerInv, Typed, HolderInv, RecordInv, DecisionInv
  <2>2. CASE UNCHANGED vars
    BY <2>2 DEF vars, policies, ConsumerInv, Typed, HolderInv, RecordInv, DecisionInv
  <2>3. CASE DenyUnrecorded
    <3>1. denials' \in 0..MaxDenials /\ refused' \subseteq 1..MaxDenials
      BY <2>3 DEF DenyUnrecorded, ConsumerInv, Typed
    <3>2. UNCHANGED <<inForce, reload, reloads, holder, installs, connects, ring, current, log>>
      BY <2>3, Zenon DEF DenyUnrecorded, policies
    <3>3. QED
      BY <3>1, <3>2, ZenonT(30) DEF ConsumerInv, Typed, HolderInv, RecordInv, DecisionInv
  <2>4. QED
    BY <2>1, <2>2, <2>3, DenyKeeps, ReloadKeeps, ConsumerKeeps, Zenon DEF Next
<1>3. QED
  BY <1>1, <1>2, PTL DEF Spec

\* TypeOK: ring buffer, holder, cache and counters stay within their types.
THEOREM TypeCorrect == Spec => []TypeOK
<1>1. ConsumerInv => TypeOK
  BY Zenon DEF ReloadType, ConsumerInv, Typed, TypeOK
<1>2. QED
  BY <1>1, ConsumerInvariant, PTL

\* A decision names the policy that denied the call, or after a reload one that
\* is at most one older (Consumer.emit against reloadPolicy).
THEOREM AttributedInForce == Spec => []AttributedToPolicyInForce
<1>1. ConsumerInv => AttributedToPolicyInForce
  <2> SUFFICES ASSUME ConsumerInv, NEW i \in 1..Len(log)
               PROVE  /\ log[i].calm => log[i].policy = installs[log[i].nth] /\ log[i].rule # None
                      /\ \E k \in 1..Len(installs) : k + 1 >= log[i].nth /\ log[i].policy = installs[k]
    <3>1. ConsumerInv => DOMAIN log = 1..Len(log)
      BY DEF ConsumerInv, Typed
    <3>2. QED
      BY <3>1, Zenon DEF AttributedToPolicyInForce, Range
  <2>1. DecisionInv(log[i])
    BY Zenon DEF ConsumerInv
  <2>2. QED
    BY <2>1, Zenon DEF DecisionInv
<1>2. QED
  BY <1>1, ConsumerInvariant, PTL

\* The target of a decision is its own call's, never an earlier one from the
\* connect cache (resolveTarget).
THEOREM TargetOwn == Spec => []TargetIsOwn
<1>1. ConsumerInv => TargetIsOwn
  BY DEF ConsumerInv, Typed, DecisionInv, TargetIsOwn, Range
<1>2. QED
  BY <1>1, ConsumerInvariant, PTL

-----------------------------------------------------------------------------
(* The order of the denials on their way from the hooks to the log.           *)

\* A function on 1..n is a sequence of that length.
LEMMA FunctionIsSeq ==
  ASSUME NEW n \in Nat, NEW f \in [1..n -> Nat]
  PROVE  f \in Seq(Nat) /\ Len(f) = n
<1>1. f \in Seq(Nat)
  OBVIOUS
<1>2. DOMAIN f = 1..n /\ DOMAIN f = 1..Len(f) /\ Len(f) \in Nat
  BY <1>1, LenProperties, Zenon
<1>3. QED
  BY <1>1, <1>2

\* The elements of a concatenation.
LEMMA Concatenation ==
  ASSUME NEW s \in Seq(Nat), NEW t \in Seq(Nat)
  PROVE  /\ s \o t \in Seq(Nat) /\ Len(s \o t) = Len(s) + Len(t)
         /\ \A i \in 1..Len(s) : (s \o t)[i] = s[i]
         /\ \A i \in 1..Len(t) : (s \o t)[Len(s) + i] = t[i]
<1>1. Len(s \o t) = Len(s) + Len(t) /\ s \o t \in Seq(Nat)
  BY ConcatProperties, Zenon
<1>2. \A i \in 1..Len(s) + Len(t) : (s \o t)[i] = IF i <= Len(s) THEN s[i] ELSE t[i - Len(s)]
  BY ConcatProperties, Zenon
<1>3. Len(s) \in Nat /\ Len(t) \in Nat
  OBVIOUS
<1> DEFINE st == s \o t
<1> HIDE DEF st
<1>4. \A i \in 1..Len(s) : st[i] = s[i]
  BY <1>2, <1>3 DEF st
<1>5. ASSUME NEW i \in 1..Len(t) PROVE st[Len(s) + i] = t[i]
  <2>1. Len(s) + i \in 1..Len(s) + Len(t) /\ ~(Len(s) + i <= Len(s)) /\ Len(s) + i - Len(s) = i
    BY <1>3
  <2>2. QED
    BY <1>2, <2>1 DEF st
<1>6. QED
  BY <1>1, <1>4, <1>5, Zenon DEF st

\* Line, as a function of log, current and ring.
LineOf(lg, cu, ri) ==
  [i \in 1..Len(lg) |-> lg[i].n] \o [i \in 1..Len(cu) |-> cu[i].n] \o [i \in 1..Len(ri) |-> ri[i].n]

\* Line, by its three parts.
LEMMA LineParts ==
  ASSUME NEW lg \in Seq(DecisionType), NEW cu \in Seq(RecordType), NEW ri \in Seq(RecordType)
  PROVE  /\ LineOf(lg, cu, ri) \in Seq(Nat)
         /\ Len(LineOf(lg, cu, ri)) = Len(lg) + Len(cu) + Len(ri)
         /\ \A i \in 1..Len(lg) : LineOf(lg, cu, ri)[i] = lg[i].n
         /\ \A i \in 1..Len(cu) : LineOf(lg, cu, ri)[Len(lg) + i] = cu[i].n
         /\ \A i \in 1..Len(ri) : LineOf(lg, cu, ri)[Len(lg) + Len(cu) + i] = ri[i].n
<1> DEFINE a == [i \in 1..Len(lg) |-> lg[i].n]
           b == [i \in 1..Len(cu) |-> cu[i].n]
           c == [i \in 1..Len(ri) |-> ri[i].n]
           ab == a \o b
<1>1. Len(lg) \in Nat /\ Len(cu) \in Nat /\ Len(ri) \in Nat
  OBVIOUS
<1>2. a \in Seq(Nat) /\ Len(a) = Len(lg) /\ \A i \in 1..Len(lg) : a[i] = lg[i].n
  <2>1. a \in [1..Len(lg) -> Nat]
    <3>1. \A r \in DecisionType : r.n \in Nat
      BY Zenon DEF DecisionType
    <3>2. \A i \in 1..Len(lg) : lg[i] \in DecisionType
      BY ElementOfSeq, Zenon
    <3>3. \A i \in 1..Len(lg) : lg[i].n \in Nat
      BY <3>1, <3>2, Zenon
    <3>4. QED
      BY <3>3, Zenon
  <2>2. \A i \in 1..Len(lg) : a[i] = lg[i].n
    BY Zenon
  <2> HIDE DEF a
  <2>3. a \in Seq(Nat) /\ Len(a) = Len(lg)
    BY <1>1, <2>1, FunctionIsSeq, ZenonT(30)
  <2>4. QED
    BY <2>2, <2>3, Zenon
<1>3. b \in Seq(Nat) /\ Len(b) = Len(cu) /\ \A i \in 1..Len(cu) : b[i] = cu[i].n
  <2>1. b \in [1..Len(cu) -> Nat]
    <3>1. \A r \in RecordType : r.n \in Nat
      BY Zenon DEF RecordType
    <3>2. \A i \in 1..Len(cu) : cu[i] \in RecordType
      BY ElementOfSeq, Zenon
    <3>3. \A i \in 1..Len(cu) : cu[i].n \in Nat
      BY <3>1, <3>2, Zenon
    <3>4. QED
      BY <3>3, Zenon
  <2>2. \A i \in 1..Len(cu) : b[i] = cu[i].n
    BY Zenon
  <2> HIDE DEF b
  <2>3. b \in Seq(Nat) /\ Len(b) = Len(cu)
    BY <1>1, <2>1, FunctionIsSeq, ZenonT(30)
  <2>4. QED
    BY <2>2, <2>3, Zenon
<1>4. c \in Seq(Nat) /\ Len(c) = Len(ri) /\ \A i \in 1..Len(ri) : c[i] = ri[i].n
  <2>1. c \in [1..Len(ri) -> Nat]
    <3>1. \A r \in RecordType : r.n \in Nat
      BY Zenon DEF RecordType
    <3>2. \A i \in 1..Len(ri) : ri[i] \in RecordType
      BY ElementOfSeq, Zenon
    <3>3. \A i \in 1..Len(ri) : ri[i].n \in Nat
      BY <3>1, <3>2, Zenon
    <3>4. QED
      BY <3>3, Zenon
  <2>2. \A i \in 1..Len(ri) : c[i] = ri[i].n
    BY Zenon
  <2> HIDE DEF c
  <2>3. c \in Seq(Nat) /\ Len(c) = Len(ri)
    BY <1>1, <2>1, FunctionIsSeq, ZenonT(30)
  <2>4. QED
    BY <2>2, <2>3, Zenon
<1>5. LineOf(lg, cu, ri) = ab \o c
  BY Zenon DEF LineOf
<1> HIDE DEF a, b, c
<1>6. /\ ab \in Seq(Nat) /\ Len(ab) = Len(a) + Len(b)
      /\ \A i \in 1..Len(a) : ab[i] = a[i]
      /\ \A i \in 1..Len(b) : ab[Len(a) + i] = b[i]
  BY <1>2, <1>3, Concatenation, ZenonT(30)
<1> HIDE DEF ab
<1> DEFINE l == ab \o c
<1>7. /\ l \in Seq(Nat) /\ Len(l) = Len(ab) + Len(c)
      /\ \A i \in 1..Len(ab) : l[i] = ab[i]
      /\ \A i \in 1..Len(c) : l[Len(ab) + i] = c[i]
  BY <1>4, <1>6, Concatenation, ZenonT(30)
<1> HIDE DEF l
<1>8. \A i \in 1..Len(lg) : l[i] = lg[i].n
  <2>1. \A i \in 1..Len(lg) : i \in 1..Len(ab)
    BY <1>1, <1>2, <1>3, <1>6
  <2>2. QED
    BY <1>2, <1>6, <1>7, <2>1, Zenon
<1>9. ASSUME NEW i \in 1..Len(cu) PROVE l[Len(lg) + i] = cu[i].n
  <2>1. Len(lg) + i \in 1..Len(ab)
    BY <1>1, <1>2, <1>3, <1>6
  <2>2. l[Len(lg) + i] = ab[Len(lg) + i]
    BY <1>7, <2>1, Zenon
  <2>3. i \in 1..Len(b)
    BY <1>3, Zenon
  <2>4. ab[Len(a) + i] = b[i]
    BY <1>6, <2>3, Zenon
  <2>5. QED
    BY <1>2, <1>3, <2>2, <2>4, Zenon
<1>10. \A i \in 1..Len(ri) : l[Len(lg) + Len(cu) + i] = ri[i].n
  BY <1>2, <1>3, <1>4, <1>6, <1>7
<1>11. Len(l) = Len(lg) + Len(cu) + Len(ri)
  BY <1>2, <1>3, <1>4, <1>6, <1>7, Zenon
<1>12. QED
  BY <1>5, <1>7, <1>8, <1>9, <1>10, <1>11, ZenonT(30) DEF l

\* Read and Emit move a record along; the line stays as it is.
LEMMA LineStays ==
  ASSUME ConsumerInv, ConsumerInv', Read \/ Emit
  PROVE  Line' = Line
<1> DEFINE l == LineOf(log, current, ring)
           m == LineOf(log', current', ring')
<1>1. /\ log \in Seq(DecisionType) /\ current \in Seq(RecordType) /\ ring \in Seq(RecordType)
      /\ log' \in Seq(DecisionType) /\ current' \in Seq(RecordType) /\ ring' \in Seq(RecordType)
  BY Zenon DEF ConsumerInv, Typed
<1>2. Line = l /\ Line' = m
  BY Zenon DEF Line, LineOf
<1>3. /\ l \in Seq(Nat) /\ Len(l) = Len(log) + Len(current) + Len(ring)
      /\ \A i \in 1..Len(log) : l[i] = log[i].n
      /\ \A i \in 1..Len(current) : l[Len(log) + i] = current[i].n
      /\ \A i \in 1..Len(ring) : l[Len(log) + Len(current) + i] = ring[i].n
  BY <1>1, LineParts, ZenonT(30)
<1>4. /\ m \in Seq(Nat) /\ Len(m) = Len(log') + Len(current') + Len(ring')
      /\ \A i \in 1..Len(log') : m[i] = log'[i].n
      /\ \A i \in 1..Len(current') : m[Len(log') + i] = current'[i].n
      /\ \A i \in 1..Len(ring') : m[Len(log') + Len(current') + i] = ring'[i].n
  BY <1>1, LineParts, ZenonT(30)
<1> HIDE DEF l, m
<1>5. Len(log) \in Nat /\ Len(current) \in Nat /\ Len(ring) \in Nat
  BY <1>1
<1>6. Len(m) = Len(l) /\ \A i \in 1..Len(l) : m[i] = l[i]
  <2>1. CASE Read
    <3>1. /\ log' = log /\ Len(current) = 0 /\ Len(current') = 1 /\ current'[1] = ring[1]
          /\ Len(ring') = Len(ring) - 1 /\ \A i \in 1..Len(ring') : ring'[i] = ring[i + 1]
      BY <1>1, <2>1 DEF Read
    <3>2. Len(m) = Len(l) /\ Len(l) = Len(log) + Len(ring)
      BY <1>3, <1>4, <1>5, <3>1
    <3>3. \A i \in 1..Len(log) : m[i] = l[i]
      BY <1>3, <1>4, <3>1, Zenon
    <3>4. m[Len(log) + 1] = ring[1].n /\ (Len(ring) > 0 => l[Len(log) + 1] = ring[1].n)
      <4>1. 1 \in 1..Len(current') /\ (Len(ring) > 0 => 1 \in 1..Len(ring))
        BY <1>5, <3>1
      <4>2. Len(log) + Len(current) + 1 = Len(log) + 1
        BY <1>5, <3>1
      <4>3. QED
        BY <1>3, <1>4, <3>1, <4>1, <4>2, SMTT(30)
    <3>5. ASSUME NEW k \in 1..Len(ring') PROVE m[Len(log) + 1 + k] = l[Len(log) + 1 + k]
      <4>1. m[Len(log) + 1 + k] = ring[k + 1].n
        BY <1>4, <3>1, ZenonT(30)
      <4>2. k + 1 \in 1..Len(ring) /\ Len(log) + Len(current) + (k + 1) = Len(log) + 1 + k
        BY <1>5, <3>1
      <4>3. l[Len(log) + Len(current) + (k + 1)] = ring[k + 1].n
        BY <1>3, <4>2, Zenon
      <4>4. QED
        BY <4>1, <4>2, <4>3, Zenon
    <3>6. ASSUME NEW i \in 1..Len(l) PROVE m[i] = l[i]
      <4>1. \/ i \in 1..Len(log)
            \/ i = Len(log) + 1 /\ Len(ring) > 0
            \/ i - Len(log) - 1 \in 1..Len(ring') /\ Len(log) + 1 + (i - Len(log) - 1) = i
        BY <1>5, <3>1, <3>2
      <4>2. QED
        BY <3>3, <3>4, <3>5, <4>1, ZenonT(30)
    <3>7. QED
      BY <3>2, <3>6, Zenon
  <2>2. CASE Emit
    <3>1. /\ ring' = ring /\ Len(current) = 1 /\ Len(current') = 0
          /\ Len(log') = Len(log) + 1 /\ log'[Len(log) + 1].n = current[1].n
          /\ \A i \in 1..Len(log) : log'[i] = log[i]
      <4> DEFINE v == Head(current)
                 d == [n |-> v.n, to |-> v.to, target |-> ResolveTarget(v),
                       nth |-> v.nth, calm |-> v.calm = reloads + 1 /\ reload.pc = "idle",
                       policy |-> holder,
                       rule |-> IF v.rule \in holder.rules THEN v.rule ELSE None]
      <4>1. ring' = ring /\ current # << >> /\ current' = << >> /\ log' = Append(log, d)
        BY <2>2, Zenon DEF Emit
      <4>2. d.n = v.n
        BY Zenon
      <4> HIDE DEF d
      <4>3. Len(current) = 1 /\ Len(current') = 0 /\ v = current[1]
        <5>1. Len(current) \in Nat \ {0}
          BY <1>1, <4>1, EmptySeq, ZenonT(30)
        <5>2. Len(current) = 1
          <6>1. Len(current) <= 1
            BY Zenon DEF ConsumerInv, Typed
          <6>2. QED
            BY <5>1, <6>1
        <5>3. Head(current) = current[1]
          BY <1>1, <4>1
        <5>4. Len(current') = 0
          BY <4>1, Zenon
        <5>5. QED
          BY <5>2, <5>3, <5>4, Zenon
      <4>4. /\ Len(log') = Len(log) + 1 /\ log'[Len(log) + 1] = d
            /\ \A i \in 1..Len(log) : log'[i] = log[i]
        BY <1>1, <4>1
      <4>5. log'[Len(log) + 1].n = current[1].n
        BY <4>2, <4>3, <4>4, Zenon
      <4>6. QED
        BY <4>1, <4>3, <4>4, <4>5, Zenon
    <3>2. Len(m) = Len(l) /\ Len(l) = Len(log) + 1 + Len(ring)
      BY <1>3, <1>4, <1>5, <3>1
    <3>3. ASSUME NEW i \in 1..Len(log) PROVE m[i] = l[i]
      <4>1. i \in 1..Len(log')
        BY <1>5, <3>1
      <4>2. m[i] = log'[i].n
        BY <1>4, <4>1, Zenon
      <4>3. l[i] = log[i].n
        BY <1>3, Zenon
      <4>4. log'[i] = log[i]
        BY <3>1, Zenon
      <4>5. QED
        BY <4>2, <4>3, <4>4, Zenon
    <3>4. m[Len(log) + 1] = l[Len(log) + 1]
      <4>1. 1 \in 1..Len(current) /\ Len(log) + 1 \in 1..Len(log')
        BY <1>5, <3>1
      <4>2. QED
        BY <1>3, <1>4, <3>1, <4>1, Zenon
    <3>5. ASSUME NEW k \in 1..Len(ring) PROVE m[Len(log) + 1 + k] = l[Len(log) + 1 + k]
      <4>1. /\ Len(log') + Len(current') + k = Len(log) + 1 + k
            /\ Len(log) + Len(current) + k = Len(log) + 1 + k
        BY <1>5, <3>1
      <4>2. k \in 1..Len(ring') /\ ring'[k] = ring[k]
        BY <3>1, Zenon
      <4>3. m[Len(log') + Len(current') + k] = ring'[k].n
        BY <1>4, <4>2, Zenon
      <4>4. l[Len(log) + Len(current) + k] = ring[k].n
        BY <1>3, Zenon
      <4>5. QED
        BY <4>1, <4>2, <4>3, <4>4, Zenon
    <3>6. ASSUME NEW i \in 1..Len(l) PROVE m[i] = l[i]
      <4>1. \/ i \in 1..Len(log) \/ i = Len(log) + 1
            \/ i - Len(log) - 1 \in 1..Len(ring) /\ Len(log) + 1 + (i - Len(log) - 1) = i
        BY <1>5, <3>2
      <4>2. QED
        BY <3>3, <3>4, <3>5, <4>1, ZenonT(30)
    <3>7. QED
      BY <3>2, <3>6, Zenon
  <2>3. QED
    BY <2>1, <2>2, Zenon
<1>7. QED
  BY <1>2, <1>3, <1>4, <1>6, SeqEqual, ZenonT(30)

\* ReportedOnceInOrder, with the denials refused being among those made.
OrderInv == refused \subseteq 1..denials /\ ReportedOnceInOrder

\* A denial joins the end of the line, with a number of its own, or is refused.
LEMMA DenyInOrder ==
  ASSUME ConsumerInv, ConsumerInv', OrderInv,
         NEW p \in Pid, NEW rule \in Rule, NEW target \in Target, NEW named \in BOOLEAN,
         Deny(p, rule, target, named)
  PROVE  OrderInv'
<1> DEFINE v == [pid |-> p, rule |-> rule, target |-> VerdictTarget(rule, target, named),
                 n |-> denials', to |-> target, nth |-> Len(installs),
                 calm |-> IF Started /\ reload.pc = "idle" THEN reloads + 1 ELSE 0]
           l == LineOf(log, current, ring)
           m == LineOf(log', current', ring')
<1>1. denials' = denials + 1 /\ denials \in Nat /\ Submit(v) /\ current' = current /\ log' = log
  BY DEF Deny, ConsumerInv, Typed
<1>2. v.n = denials + 1
  BY <1>1, Zenon
<1> HIDE DEF v
<1>3. /\ log \in Seq(DecisionType) /\ current \in Seq(RecordType) /\ ring \in Seq(RecordType)
      /\ ring' \in Seq(RecordType)
  BY Zenon DEF ConsumerInv, Typed
<1>4. Line = l /\ Line' = m
  BY Zenon DEF Line, LineOf
<1>5. /\ l \in Seq(Nat) /\ Len(l) = Len(log) + Len(current) + Len(ring)
      /\ \A i \in 1..Len(log) : l[i] = log[i].n
      /\ \A i \in 1..Len(current) : l[Len(log) + i] = current[i].n
      /\ \A i \in 1..Len(ring) : l[Len(log) + Len(current) + i] = ring[i].n
  BY <1>3, LineParts, SMTT(30)
<1>6. /\ m \in Seq(Nat) /\ Len(m) = Len(log) + Len(current) + Len(ring')
      /\ \A i \in 1..Len(log) : m[i] = log[i].n
      /\ \A i \in 1..Len(current) : m[Len(log) + i] = current[i].n
      /\ \A i \in 1..Len(ring') : m[Len(log) + Len(current) + i] = ring'[i].n
  <2>1. m = LineOf(log, current, ring')
    BY <1>1, Zenon
  <2> HIDE DEF m
  <2>2. QED
    BY <1>3, <2>1, LineParts, ZenonT(30)
<1>7. /\ refused \subseteq 1..denials
      /\ \A i, j \in 1..Len(l) : i < j => l[i] < l[j]
      /\ {l[i] : i \in 1..Len(l)} = (1..denials) \ refused
  <2>1. DOMAIN l = 1..Len(l)
    BY <1>5
  <2>2. QED
    BY <1>4, <2>1, Zenon DEF OrderInv, ReportedOnceInOrder, Range
<1>8. DOMAIN m = 1..Len(m)
  BY <1>6
<1>9. SUFFICES /\ refused' \subseteq 1..denials'
               /\ \A i, j \in 1..Len(m) : i < j => m[i] < m[j]
               /\ {m[i] : i \in 1..Len(m)} = (1..denials') \ refused'
  BY <1>4, <1>8, Zenon DEF OrderInv, ReportedOnceInOrder, Range
<1> HIDE DEF l, m
<1>10. CASE Reserve
  <2>1. ring' = Append(ring, v) /\ refused' = refused
    BY <1>1, <1>10, Zenon DEF Submit
  <2>2. Len(ring') = Len(ring) + 1 /\ \A i \in 1..Len(ring) : ring'[i] = ring[i]
    BY <1>3, <2>1
  <2>3. ring'[Len(ring) + 1] = v
    BY <1>3, <2>1
  <2>4. Len(log) \in Nat /\ Len(current) \in Nat /\ Len(ring) \in Nat
    BY <1>3
  <2>5. Len(m) = Len(l) + 1 /\ Len(l) \in Nat
    BY <1>5, <1>6, <2>2, <2>4
  <2>6. m[Len(l) + 1] = denials + 1
    <3>1. Len(ring) + 1 \in 1..Len(ring') /\ Len(log) + Len(current) + (Len(ring) + 1) = Len(l) + 1
      BY <1>5, <2>2, <2>4
    <3>2. QED
      BY <1>2, <1>6, <2>3, <3>1, Zenon
  <2>7. ASSUME NEW i \in 1..Len(l) PROVE m[i] = l[i]
    <3>1. \A k \in 1..Len(ring) : m[Len(log) + Len(current) + k] = l[Len(log) + Len(current) + k]
      <4>1. \A k \in 1..Len(ring) : k \in 1..Len(ring')
        BY <2>2, <2>4
      <4>2. QED
        BY <1>5, <1>6, <2>2, <4>1, ZenonT(60)
    <3>2. \/ i \in 1..Len(log)
          \/ i - Len(log) \in 1..Len(current) /\ Len(log) + (i - Len(log)) = i
          \/ /\ i - Len(log) - Len(current) \in 1..Len(ring)
             /\ Len(log) + Len(current) + (i - Len(log) - Len(current)) = i
      BY <1>5, <2>4
    <3>3. QED
      BY <1>5, <1>6, <3>1, <3>2, ZenonT(30)
  <2>8. \A i \in 1..Len(l) : l[i] \in 1..denials
    BY <1>7, Zenon
  <2>9. refused' \subseteq 1..denials'
    BY <1>1, <1>7, <2>1
  <2>10. \A i, j \in 1..Len(m) : i < j => m[i] < m[j]
    <3> SUFFICES ASSUME NEW i \in 1..Len(m), NEW j \in 1..Len(m), i < j PROVE m[i] < m[j]
      BY Zenon
    <3>1. i \in 1..Len(l) /\ m[i] = l[i] /\ l[i] \in 1..denials
      BY <2>5, <2>7, <2>8
    <3>2. CASE j \in 1..Len(l)
      BY <1>7, <2>7, <3>1, <3>2, Zenon
    <3>3. CASE j = Len(l) + 1
      BY <1>1, <2>6, <3>1, <3>3
    <3>4. QED
      BY <2>5, <3>2, <3>3
  <2>11. {m[i] : i \in 1..Len(m)} = (1..denials') \ refused'
    <3>1. 1..Len(m) = 1..Len(l) \cup {Len(l) + 1}
      BY <2>5
    <3>2. {m[i] : i \in 1..Len(m)} = {l[i] : i \in 1..Len(l)} \cup {denials + 1}
      BY <2>6, <2>7, <3>1, Zenon
    <3>3. (1..denials') \ refused' = ((1..denials) \ refused) \cup {denials + 1}
      BY <1>1, <1>7, <2>1
    <3>4. QED
      BY <1>7, <3>2, <3>3, ZenonT(30)
  <2>12. QED
    BY <2>9, <2>10, <2>11, Zenon
<1>11. CASE ~Reserve
  <2>1. ring' = ring /\ refused' = refused \cup {denials + 1}
    BY <1>1, <1>2, <1>11, Zenon DEF Submit
  <2>2. m = l
    BY <1>1, <2>1, Zenon DEF l, m
  <2>3. (1..denials') \ refused' = (1..denials) \ refused
    BY <1>1, <1>7, <2>1
  <2>4. refused' \subseteq 1..denials'
    BY <1>1, <1>7, <2>1
  <2>5. QED
    BY <1>7, <2>2, <2>3, <2>4, Zenon
<1>12. QED
  BY <1>10, <1>11, Zenon

\* Every denial is reported once and in order, but those without a rule and those
\* that met a full ring buffer: none is lost, repeated or overtaken between hook and
\* log.
THEOREM OnceInOrder == Spec => []ReportedOnceInOrder
<1>1. Init => OrderInv
  <2> SUFFICES ASSUME Init PROVE OrderInv
    BY Zenon
  <2>1. denials = 0 /\ refused = {} /\ ring = << >> /\ current = << >> /\ log = << >>
    BY Zenon DEF Init
  <2>2. Line \in Seq(Nat) /\ Len(Line) = 0
    <3>1. /\ log \in Seq(DecisionType) /\ current \in Seq(RecordType) /\ ring \in Seq(RecordType)
          /\ Len(log) = 0 /\ Len(current) = 0 /\ Len(ring) = 0
      BY <2>1
    <3>2. Line = LineOf(log, current, ring)
      BY Zenon DEF Line, LineOf
    <3>3. Line \in Seq(Nat) /\ Len(Line) = Len(log) + Len(current) + Len(ring)
      BY <3>1, <3>2, LineParts, Zenon
    <3>4. QED
      BY <3>1, <3>3
  <2>3. DOMAIN Line = {} /\ 1..denials = {}
    BY <2>1, <2>2
  <2>4. QED
    BY <2>1, <2>2, <2>3, Zenon DEF OrderInv, ReportedOnceInOrder, Range
<1>2. ConsumerInv /\ ConsumerInv' /\ OrderInv /\ [Next]_vars => OrderInv'
  <2> SUFFICES ASSUME ConsumerInv, ConsumerInv', OrderInv, [Next]_vars PROVE OrderInv'
    BY Zenon
  <2>1. ASSUME Line' = Line, denials' = denials, refused' = refused PROVE OrderInv'
    BY <2>1, Zenon DEF OrderInv, ReportedOnceInOrder
  <2>2. CASE Read \/ Emit
    BY <2>1, <2>2, LineStays, Zenon DEF Read, Emit, ConsumerFrame
  <2>3. ASSUME UNCHANGED <<log, current, ring, denials, refused>> PROVE OrderInv'
    BY <2>1, <2>3, Zenon DEF Line
  <2>4. CASE (\E p \in Policy : Withdraw(p)) \/ Apply \/ ApplyFails \/ Swap
    BY <2>3, <2>4, Zenon DEF Withdraw, Apply, ApplyFails, Swap, ReloadFrame
  <2>5. CASE \E p \in Pid : Forget(p) \/ \E t \in Target : RecordConnectDest(p, t)
    BY <2>3, <2>5, Zenon DEF Forget, RecordConnectDest, CacheFrame
  <2>6. CASE UNCHANGED vars
    BY <2>3, <2>6, Zenon DEF vars
  <2>7. CASE DenyUnrecorded
    <3>1. denials' = denials + 1 /\ refused' = refused \cup {denials + 1} /\ denials \in Nat
      BY <2>7 DEF DenyUnrecorded, ConsumerInv, Typed
    <3>2. (1..denials') \ refused' = (1..denials) \ refused /\ refused' \subseteq 1..denials'
      BY <3>1 DEF OrderInv
    <3>3. Line' = Line
      BY <2>7, Zenon DEF DenyUnrecorded, Line
    <3>4. QED
      BY <3>2, <3>3, Zenon DEF OrderInv, ReportedOnceInOrder
  <2>8. QED
    BY <2>2, <2>4, <2>5, <2>6, <2>7, DenyInOrder, Zenon DEF Next
<1>3. OrderInv => ReportedOnceInOrder
  BY Zenon DEF OrderInv
<1>4. QED
  BY <1>1, <1>2, <1>3, ConsumerInvariant, PTL DEF Spec
=============================================================================
