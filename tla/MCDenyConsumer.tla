--------------------------- MODULE MCDenyConsumer ---------------------------
(* A small instance of DenyConsumer: two policies, one of which lacks a rule. *)
EXTENDS DenyConsumer

CONSTANT DeniedTarget

MCPolicy == {[version |-> 1, rules |-> {"file", "net"}], [version |-> 2, rules |-> {"net"}]}
MCConnectRule == {"net"}

\* The denied calls have one target, and the connect cache holds any.
MCNext ==
  \/ \E p \in Pid, rule \in Rule, named \in BOOLEAN : Deny(p, rule, DeniedTarget, named)
  \/ DenyUnrecorded
  \/ \E p \in Policy : Withdraw(p)
  \/ Apply \/ ApplyFails \/ Swap
  \/ \E p \in Pid : Forget(p) \/ \E t \in Target : RecordConnectDest(p, t)
  \/ Read \/ Emit

MCSpec == Init /\ [][MCNext]_vars /\ WF_vars(Read \/ Emit)
=============================================================================
