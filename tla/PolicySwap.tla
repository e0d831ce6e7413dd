----------------------------- MODULE PolicySwap -----------------------------
(* What the policy loader promises the kernel: at any time at most one      *)
(* policy is in force, it is in force as a whole, and one policy follows    *)
(* another only through a gap in which none is in force.                    *)
CONSTANTS Policy, NoPolicy

VARIABLE inForce

Init == inForce = NoPolicy

Install(p) == inForce = NoPolicy /\ inForce' = p

Withdraw == inForce' = NoPolicy

Next == Withdraw \/ \E p \in Policy : Install(p)

Spec == Init /\ [][Next]_inForce
=============================================================================
