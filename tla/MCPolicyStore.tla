--------------------------- MODULE MCPolicyStore ----------------------------
(* Small instances of PolicyStore: two versions, the first of which was       *)
(* signed twice with different contents.                                      *)
EXTENDS PolicyStore, TLC

MCSigned == {[version |-> 1, content |-> "a"], [version |-> 1, content |-> "b"],
             [version |-> 2, content |-> "a"]}

CtlSymmetry == Permutations(Ctl)
=============================================================================
