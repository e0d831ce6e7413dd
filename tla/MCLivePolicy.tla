---------------------------- MODULE MCLivePolicy ----------------------------
(* Small instance of LivePolicy: two actions, a broad deny, a narrow allow  *)
(* that carves one action out of it, a broad allow that must not suppress a *)
(* narrower deny, and a rule the kernel cannot load;                        *)
(* three bundles, two of which share a version number.                      *)
EXTENDS LivePolicy

MCRule(decision, covers, specificity, kernel) ==
  [decision |-> decision, covers |-> covers, specificity |-> specificity, kernel |-> kernel]

DenyAll   == MCRule("deny", {"read", "write"}, 1, TRUE)
DenyWrite == MCRule("deny", {"write"}, 2, TRUE)
AllowRead == MCRule("allow", {"read"}, 2, TRUE)
AllowAll  == MCRule("allow", {"read", "write"}, 1, TRUE)
DenyByUid == MCRule("deny", {"read"}, 3, FALSE)

MCBundle(version, closed, live) == [version |-> version, closed |-> closed, live |-> live]

MCActions == {"read", "write"}
MCRules   == {DenyAll, DenyWrite, AllowRead, AllowAll, DenyByUid}
MCBundles == { MCBundle(1, TRUE, {DenyAll, AllowRead}),
               MCBundle(2, FALSE, {DenyWrite, DenyByUid}),
               MCBundle(2, TRUE, {AllowAll, DenyWrite}) }

\* Stores whose bundles agree on the fail direction, and all deny a write.
MCClosedBundles == {MCBundle(1, TRUE, {DenyAll, AllowRead}), MCBundle(2, TRUE, {DenyWrite})}
MCOpenBundles == {MCBundle(1, FALSE, {DenyAll, AllowRead}), MCBundle(2, FALSE, {DenyWrite})}
=============================================================================
