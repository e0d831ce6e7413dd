---------------------------- MODULE ConnectRules ----------------------------
(***************************************************************************)
(* Connect rules, evaluated twice: the counterpart of PathRules for network *)
(* destinations.                                                           *)
(*                                                                         *)
(* EvaluateActions (eval.go) judges a destination against the compiled     *)
(* rules.  loadConnectRule (mapload.go) spreads each rule over two address *)
(* tries and two port tables, in which a later put replaces an earlier one *)
(* under the same key, and enforce_connect_parsed (enforcer.bpf.c) judges  *)
(* the destination by one lookup in each, and one for port 0, where        *)
(* dest_port_not_in rules leave their catch-all.                           *)
(*                                                                         *)
(* What is abstracted: an address is a sequence of bits with a family, and *)
(* addresses of both families are shorter than real ones.  A CIDR is a     *)
(* prefix with a family.  The rule's hash is its position: collisions of   *)
(* RuleIDHash are left out, and so are rules on uid, binary and cgroup,    *)
(* which are not loaded.                                                   *)
(***************************************************************************)
EXTENDS Naturals, Sequences, FiniteSetsExt

CONSTANTS
  Bundles,   \* sequences of enforced, compiled connect rules
  Inputs,    \* destinations: [v6, bits, port]
  PortSpec   \* what a port predicate adds to specificity (16 of 32 bits)

Bits == Seq({0, 1})

Cidrs == [v6 : BOOLEAN, bits : Bits]

Rules ==
  [decision : {"deny", "allow"}, ipIn : SUBSET Cidrs, ipNotIn : SUBSET Cidrs,
   portIn : SUBSET Nat, portNotIn : SUBSET Nat]

ASSUME ConnectAssumption ==
  /\ Bundles \subseteq Seq(Rules)
  /\ Inputs \subseteq [v6 : BOOLEAN, bits : Bits, port : Nat]

VARIABLES
  live,      \* the rules being loaded
  at,        \* the next rule to load
  failed,    \* LoadLive has returned an error
  maps       \* ip_deny, ip_allow, port_deny, port_allow

vars == <<live, at, failed, maps>>

-----------------------------------------------------------------------------
(* A rule is [decision, ipIn, ipNotIn, portIn, portNotIn].                 *)

\* net.IPNet.Contains and the trie compare the bits of a network.
IsPrefix(s, t) == Len(s) <= Len(t) /\ SubSeq(t, 1, Len(s)) = s

\* ipInCIDR: never across families.
InCidr(in, cidr) == in.v6 = cidr.v6 /\ IsPrefix(cidr.bits, in.bits)

RuleMatchesDestIP(r, in) ==
  /\ \A c \in r.ipNotIn : ~InCidr(in, c)
  /\ r.ipIn = {} \/ \E c \in r.ipIn : InCidr(in, c)

RuleMatchesDestPort(r, in) ==
  in.port \notin r.portNotIn /\ (r.portIn = {} \/ in.port \in r.portIn)

RuleMatches(r, in) == RuleMatchesDestIP(r, in) /\ RuleMatchesDestPort(r, in)

\* EvaluateActions, of which only the decision is kept: a deny that matches is
\* displaced by another deny only.
EvaluateActions(rules, in) ==
  LET decisions == {r.decision : r \in {q \in Range(rules) : RuleMatches(q, in)}}
  IN  CASE "deny" \in decisions -> "deny"
        [] decisions = {"allow"} -> "allow"
        [] OTHER -> "none"

HasIP(r) == r.ipIn \cup r.ipNotIn # {}

HasPort(r) == r.portIn \cup r.portNotIn # {}

\* matchSpecificity.
Specificity(r) ==
  Max({1} \cup {Len(c.bits) : c \in r.ipIn \cup r.ipNotIn}
          \cup (IF HasPort(r) THEN {PortSpec} ELSE {}))

\* rulesOverlap: address lists are compared as texts, so they overlap when they
\* share an entry.
RulesOverlap(a, b) ==
  LET disjoint(x, y) == x # {} /\ y # {} /\ x \cap y = {}
  IN  ~ \/ disjoint(a.ipIn, b.ipIn) \/ disjoint(a.ipNotIn, b.ipNotIn)
        \/ disjoint(a.portIn, b.portIn) \/ disjoint(a.portNotIn, b.portNotIn)

\* resolveConflicts.
Compiles(rules) ==
  \A i, j \in 1..Len(rules) :
    i < j /\ rules[i].decision = rules[j].decision
          /\ Specificity(rules[i]) = Specificity(rules[j])
      => ~RulesOverlap(rules[i], rules[j])

-----------------------------------------------------------------------------
(* Loading.  Entries are [id, paired, spec]: paired is requires_port in the *)
(* tries and requires_ip in the port tables.                               *)

NoEntry == [id |-> 0, paired |-> FALSE, spec |-> 0]

NoMaps == [ip_deny |-> << >>, ip_allow |-> << >>, port_deny |-> << >>, port_allow |-> << >>]

Puts(map, keys, entry) ==
  [k \in DOMAIN map \cup keys |-> IF k \in keys THEN entry ELSE map[k]]

\* cidrToLPM: the key of a CIDR does not say its family.  Both catch-alls of
\* dest_ip_not_in have the empty key.
LpmKeys(cidrs) == {c.bits : c \in cidrs}

IpCatchAll == << >>

PortCatchAll == 0

\* loadConnectRule: exceptions of a deny rule go to the allow maps, under the rule's
\* own id, and a catch-all to the deny maps.  What an allow rule with exceptions has
\* put before it is refused stays.
PutRule(m, r, id) ==
  LET ip == [id |-> id, paired |-> HasPort(r), spec |-> Specificity(r)]
      port == [id |-> id, paired |-> HasIP(r), spec |-> 0]
      ipCatch == IF r.ipNotIn = {} THEN {} ELSE {IpCatchAll}
      portCatch == IF r.portNotIn = {} THEN {} ELSE {PortCatchAll}
  IN  IF r.decision = "deny"
      THEN [ip_deny |-> Puts(m.ip_deny, LpmKeys(r.ipIn) \cup ipCatch, ip),
            ip_allow |-> Puts(m.ip_allow, LpmKeys(r.ipNotIn), ip),
            port_deny |-> Puts(m.port_deny, r.portIn \cup portCatch, port),
            port_allow |-> Puts(m.port_allow, r.portNotIn, port)]
      ELSE [m EXCEPT !.ip_allow = Puts(@, LpmKeys(r.ipIn), ip),
                     !.port_allow = Puts(@, IF r.ipNotIn = {} THEN r.portIn ELSE {}, port)]

\* Lists of exceptions need a deny rule, and a rule without predicates is refused.
Accepted(r) ==
  /\ HasIP(r) \/ HasPort(r)
  /\ r.decision = "deny" \/ (r.ipNotIn = {} /\ r.portNotIn = {})

\* Mutation: a rule that is refused is skipped as well.
MutLoadConnectRule ==
  /\ ~failed /\ at <= Len(live)
  /\ maps' = PutRule(maps, live[at], at)
  /\ at' = at + 1 /\ failed' = ~Accepted(live[at])
  /\ UNCHANGED live

\* One turn of LoadLive's loop.
LoadConnectRule ==
  /\ ~failed /\ at <= Len(live)
  /\ maps' = PutRule(maps, live[at], at)
  /\ IF Accepted(live[at]) THEN at' = at + 1 /\ UNCHANGED failed
     ELSE failed' = TRUE /\ UNCHANGED at
  /\ UNCHANGED live

\* clearPolicyMaps has run.
Init ==
  /\ live \in {b \in Bundles : Compiles(b)}
  /\ at = 1
  /\ failed = FALSE
  /\ maps = NoMaps

Next == LoadConnectRule

Spec == Init /\ [][Next]_vars

-----------------------------------------------------------------------------
(* The kernel's verdict: the id of the rule a connect is denied under, or 0. *)

\* Mutation: a lookup finds entries for single addresses only.
MutIpLookup(trie, in) == IF in.bits \in DOMAIN trie THEN trie[in.bits] ELSE NoEntry

\* ip_lpm_lookup.
IpLookup(trie, in) ==
  LET hits == {k \in DOMAIN trie : IsPrefix(k, in.bits)}
  IN  IF hits = {} THEN NoEntry
      ELSE trie[CHOOSE k \in hits : \A h \in hits : Len(h) <= Len(k)]

PortLookup(table, port) == IF port \in DOMAIN table THEN table[port] ELSE NoEntry

\* connect_rule_matches.
ConnectRuleMatches(ip, port) == ip # NoEntry /\ (ip.paired => port.id = ip.id)

\* Mutation: a rule's exceptions are not looked up.
MutNotExcepted(deny, allow) == deny # NoEntry

\* ip_not_in_rule_matches and port_not_in_rule_matches: the rule has no exception
\* for the destination.
NotExcepted(deny, allow) == deny # NoEntry /\ allow.id # deny.id

\* Mutation: the exceptions of a rule with both catch-alls are not looked at.
MutBothCatchAlls(dip, aip, apt, catch) ==
  dip # NoEntry /\ dip.id = catch.id /\ dip.paired /\ catch.paired

\* The first deny of enforce_connect_parsed: dest_ip_not_in with dest_port_not_in.
BothCatchAlls(dip, aip, apt, catch) ==
  /\ dip.id = catch.id /\ dip.paired /\ catch.paired
  /\ NotExcepted(dip, aip) /\ NotExcepted(catch, apt)

\* Its fourth: a deny entry for addresses paired with one for ports.
Paired(dip, dpt) == dip.paired /\ ConnectRuleMatches(dip, dpt)

\* enforce_connect_parsed, with its returns in order.
EnforceConnect(m, in) ==
  LET dip == IpLookup(m.ip_deny, in)
      aip == IpLookup(m.ip_allow, in)
      dpt == PortLookup(m.port_deny, in.port)
      apt == PortLookup(m.port_allow, in.port)
      catch == PortLookup(m.port_deny, PortCatchAll)
  IN  IF ConnectRuleMatches(aip, apt) THEN 0
      ELSE IF BothCatchAlls(dip, aip, apt, catch) THEN dip.id
      ELSE IF ~dip.paired /\ NotExcepted(dip, aip) THEN dip.id
      ELSE IF ~catch.paired /\ NotExcepted(catch, apt) THEN catch.id
      ELSE IF Paired(dip, dpt) THEN (IF aip.spec > dip.spec THEN 0 ELSE dip.id)
      ELSE IF in.port # PortCatchAll /\ NotExcepted(dpt, apt) THEN dpt.id
      ELSE 0

KernelDenies(in) == EnforceConnect(maps, in) # 0

Loaded == ~failed /\ at > Len(live)

\* What the maps hold after loading rules.
LoadLive(rules) ==
  LET load[n \in 0..Len(rules)] == IF n = 0 THEN NoMaps ELSE PutRule(load[n-1], rules[n], n)
  IN  load[Len(rules)]

-----------------------------------------------------------------------------

\* The first rule that has put nothing yet.
Untouched == IF failed THEN at + 1 ELSE at

\* Type invariant: entries stem from rules loaded so far, or from the one that was
\* refused, at which loading stops.
TypeOK ==
  /\ at \in 1..(Len(live) + 1)
  /\ failed \in BOOLEAN /\ (failed => at <= Len(live))
  /\ \A m \in DOMAIN maps : \A k \in DOMAIN maps[m] : maps[m][k].id \in 1..(Untouched - 1)

\* A rule on addresses or on ports, by inclusion or by exception.
Simple(r) ==
  LET lists == {"ipIn", "ipNotIn", "portIn", "portNotIn"}
  IN  \E x \in lists : r[x] # {} /\ \A y \in lists \ {x} : r[y] = {}

\* Moreover it does not deny port 0, the key of the catch-all, and allows nothing
\* but addresses: an allowed port would replace the exception of a deny rule.
Plain(r) == /\ Simple(r) /\ PortCatchAll \notin r.portIn
            /\ r.decision = "allow" => r.ipIn # {}

CatchAll(r) == r.ipNotIn # {} \/ r.portNotIn # {}

Each(P(_)) == \A i \in 1..Len(live) : P(live[i])

\* All addresses of the rules are of the destination's family.
SameFamily(in) == \A i \in 1..Len(live) : \A c \in live[i].ipIn \cup live[i].ipNotIn : c.v6 = in.v6

\* With plain rules of the destination's family, a denied connect is reported
\* under a deny rule that really matches it, in spite of catch-alls and exceptions
\* that replace or hide those of other rules.  So the kernel denies nothing that
\* EvaluateActions does not (loadConnectRule, enforce_connect_parsed).
DenialAttributed ==
  Loaded /\ Each(Plain) =>
    \A in \in Inputs : SameFamily(in) /\ KernelDenies(in) =>
      LET r == live[EnforceConnect(maps, in)] IN r.decision = "deny" /\ RuleMatches(r, in)

\* An entry of an allow rule stands at a network of the destination.
Carved(in) ==
  \E i \in 1..Len(live) :
    live[i].decision = "allow" /\ \E c \in live[i].ipIn : IsPrefix(c.bits, in.bits)

\* Plain rules, no dest_ip_not_in and at most one dest_port_not_in among them, are
\* enforced completely where no allow rule carves an address out: what
\* EvaluateActions denies the kernel denies, on whatever port (loadConnectRule,
\* enforce_connect_parsed).
DenyListComplete ==
  Loaded /\ Each(LAMBDA r : Plain(r) /\ r.ipNotIn = {})
         /\ (\A i, j \in 1..Len(live) : CatchAll(live[i]) /\ CatchAll(live[j]) => i = j)
    => \A in \in Inputs : EvaluateActions(live, in) = "deny" /\ ~Carved(in) => KernelDenies(in)

\* A single deny rule is enforced exactly as EvaluateActions reads it, unless it
\* gives a list both ways or pairs addresses with dest_port_in, on any port but 0;
\* dest_ip_not_in with dest_port_not_in is covered (loadConnectRule,
\* enforce_connect_parsed).
DenyRuleExact ==
  Loaded /\ Len(live) = 1 /\ live[1].decision = "deny"
         /\ (live[1].portIn = {} \/ Plain(live[1]))
         /\ (live[1].ipIn = {} \/ live[1].ipNotIn = {})
    => \A in \in Inputs : SameFamily(in) /\ in.port # PortCatchAll =>
         (KernelDenies(in) <=> EvaluateActions(live, in) = "deny")

-----------------------------------------------------------------------------
(* What documents and comments say and the kernel's evaluation does not do. *)

\* policy.md: "deny beats allow"; architecture.md: "deny wins over allow", where an
\* allow is a carve-out from a broader deny.  So an allow rule that is no narrower
\* than a deny rule does not suppress it.  Yet the first return of
\* enforce_connect_parsed is for an allow entry at the address, whatever is denied.
DenyBeatsAllow ==
  Loaded /\ Each(Plain) =>
    \A in \in Inputs, i, j \in 1..Len(live) :
      /\ live[i].decision = "deny" /\ RuleMatches(live[i], in)
      /\ live[j].decision = "allow" /\ RuleMatches(live[j], in)
      /\ Specificity(live[j]) <= Specificity(live[i])
      => KernelDenies(in)

\* README.md: userspace evaluation emits "would-have-blocked" events.  Yet a deny
\* rule on addresses and ports blocks its ports at every address: the last deny
\* does not look at requires_ip.
WouldHaveBlocked ==
  Loaded => \A in \in Inputs : KernelDenies(in) => EvaluateActions(live, in) = "deny"

\* mapload.go: "dest_ip_not_in + deny -> allowed CIDRs stored in ip_allow (inverted
\* match at hook time)".  Yet with dest_port_in the catch-all reaches the deny meant
\* for paired rules, which denies the allowed addresses too.
ExceptedNotDenied ==
  Loaded => \A in \in Inputs : KernelDenies(in) =>
    \A c \in live[EnforceConnect(maps, in)].ipNotIn : ~InCidr(in, c)

\* packs/generic-agent.yaml on its dest_ip_not_in rule: "IPv6 egress is not matched
\* by this rule".  Yet its catch-all matches every address.
V6NotMatched ==
  Loaded /\ Each(LAMBDA r : \A c \in r.ipIn \cup r.ipNotIn : ~c.v6) =>
    \A in \in Inputs : in.v6 => ~KernelDenies(in)

\* architecture.md: "The compiler rejects bundles it can't order unambiguously, so
\* the kernel never resolves a tie at runtime".  Yet the exception of a deny rule and
\* a carve-out for a port, on the same network, share a key of ip_allow, and the one
\* loaded last decides on the other ports.
NoTies ==
  Loaded => LET reversed == LoadLive([i \in 1..Len(live) |-> live[Len(live) + 1 - i]])
            IN  \A in \in Inputs : KernelDenies(in) <=> EnforceConnect(reversed, in) # 0
=============================================================================
