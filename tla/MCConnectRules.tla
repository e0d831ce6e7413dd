--------------------------- MODULE MCConnectRules ---------------------------
(* Small instances of ConnectRules: IPv4 addresses of two bits and IPv6 ones  *)
(* of three, networks that nest, three ports that rules name, 0 among them,   *)
(* and one they do not.                                                       *)
EXTENDS ConnectRules, TLC

Net(bits) == [v6 |-> FALSE, bits |-> bits]

Nets == {Net(<<0>>), Net(<<0, 1>>), Net(<<1>>)}

None == {{}}
Networks == {{n} : n \in Nets}
Ports == {{1}, {2}}

\* Lists of any length, of both families and with port 0.
NetworkLists == SUBSET {Net(<<0>>), Net(<<0, 1>>), [v6 |-> TRUE, bits |-> <<0>>]}
PortLists == SUBSET {0, 1, 2}

RulesOver(decision, ipIn, ipNotIn, portIn, portNotIn) ==
  [decision : {decision}, ipIn : ipIn, ipNotIn : ipNotIn, portIn : portIn, portNotIn : portNotIn]

UpTo(n, rules) == UNION {[1..k -> rules] : k \in 1..n}

DenyExcept == RulesOver("deny", None, Networks, None, None)

SimpleRules(networks, ports) ==
  RulesOver("deny", networks, None, None, None) \cup RulesOver("deny", None, networks, None, None) \cup
  RulesOver("deny", None, None, ports, None) \cup RulesOver("deny", None, None, None, ports) \cup
  RulesOver("allow", networks, None, None, None) \cup RulesOver("allow", None, None, ports, None)

\* Up to three rules of one network or port, or of one list, and every single
\* rule, accepted or not.
MCBundles ==
  UpTo(3, SimpleRules(Networks, Ports)) \cup UpTo(3, SimpleRules(NetworkLists, PortLists)) \cup
  UpTo(1, RulesOver("deny", NetworkLists, NetworkLists, PortLists, PortLists)) \cup
  UpTo(1, RulesOver("allow", NetworkLists, NetworkLists, PortLists, PortLists))

\* Deny rules on addresses and ports, by inclusion and by exception.
PairedBundles == UpTo(1, RulesOver("deny", Networks, None, Ports, None))
ExceptPortBundles == UpTo(1, RulesOver("deny", None, Networks, Ports, None))
ExceptBundles == UpTo(2, DenyExcept)

\* Deny and allow rules on addresses.
DenyAllowBundles ==
  UpTo(2, RulesOver("deny", Networks, None, None, None) \cup RulesOver("allow", Networks, None, None, None))

\* A deny rule with exceptions and a carve-out for one port.
CarveOutBundles == UpTo(2, DenyExcept \cup RulesOver("allow", Networks, None, Ports, None))

Addresses(n) == [1..n -> {0, 1}]

AllInputs == [v6 : {FALSE}, bits : Addresses(2), port : 0..3] \cup
             [v6 : {TRUE}, bits : Addresses(3), port : {0, 1}]
V4Inputs == [v6 : {FALSE}, bits : Addresses(2), port : {1, 2, 3}]
V6Inputs == V4Inputs \cup [v6 : {TRUE}, bits : Addresses(3), port : {1}]
=============================================================================
