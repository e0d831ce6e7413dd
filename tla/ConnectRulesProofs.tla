------------------------- MODULE ConnectRulesProofs -------------------------
(* Theorems about ConnectRules, for any bundles of connect rules, with lists of *)
(* any length, and any destinations.                                          *)
EXTENDS ConnectRules, WellFoundedInduction, TLAPS

-----------------------------------------------------------------------------
(* The longest prefix exists, so a lookup in a trie finds an entry if any key *)
(* is a prefix of the address.                                                *)

LEMMA MinNat ==
  ASSUME NEW T, T \subseteq Nat, T # {}
  PROVE  \E x \in T : \A y \in T : x <= y
<1> DEFINE R == OpToRel(<, Nat)
<1>1. IsWellFoundedOn(R, Nat)
  BY NatLessThanWellFounded, Zenon
<1>2. \A x, y \in Nat : <<y, x>> \in R <=> y < x
  BY Zenon DEF OpToRel
<1> HIDE DEF R
<1>3. PICK x \in T : \A y \in T : ~ (<<y, x>> \in R)
  BY <1>1, WFMin, Zenon
<1>4. ASSUME NEW y \in T PROVE x <= y
  <2>1. x \in Nat /\ y \in Nat
    BY Zenon
  <2>2. ~(y < x)
    BY <2>1, <1>2, <1>3, Zenon
  <2> QED
    BY <2>1, <2>2
<1> QED
  BY <1>4, Zenon

LEMMA PrefixIsShorter ==
  ASSUME NEW s \in Bits, NEW t \in Bits, IsPrefix(s, t)
  PROVE  Len(s) \in Nat /\ Len(t) \in Nat /\ Len(s) <= Len(t)
  BY DEF IsPrefix, Bits

LEMMA EmptyIsPrefix == ASSUME NEW t \in Bits PROVE IsPrefix(<< >>, t)
  BY DEF IsPrefix, Bits

LEMMA LongestPrefix ==
  ASSUME NEW S \in SUBSET Bits, S # {}, NEW t \in Bits, \A s \in S : IsPrefix(s, t)
  PROVE  \E k \in S : \A h \in S : Len(h) <= Len(k)
<1>1. \A s \in S : Len(s) \in Nat /\ Len(t) \in Nat /\ Len(s) <= Len(t)
  BY PrefixIsShorter, Zenon
<1> DEFINE T == {Len(t) - Len(s) : s \in S}
<1>2. T \subseteq Nat /\ T # {}
  BY <1>1
<1>3. PICK x \in T : \A y \in T : x <= y
  BY <1>2, MinNat, Zenon
<1>4. PICK k \in S : x = Len(t) - Len(k)
  BY Zenon
<1>5. ASSUME NEW h \in S PROVE Len(h) <= Len(k)
  <2>1. x <= Len(t) - Len(h)
    BY <1>3, Zenon
  <2> QED
    BY <1>1, <1>4, <2>1
<1> QED
  BY <1>5, Zenon

LEMMA LookupHit ==
  ASSUME NEW trie, DOMAIN trie \subseteq Bits, NEW in \in Inputs,
         NEW k0 \in DOMAIN trie, IsPrefix(k0, in.bits)
  PROVE  \E k \in DOMAIN trie : IsPrefix(k, in.bits) /\ IpLookup(trie, in) = trie[k]
<1> DEFINE hits == {k \in DOMAIN trie : IsPrefix(k, in.bits)}
           best == CHOOSE k \in hits : \A h \in hits : Len(h) <= Len(k)
<1>1. in.bits \in Bits
  BY ConnectAssumption, Zenon
<1>2. hits \in SUBSET Bits /\ hits # {}
  BY Zenon
<1>3. \E k \in hits : \A h \in hits : Len(h) <= Len(k)
  BY <1>1, <1>2, LongestPrefix, Zenon
<1>4. best \in hits
  BY <1>3, Zenon
<1>5. IpLookup(trie, in) = trie[best]
  BY <1>2, Zenon DEF IpLookup
<1> QED
  BY <1>4, <1>5, Zenon

LEMMA LookupMiss ==
  ASSUME NEW trie, NEW in, \A k \in DOMAIN trie : ~IsPrefix(k, in.bits)
  PROVE  IpLookup(trie, in) = NoEntry
  BY Zenon DEF IpLookup

-----------------------------------------------------------------------------
(* What the maps hold: under each key, the entry of some rule that has it.    *)

IpDenyKeys(r) ==
  IF r.decision = "deny" THEN LpmKeys(r.ipIn) \cup (IF r.ipNotIn = {} THEN {} ELSE {IpCatchAll}) ELSE {}

IpAllowKeys(r) == IF r.decision = "deny" THEN LpmKeys(r.ipNotIn) ELSE LpmKeys(r.ipIn)

PortDenyKeys(r) ==
  IF r.decision = "deny" THEN r.portIn \cup (IF r.portNotIn = {} THEN {} ELSE {PortCatchAll}) ELSE {}

PortAllowKeys(r) ==
  IF r.decision = "deny" THEN r.portNotIn ELSE IF r.ipNotIn = {} THEN r.portIn ELSE {}

IpEntry(r, i) == [id |-> i, paired |-> HasPort(r), spec |-> Specificity(r)]

PortEntry(r, i) == [id |-> i, paired |-> HasIP(r), spec |-> 0]

IpEntries == [i \in 1..Len(live) |-> IpEntry(live[i], i)]

PortEntries == [i \in 1..Len(live) |-> PortEntry(live[i], i)]

IpDenies == [i \in 1..Len(live) |-> IpDenyKeys(live[i])]

IpAllows == [i \in 1..Len(live) |-> IpAllowKeys(live[i])]

PortDenies == [i \in 1..Len(live) |-> PortDenyKeys(live[i])]

PortAllows == [i \in 1..Len(live) |-> PortAllowKeys(live[i])]

\* The map has the keys of the rules before n and nothing else.
Filled(map, keys, entry, n) ==
  /\ \A i \in 1..(n - 1) : keys[i] \subseteq DOMAIN map
  /\ \A k \in DOMAIN map : \E i \in 1..(n - 1) : k \in keys[i] /\ map[k] = entry[i]

LEMMA PutsFill ==
  ASSUME NEW map, NEW keys, NEW entry, NEW n \in Nat \ {0}, Filled(map, keys, entry, n)
  PROVE  Filled(Puts(map, keys[n], entry[n]), keys, entry, n + 1)
<1> DEFINE m == Puts(map, keys[n], entry[n])
<1>1. DOMAIN m = DOMAIN map \cup keys[n]
  BY Zenon DEF Puts
<1>2. \A k \in DOMAIN m : m[k] = IF k \in keys[n] THEN entry[n] ELSE map[k]
  BY Zenon DEF Puts
<1> HIDE DEF m
<1>3. 1..(n + 1 - 1) = 1..(n - 1) \cup {n}
  OBVIOUS
<1>4. \A k \in DOMAIN m : \E i \in 1..(n + 1 - 1) : k \in keys[i] /\ m[k] = entry[i]
  BY <1>1, <1>2, <1>3 DEF Filled
<1>5. \A i \in 1..(n + 1 - 1) : keys[i] \subseteq DOMAIN m
  BY <1>1, <1>3, Zenon DEF Filled
<1>6. Filled(m, keys, entry, n + 1)
  BY <1>4, <1>5 DEF Filled
<1> QED
  BY <1>6, Zenon DEF m

LEMMA StillFilled ==
  ASSUME NEW map, NEW keys, NEW entry, NEW n \in Nat \ {0}, Filled(map, keys, entry, n), keys[n] = {}
  PROVE  Filled(map, keys, entry, n + 1)
<1>1. 1..(n + 1 - 1) = 1..(n - 1) \cup {n}
  OBVIOUS
<1> QED
  BY <1>1 DEF Filled

MapNames == {"ip_deny", "ip_allow", "port_deny", "port_allow"}

LoadInv ==
  /\ live \in Seq(Rules) /\ Compiles(live)
  /\ at \in 1..(Len(live) + 1) /\ failed \in BOOLEAN /\ (failed => at <= Len(live))
  /\ \A i \in 1..(at - 1) : Accepted(live[i])
  /\ DOMAIN maps = MapNames
  /\ Filled(maps.ip_deny, IpDenies, IpEntries, Untouched)
  /\ Filled(maps.ip_allow, IpAllows, IpEntries, Untouched)
  /\ Filled(maps.port_deny, PortDenies, PortEntries, Untouched)
  /\ Filled(maps.port_allow, PortAllows, PortEntries, Untouched)

LEMMA InitLoads == Init => LoadInv
<1> SUFFICES ASSUME Init PROVE LoadInv
  BY Zenon
<1>1. live \in Seq(Rules) /\ Compiles(live) /\ at = 1 /\ failed = FALSE
  BY ConnectAssumption, Zenon DEF Init
<1>2. DOMAIN maps = MapNames
  BY Zenon DEF Init, NoMaps, MapNames
<1>3. /\ maps.ip_deny = << >> /\ maps.ip_allow = << >>
      /\ maps.port_deny = << >> /\ maps.port_allow = << >>
  BY Zenon DEF Init, NoMaps
<1>4. \A keys, entry : Filled(<< >>, keys, entry, 1)
  BY DEF Filled
<1>5. /\ Filled(maps.ip_deny, IpDenies, IpEntries, Untouched) /\ Filled(maps.ip_allow, IpAllows, IpEntries, Untouched)
      /\ Filled(maps.port_deny, PortDenies, PortEntries, Untouched)
      /\ Filled(maps.port_allow, PortAllows, PortEntries, Untouched)
  BY <1>1, <1>3, <1>4, Zenon DEF Untouched
<1>6. at \in 1..(Len(live) + 1) /\ 1..(at - 1) = {}
  BY <1>1
<1> QED
  BY <1>1, <1>2, <1>5, <1>6, Zenon DEF LoadInv

\* loadConnectRule, map by map.
LEMMA PutRuleMaps ==
  ASSUME NEW m, DOMAIN m = MapNames, NEW r \in Rules, NEW i
  PROVE  LET m2 == PutRule(m, r, i)
         IN  /\ DOMAIN m2 = MapNames
             /\ r.decision = "deny" =>
                  /\ m2.ip_deny = Puts(m.ip_deny, IpDenyKeys(r), IpEntry(r, i))
                  /\ m2.port_deny = Puts(m.port_deny, PortDenyKeys(r), PortEntry(r, i))
             /\ r.decision # "deny" => m2.ip_deny = m.ip_deny /\ m2.port_deny = m.port_deny
             /\ m2.ip_allow = Puts(m.ip_allow, IpAllowKeys(r), IpEntry(r, i))
             /\ m2.port_allow = Puts(m.port_allow, PortAllowKeys(r), PortEntry(r, i))
  BY Zenon DEF PutRule, MapNames, IpDenyKeys, IpAllowKeys, PortDenyKeys, PortAllowKeys, IpEntry, PortEntry

LEMMA NextLoads == LoadInv /\ [Next]_vars => LoadInv'
<1> SUFFICES ASSUME LoadInv, [Next]_vars PROVE LoadInv'
  BY Zenon
<1>1. CASE UNCHANGED vars
  BY <1>1, Zenon DEF vars, LoadInv, Untouched, IpDenies, IpAllows, PortDenies, PortAllows, IpEntries, PortEntries
<1>2. CASE LoadConnectRule
  <2>1. /\ UNCHANGED live /\ at <= Len(live) /\ ~failed /\ at \in 1..Len(live) /\ Len(live) \in Nat
        /\ at \in Nat \ {0} /\ live[at] \in Rules
    BY <1>2 DEF LoadConnectRule, LoadInv
  <2>2. /\ IpDenies' = IpDenies /\ IpAllows' = IpAllows /\ PortDenies' = PortDenies
        /\ PortAllows' = PortAllows /\ IpEntries' = IpEntries /\ PortEntries' = PortEntries
    BY <2>1, Zenon DEF IpDenies, IpAllows, PortDenies, PortAllows, IpEntries, PortEntries
  <2>3. maps' = PutRule(maps, live[at], at) /\ Untouched = at
    BY <1>2, <2>1, Zenon DEF LoadConnectRule, Untouched
  <2>4. /\ IpDenies[at] = IpDenyKeys(live[at]) /\ IpAllows[at] = IpAllowKeys(live[at])
        /\ PortDenies[at] = PortDenyKeys(live[at]) /\ PortAllows[at] = PortAllowKeys(live[at])
        /\ IpEntries[at] = IpEntry(live[at], at) /\ PortEntries[at] = PortEntry(live[at], at)
    BY <2>1, Zenon DEF IpDenies, IpAllows, PortDenies, PortAllows, IpEntries, PortEntries
  <2>5. /\ DOMAIN maps' = MapNames
        /\ live[at].decision = "deny" =>
             /\ maps'.ip_deny = Puts(maps.ip_deny, IpDenies[at], IpEntries[at])
             /\ maps'.port_deny = Puts(maps.port_deny, PortDenies[at], PortEntries[at])
        /\ live[at].decision # "deny" => maps'.ip_deny = maps.ip_deny /\ maps'.port_deny = maps.port_deny
        /\ maps'.ip_allow = Puts(maps.ip_allow, IpAllows[at], IpEntries[at])
        /\ maps'.port_allow = Puts(maps.port_allow, PortAllows[at], PortEntries[at])
    BY <2>1, <2>3, <2>4, PutRuleMaps DEF LoadInv
  <2>6. live[at].decision # "deny" => IpDenies[at] = {} /\ PortDenies[at] = {}
    BY <2>4, Zenon DEF IpDenyKeys, PortDenyKeys
  <2>7. /\ Filled(maps.ip_deny, IpDenies, IpEntries, at) /\ Filled(maps.ip_allow, IpAllows, IpEntries, at)
        /\ Filled(maps.port_deny, PortDenies, PortEntries, at)
        /\ Filled(maps.port_allow, PortAllows, PortEntries, at)
    BY <2>3, Zenon DEF LoadInv
  <2>8. Filled(maps'.ip_deny, IpDenies, IpEntries, at + 1)
    BY <2>1, <2>5, <2>6, <2>7, PutsFill, StillFilled
  <2>9. Filled(maps'.port_deny, PortDenies, PortEntries, at + 1)
    BY <2>1, <2>5, <2>6, <2>7, PutsFill, StillFilled
  <2>10. /\ Filled(maps'.ip_allow, IpAllows, IpEntries, at + 1)
         /\ Filled(maps'.port_allow, PortAllows, PortEntries, at + 1)
    BY <2>1, <2>5, <2>7, PutsFill, Zenon
  <2>11. CASE Accepted(live[at])
    <3>1. at' = at + 1 /\ UNCHANGED failed /\ Untouched' = at + 1
      BY <1>2, <2>1, <2>11, Zenon DEF LoadConnectRule, Untouched
    <3>2. \A i \in 1..(at' - 1) : Accepted(live'[i])
      BY <2>1, <2>11, <3>1 DEF LoadInv
    <3>3. /\ live' \in Seq(Rules) /\ Compiles(live')
          /\ at' \in 1..(Len(live') + 1) /\ failed' \in BOOLEAN /\ (failed' => at' <= Len(live'))
      BY <2>1, <3>1 DEF LoadInv
    <3> QED
      BY <2>2, <2>5, <2>8, <2>9, <2>10, <3>1, <3>2, <3>3, Zenon DEF LoadInv
  <2>12. CASE ~Accepted(live[at])
    <3>1. failed' = TRUE /\ UNCHANGED at /\ Untouched' = at + 1
      BY <1>2, <2>12, Zenon DEF LoadConnectRule, Untouched
    <3> QED
      BY <2>1, <2>2, <2>5, <2>8, <2>9, <2>10, <3>1, Zenon DEF LoadInv
  <2> QED
    BY <2>11, <2>12, Zenon
<1> QED
  BY <1>1, <1>2, Zenon DEF Next

-----------------------------------------------------------------------------
(* The five lookups of enforce_connect_parsed, once the rules are loaded.     *)

Hits(keys, in) == \E k \in keys : IsPrefix(k, in.bits)

\* The entry e found for a destination is that of a rule with a matching key; it
\* is missing if no rule has one.
IpFound(e, keys, in) ==
  IF e = NoEntry THEN \A i \in 1..Len(live) : ~Hits(keys[i], in)
  ELSE \E i \in 1..Len(live) : Hits(keys[i], in) /\ e = IpEntry(live[i], i)

PortFound(e, keys, port) ==
  IF e = NoEntry THEN \A i \in 1..Len(live) : port \notin keys[i]
  ELSE \E i \in 1..Len(live) : port \in keys[i] /\ e = PortEntry(live[i], i)

LEMMA EntryIsNone ==
  ASSUME NEW r, NEW i \in Nat \ {0} PROVE IpEntry(r, i) # NoEntry /\ PortEntry(r, i) # NoEntry
  BY Zenon DEF IpEntry, PortEntry, NoEntry

LEMMA IpLookupFinds ==
  ASSUME LoadInv, Loaded, NEW in \in Inputs, NEW map, NEW keys,
         \A i \in 1..Len(live) : keys[i] \subseteq Bits, Filled(map, keys, IpEntries, at)
  PROVE  IpFound(IpLookup(map, in), keys, in)
<1>1. 1..(at - 1) = 1..Len(live) /\ Len(live) \in Nat
  BY DEF LoadInv, Loaded
<1>2. DOMAIN map \subseteq Bits
  BY <1>1, Zenon DEF Filled
<1>3. CASE \A k \in DOMAIN map : ~IsPrefix(k, in.bits)
  <2>1. IpLookup(map, in) = NoEntry
    BY <1>3, LookupMiss, Zenon
  <2> QED
    BY <1>1, <1>3, <2>1, Zenon DEF IpFound, Hits, Filled
<1>4. CASE \E k \in DOMAIN map : IsPrefix(k, in.bits)
  <2>1. PICK k \in DOMAIN map : IsPrefix(k, in.bits) /\ IpLookup(map, in) = map[k]
    BY <1>2, <1>4, LookupHit, Zenon
  <2>2. PICK i \in 1..Len(live) : k \in keys[i] /\ map[k] = IpEntries[i]
    BY <1>1, Zenon DEF Filled
  <2>3. IpEntries[i] = IpEntry(live[i], i) /\ IpEntry(live[i], i) # NoEntry
    BY <1>1, EntryIsNone DEF IpEntries
  <2> QED
    BY <2>1, <2>2, <2>3, Zenon DEF IpFound, Hits
<1> QED
  BY <1>3, <1>4, Zenon

LEMMA PortLookupFinds ==
  ASSUME LoadInv, Loaded, NEW port, NEW map, NEW keys, Filled(map, keys, PortEntries, at)
  PROVE  PortFound(PortLookup(map, port), keys, port)
<1>1. 1..(at - 1) = 1..Len(live) /\ Len(live) \in Nat
  BY DEF LoadInv, Loaded
<1>2. CASE port \notin DOMAIN map
  BY <1>1, <1>2, Zenon DEF PortLookup, PortFound, Filled
<1>3. CASE port \in DOMAIN map
  <2>1. PICK i \in 1..Len(live) : port \in keys[i] /\ map[port] = PortEntries[i]
    BY <1>1, <1>3, Zenon DEF Filled
  <2>2. PortEntries[i] = PortEntry(live[i], i) /\ PortEntry(live[i], i) # NoEntry
    BY <1>1, EntryIsNone DEF PortEntries
  <2> QED
    BY <1>3, <2>1, <2>2, Zenon DEF PortLookup, PortFound
<1> QED
  BY <1>2, <1>3, Zenon

Dip(in) == IpLookup(maps.ip_deny, in)

Aip(in) == IpLookup(maps.ip_allow, in)

Dpt(in) == PortLookup(maps.port_deny, in.port)

Apt(in) == PortLookup(maps.port_allow, in.port)

Catch == PortLookup(maps.port_deny, PortCatchAll)

LEMMA Lookups ==
  ASSUME LoadInv, Loaded, NEW in \in Inputs
  PROVE  /\ IpFound(Dip(in), IpDenies, in) /\ IpFound(Aip(in), IpAllows, in)
         /\ PortFound(Dpt(in), PortDenies, in.port) /\ PortFound(Apt(in), PortAllows, in.port)
         /\ PortFound(Catch, PortDenies, PortCatchAll)
<1>1. \A i \in 1..Len(live) : live[i] \in Rules
  BY DEF LoadInv
<1>2. \A S \in SUBSET Cidrs : LpmKeys(S) \subseteq Bits
  BY Zenon DEF LpmKeys, Cidrs
<1>3. IpCatchAll \in Bits
  BY DEF IpCatchAll, Bits
<1>4. \A r \in Rules : IpDenyKeys(r) \subseteq Bits /\ IpAllowKeys(r) \subseteq Bits
  BY <1>2, <1>3, Zenon DEF Rules, IpDenyKeys, IpAllowKeys
<1>5. \A i \in 1..Len(live) : IpDenies[i] \subseteq Bits /\ IpAllows[i] \subseteq Bits
  BY <1>1, <1>4, Zenon DEF IpDenies, IpAllows
<1>6. IpFound(Dip(in), IpDenies, in) /\ IpFound(Aip(in), IpAllows, in)
  BY <1>5, IpLookupFinds, Zenon DEF Dip, Aip, LoadInv, Loaded, Untouched
<1>7. /\ PortFound(Dpt(in), PortDenies, in.port) /\ PortFound(Apt(in), PortAllows, in.port)
      /\ PortFound(Catch, PortDenies, PortCatchAll)
  BY PortLookupFinds, Zenon DEF Dpt, Apt, Catch, LoadInv, Loaded, Untouched
<1> QED
  BY <1>6, <1>7, Zenon

LEMMA Verdict ==
  ASSUME NEW in
  PROVE  EnforceConnect(maps, in) =
           IF ConnectRuleMatches(Aip(in), Apt(in)) THEN 0
           ELSE IF BothCatchAlls(Dip(in), Aip(in), Apt(in), Catch) THEN Dip(in).id
           ELSE IF ~Dip(in).paired /\ NotExcepted(Dip(in), Aip(in)) THEN Dip(in).id
           ELSE IF ~Catch.paired /\ NotExcepted(Catch, Apt(in)) THEN Catch.id
           ELSE IF Paired(Dip(in), Dpt(in)) THEN (IF Aip(in).spec > Dip(in).spec THEN 0 ELSE Dip(in).id)
           ELSE IF in.port # PortCatchAll /\ NotExcepted(Dpt(in), Apt(in)) THEN Dpt(in).id
           ELSE 0
  BY Zenon DEF EnforceConnect, Dip, Aip, Dpt, Apt, Catch

-----------------------------------------------------------------------------
(* What a key that is hit says of its rule.                                   *)

LEMMA CidrHit ==
  ASSUME NEW S, NEW in
  PROVE  /\ \A c \in S : InCidr(in, c) => Hits(LpmKeys(S), in)
         /\ Hits(LpmKeys(S), in) /\ (\A c \in S : c.v6 = in.v6) => \E c \in S : InCidr(in, c)
  BY Zenon DEF InCidr, Hits, LpmKeys

LEMMA IpDenyHit ==
  ASSUME NEW r, NEW in \in Inputs
  PROVE  Hits(IpDenyKeys(r), in) <=> r.decision = "deny" /\ (Hits(LpmKeys(r.ipIn), in) \/ r.ipNotIn # {})
<1>1. IsPrefix(IpCatchAll, in.bits)
  BY ConnectAssumption, EmptyIsPrefix, Zenon DEF IpCatchAll
<1> QED
  BY <1>1, Zenon DEF Hits, IpDenyKeys

LEMMA SimpleLists ==
  ASSUME NEW r \in Rules, Simple(r)
  PROVE  \/ r.ipIn # {} /\ r.ipNotIn = {} /\ r.portIn = {} /\ r.portNotIn = {}
         \/ r.ipIn = {} /\ r.ipNotIn # {} /\ r.portIn = {} /\ r.portNotIn = {}
         \/ r.ipIn = {} /\ r.ipNotIn = {} /\ r.portIn # {} /\ r.portNotIn = {}
         \/ r.ipIn = {} /\ r.ipNotIn = {} /\ r.portIn = {} /\ r.portNotIn # {}
  BY Zenon DEF Simple, Rules

LEMMA SimpleIp ==
  ASSUME NEW r \in Rules, Simple(r), NEW in,
         Hits(IpDenyKeys(r), in) \/ Hits(IpAllowKeys(r), in)
  PROVE  r.portIn = {} /\ r.portNotIn = {} /\ \A i : IpEntry(r, i).paired = FALSE
<1>1. r.ipIn # {} \/ r.ipNotIn # {}
  BY Zenon DEF Hits, IpDenyKeys, IpAllowKeys, LpmKeys
<1>2. r.portIn = {} /\ r.portNotIn = {}
  BY <1>1, SimpleLists, Zenon
<1> QED
  BY <1>2, Zenon DEF IpEntry, HasPort

LEMMA SimplePort ==
  ASSUME NEW r \in Rules, Simple(r), NEW port, NEW i,
         port \in PortDenyKeys(r) \/ port \in PortAllowKeys(r)
  PROVE  r.ipIn = {} /\ r.ipNotIn = {} /\ PortEntry(r, i).paired = FALSE
<1>1. r.portIn # {} \/ r.portNotIn # {}
  BY Zenon DEF PortDenyKeys, PortAllowKeys
<1>2. r.ipIn = {} /\ r.ipNotIn = {}
  BY <1>1, SimpleLists, Zenon
<1> QED
  BY <1>2, Zenon DEF PortEntry, HasIP

\* resolveConflicts keeps the exceptions of two rules on ports apart.
LEMMA ExceptionsApart ==
  ASSUME NEW rules \in Seq(Rules), Compiles(rules), NEW i \in 1..Len(rules), NEW j \in 1..Len(rules),
         Simple(rules[i]), Simple(rules[j]), rules[i].decision = rules[j].decision,
         NEW port \in rules[i].portNotIn, port \in rules[j].portNotIn
  PROVE  i = j
<1>1. rules[i] \in Rules /\ rules[j] \in Rules /\ i \in Nat /\ j \in Nat
  OBVIOUS
<1>2. /\ rules[i].ipIn = {} /\ rules[i].ipNotIn = {} /\ rules[i].portIn = {} /\ rules[i].portNotIn # {}
      /\ rules[j].ipIn = {} /\ rules[j].ipNotIn = {} /\ rules[j].portIn = {} /\ rules[j].portNotIn # {}
  BY <1>1, SimpleLists, Zenon
<1>3. Specificity(rules[i]) = Specificity(rules[j])
  BY <1>2, Zenon DEF Specificity, HasPort
<1>4. RulesOverlap(rules[i], rules[j]) /\ RulesOverlap(rules[j], rules[i])
  BY <1>2, Zenon DEF RulesOverlap
<1>5. ~(i < j) /\ ~(j < i)
  BY <1>3, <1>4, Zenon DEF Compiles
<1> QED
  BY <1>1, <1>5

-----------------------------------------------------------------------------
(* Theorems.                                                                  *)

\* The maps hold, under each key, the entry of a rule that puts it, and every key of
\* every rule loaded so far; the only rule among them that is not accepted is the one
\* at which loading has stopped (LoadLive, loadConnectRule).
THEOREM LoadInvariant == Spec => []LoadInv
  BY InitLoads, NextLoads, PTL DEF Spec

\* Entries stem from rules loaded so far or from the one that was refused; loading
\* stops there (LoadLive).
THEOREM TypeCorrect == Spec => []TypeOK
<1>1. LoadInv => TypeOK
  <2> SUFFICES ASSUME LoadInv PROVE TypeOK
    BY Zenon
  <2>1. \A i \in 1..(Untouched - 1) : i \in 1..Len(live)
    BY DEF LoadInv, Untouched
  <2>2. \A i \in 1..(Untouched - 1) : IpEntries[i].id = i /\ PortEntries[i].id = i
    BY <2>1, Zenon DEF IpEntries, PortEntries, IpEntry, PortEntry
  <2>3. ASSUME NEW map, NEW keys, NEW k \in DOMAIN map,
               Filled(map, keys, IpEntries, Untouched) \/ Filled(map, keys, PortEntries, Untouched)
        PROVE  map[k].id \in 1..(Untouched - 1)
    BY <2>2, <2>3 DEF Filled
  <2>4. \A m \in MapNames : \A k \in DOMAIN maps[m] : maps[m][k].id \in 1..(Untouched - 1)
    BY <2>3, Zenon DEF LoadInv, MapNames
  <2> QED
    BY <2>4, Zenon DEF LoadInv, TypeOK
<1> QED
  BY <1>1, LoadInvariant, PTL

AllowBeatsDeny ==
  Loaded /\ Each(Simple) =>
    \A in \in Inputs, i \in 1..Len(live) :
      live[i].decision = "allow" /\ live[i].ipIn # {} /\ RuleMatches(live[i], in) => ~KernelDenies(in)

\* How far the kernel is from DenyBeatsAllow: in every bundle of simple rules, an
\* allow rule on addresses beats every deny rule, however narrow, and whichever
\* rule's entry stands in ip_allow (enforce_connect_parsed).
THEOREM AllowAlwaysBeatsDeny == Spec => []AllowBeatsDeny
<1>1. LoadInv => AllowBeatsDeny
  <2> SUFFICES ASSUME LoadInv, Loaded, Each(Simple), NEW in \in Inputs, NEW i \in 1..Len(live),
                      live[i].decision = "allow", live[i].ipIn # {}, RuleMatches(live[i], in)
               PROVE  EnforceConnect(maps, in) = 0
    BY Zenon DEF AllowBeatsDeny, KernelDenies
  <2>1. Hits(IpAllows[i], in)
    BY CidrHit, Zenon DEF RuleMatches, RuleMatchesDestIP, IpAllows, IpAllowKeys
  <2>2. IpFound(Aip(in), IpAllows, in)
    BY Lookups, Zenon
  <2>3. PICK j \in 1..Len(live) : Hits(IpAllows[j], in) /\ Aip(in) = IpEntry(live[j], j)
    BY <2>1, <2>2, Zenon DEF IpFound
  <2>4. live[j] \in Rules /\ Simple(live[j]) /\ Hits(IpAllowKeys(live[j]), in)
    BY <2>3 DEF LoadInv, Each, IpAllows
  <2>5. \A k : IpEntry(live[j], k).paired = FALSE
    BY <2>4, SimpleIp, Zenon
  <2>6. Aip(in) # NoEntry
    BY <2>1, <2>2, Zenon DEF IpFound
  <2>7. ConnectRuleMatches(Aip(in), Apt(in))
    BY <2>3, <2>5, <2>6, Zenon DEF ConnectRuleMatches
  <2> QED
    BY <2>7, Verdict, Zenon
<1> QED
  BY <1>1, LoadInvariant, PTL

\* With simple rules, a connect that is denied has no entry in ip_allow, and is
\* denied under the entry for its address, the catch-all or the entry for its port.
LEMMA SimpleVerdict ==
  ASSUME LoadInv, Loaded, Each(Simple), NEW in \in Inputs
  PROVE  EnforceConnect(maps, in) =
           IF Aip(in) # NoEntry THEN 0
           ELSE IF Dip(in) # NoEntry THEN Dip(in).id
           ELSE IF NotExcepted(Catch, Apt(in)) THEN Catch.id
           ELSE IF in.port # PortCatchAll /\ NotExcepted(Dpt(in), Apt(in)) THEN Dpt(in).id
           ELSE 0
<1>1. \A i \in 1..Len(live) : live[i] \in Rules /\ Simple(live[i]) /\ i # 0
  BY DEF LoadInv, Each
<1>2. /\ IpFound(Dip(in), IpDenies, in) /\ IpFound(Aip(in), IpAllows, in)
      /\ PortFound(Catch, PortDenies, PortCatchAll)
  BY Lookups, Zenon
<1>3. /\ \A i \in 1..Len(live) : IpDenies[i] = IpDenyKeys(live[i])
      /\ \A i \in 1..Len(live) : IpAllows[i] = IpAllowKeys(live[i])
      /\ \A i \in 1..Len(live) : PortDenies[i] = PortDenyKeys(live[i])
  BY Zenon DEF IpDenies, IpAllows, PortDenies
<1>4. NoEntry.paired = FALSE /\ NoEntry.id = 0
  BY Zenon DEF NoEntry
<1>5. Aip(in).paired = FALSE
  <2>1. CASE Aip(in) # NoEntry
    <3>1. PICK i \in 1..Len(live) : Hits(IpAllowKeys(live[i]), in) /\ Aip(in) = IpEntry(live[i], i)
      BY <1>2, <1>3, <2>1, Zenon DEF IpFound
    <3>2. \A k : IpEntry(live[i], k).paired = FALSE
      BY <1>1, <3>1, SimpleIp, Zenon
    <3> QED
      BY <3>1, <3>2, Zenon
  <2> QED
    BY <1>4, <2>1, Zenon
<1>6. Dip(in).paired = FALSE
  <2>1. CASE Dip(in) # NoEntry
    <3>1. PICK i \in 1..Len(live) : Hits(IpDenyKeys(live[i]), in) /\ Dip(in) = IpEntry(live[i], i)
      BY <1>2, <1>3, <2>1, Zenon DEF IpFound
    <3>2. \A k : IpEntry(live[i], k).paired = FALSE
      BY <1>1, <3>1, SimpleIp, Zenon
    <3> QED
      BY <3>1, <3>2, Zenon
  <2> QED
    BY <1>4, <2>1, Zenon
<1>7. Catch.paired = FALSE
  <2>1. CASE Catch # NoEntry
    <3>1. PICK i \in 1..Len(live) : PortCatchAll \in PortDenyKeys(live[i]) /\ Catch = PortEntry(live[i], i)
      BY <1>2, <1>3, <2>1, Zenon DEF PortFound
    <3> QED
      BY <1>1, <3>1, SimplePort, Zenon
  <2> QED
    BY <1>4, <2>1, Zenon
<1>8. Dip(in) # NoEntry => Dip(in).id # 0
  BY <1>1, <1>2 DEF IpFound, IpEntry
<1>9. ConnectRuleMatches(Aip(in), Apt(in)) <=> Aip(in) # NoEntry
  BY <1>5, Zenon DEF ConnectRuleMatches
<1>10. ~BothCatchAlls(Dip(in), Aip(in), Apt(in), Catch) /\ ~Paired(Dip(in), Dpt(in))
  BY <1>6, Zenon DEF BothCatchAlls, Paired
<1>11. Aip(in) = NoEntry => (NotExcepted(Dip(in), Aip(in)) <=> Dip(in) # NoEntry)
  BY <1>4, <1>8, Zenon DEF NotExcepted
<1> QED
  BY <1>6, <1>7, <1>9, <1>10, <1>11, Verdict, Zenon

\* With plain rules of the destination's family, a connect is denied under a deny
\* rule that matches it, although rules replace each other's entries
\* (loadConnectRule, enforce_connect_parsed).
THEOREM DenialsAttributed == Spec => []DenialAttributed
<1>1. LoadInv => DenialAttributed
  <2> SUFFICES ASSUME LoadInv, Loaded, Each(Plain), NEW in \in Inputs, SameFamily(in),
                      EnforceConnect(maps, in) # 0
               PROVE  LET r == live[EnforceConnect(maps, in)] IN r.decision = "deny" /\ RuleMatches(r, in)
    BY Zenon DEF DenialAttributed, KernelDenies
  <2>1. \A i \in 1..Len(live) : live[i] \in Rules /\ Simple(live[i]) /\ Plain(live[i])
    BY DEF LoadInv, Each, Plain
  <2>2. Each(Simple)
    BY <2>1, Zenon DEF Each
  <2>3. /\ IpFound(Dip(in), IpDenies, in) /\ IpFound(Aip(in), IpAllows, in)
        /\ PortFound(Dpt(in), PortDenies, in.port) /\ PortFound(Apt(in), PortAllows, in.port)
        /\ PortFound(Catch, PortDenies, PortCatchAll)
    BY Lookups, Zenon
  <2>4. Aip(in) = NoEntry
    BY <2>2, SimpleVerdict, Zenon
  <2>5. CASE Dip(in) # NoEntry
    <3>1. EnforceConnect(maps, in) = Dip(in).id
      BY <2>2, <2>4, <2>5, SimpleVerdict, Zenon
    <3>2. PICK i \in 1..Len(live) : Hits(IpDenies[i], in) /\ Dip(in) = IpEntry(live[i], i)
      BY <2>3, <2>5, Zenon DEF IpFound
    <3>3. Hits(IpDenyKeys(live[i]), in) /\ Dip(in).id = i
      BY <3>2 DEF IpDenies, IpEntry
    <3>4. /\ live[i].decision = "deny" /\ live[i].portIn = {} /\ live[i].portNotIn = {}
          /\ Hits(LpmKeys(live[i].ipIn), in) \/ live[i].ipNotIn # {}
      BY <2>1, <3>3, IpDenyHit, SimpleIp, Zenon
    <3>5. ~Hits(LpmKeys(live[i].ipNotIn), in)
      BY <2>3, <2>4, <3>4, Zenon DEF IpFound, IpAllows, IpAllowKeys
    <3>6. live[i].ipIn = {} \/ Hits(LpmKeys(live[i].ipIn), in)
      BY <2>1, <3>4, SimpleLists, Zenon
    <3>7. RuleMatchesDestIP(live[i], in)
      BY <3>5, <3>6, CidrHit, Zenon DEF SameFamily, RuleMatchesDestIP
    <3> QED
      BY <3>1, <3>3, <3>4, <3>7, Zenon DEF RuleMatches, RuleMatchesDestPort
  <2>6. CASE Dip(in) = NoEntry /\ NotExcepted(Catch, Apt(in))
    <3>1. EnforceConnect(maps, in) = Catch.id
      BY <2>2, <2>4, <2>6, SimpleVerdict, Zenon
    <3>2. PICK i \in 1..Len(live) : PortCatchAll \in PortDenies[i] /\ Catch = PortEntry(live[i], i)
      BY <2>3, <2>6, Zenon DEF PortFound, NotExcepted
    <3>3. PortCatchAll \in PortDenyKeys(live[i]) /\ Catch.id = i
      BY <3>2, Zenon DEF PortDenies, PortEntry
    <3>4. /\ live[i].decision = "deny" /\ live[i].ipIn = {} /\ live[i].ipNotIn = {}
          /\ live[i].portNotIn # {}
      BY <2>1, <3>3, SimplePort, Zenon DEF PortDenyKeys, Plain
    <3>5. live[i].portIn = {}
      BY <2>1, <3>4, SimpleLists, Zenon
    <3>6. ASSUME in.port \in live[i].portNotIn PROVE FALSE
      <4>1. in.port \in PortAllows[i]
        BY <3>4, <3>6, Zenon DEF PortAllows, PortAllowKeys
      <4>2. PICK j \in 1..Len(live) : in.port \in PortAllows[j] /\ Apt(in) = PortEntry(live[j], j)
        BY <2>3, <4>1, Zenon DEF PortFound
      <4>3. in.port \in PortAllowKeys(live[j]) /\ Apt(in).id = j
        BY <4>2 DEF PortAllows, PortEntry
      <4>4. live[j].ipIn = {}
        BY <2>1, <4>3, SimplePort, Zenon
      <4>5. live[j].decision = "deny" /\ in.port \in live[j].portNotIn
        BY <2>1, <4>3, <4>4, Zenon DEF Plain, PortAllowKeys, Rules
      <4>6. i = j
        BY <2>1, <3>4, <3>6, <4>5, ExceptionsApart, Zenon DEF LoadInv
      <4> QED
        BY <2>6, <3>3, <4>3, <4>6, Zenon DEF NotExcepted
    <3> QED
      BY <3>1, <3>3, <3>4, <3>5, <3>6, Zenon DEF RuleMatches, RuleMatchesDestPort, RuleMatchesDestIP
  <2>7. CASE Dip(in) = NoEntry /\ ~NotExcepted(Catch, Apt(in))
    <3>1. EnforceConnect(maps, in) = Dpt(in).id /\ in.port # PortCatchAll /\ Dpt(in) # NoEntry
      BY <2>2, <2>4, <2>7, SimpleVerdict, Zenon DEF NotExcepted
    <3>2. PICK i \in 1..Len(live) : in.port \in PortDenies[i] /\ Dpt(in) = PortEntry(live[i], i)
      BY <2>3, <3>1, Zenon DEF PortFound
    <3>3. in.port \in PortDenyKeys(live[i]) /\ Dpt(in).id = i
      BY <3>2 DEF PortDenies, PortEntry
    <3>4. live[i].decision = "deny" /\ live[i].ipIn = {} /\ live[i].ipNotIn = {} /\ in.port \in live[i].portIn
      BY <2>1, <3>1, <3>3, SimplePort, Zenon DEF PortDenyKeys
    <3>5. live[i].portNotIn = {}
      BY <2>1, <3>4, SimpleLists, Zenon
    <3> QED
      BY <3>1, <3>3, <3>4, <3>5, Zenon DEF RuleMatches, RuleMatchesDestPort, RuleMatchesDestIP
  <2> QED
    BY <2>5, <2>6, <2>7, Zenon
<1> QED
  BY <1>1, LoadInvariant, PTL

LEMMA DeniedByRule ==
  ASSUME NEW rules \in Seq(Rules), NEW in
  PROVE  EvaluateActions(rules, in) = "deny"
           <=> \E i \in 1..Len(rules) : rules[i].decision = "deny" /\ RuleMatches(rules[i], in)
<1> DEFINE matching == {q \in Range(rules) : RuleMatches(q, in)}
           decisions == {r.decision : r \in matching}
<1>1. "deny" \in decisions
        <=> \E i \in 1..Len(rules) : rules[i].decision = "deny" /\ RuleMatches(rules[i], in)
  BY DEF Range
<1>2. EvaluateActions(rules, in) = CASE "deny" \in decisions -> "deny"
                                     [] decisions = {"allow"} -> "allow"
                                     [] OTHER -> "none"
  BY Zenon DEF EvaluateActions
<1> HIDE DEF decisions
<1>3. "deny" \in decisions => decisions # {"allow"}
  OBVIOUS
<1>4. EvaluateActions(rules, in) = "deny" <=> "deny" \in decisions
  BY <1>2, <1>3, Zenon
<1> QED
  BY <1>1, <1>4, Zenon

\* Plain rules with at most one catch-all are enforced completely where no allow rule
\* carves an address out, on every port and in both families (loadConnectRule,
\* enforce_connect_parsed).
THEOREM DenyListsComplete == Spec => []DenyListComplete
<1>1. LoadInv => DenyListComplete
  <2> SUFFICES ASSUME LoadInv, Loaded,
                      Each(LAMBDA r : Plain(r) /\ r.ipNotIn = {}),
                      \A i, j \in 1..Len(live) : CatchAll(live[i]) /\ CatchAll(live[j]) => i = j,
                      NEW in \in Inputs, EvaluateActions(live, in) = "deny", ~Carved(in)
               PROVE  EnforceConnect(maps, in) # 0
    BY Zenon DEF DenyListComplete, KernelDenies
  <2>1. \A i \in 1..Len(live) :
          /\ live[i] \in Rules /\ Simple(live[i]) /\ Plain(live[i]) /\ i # 0
          /\ live[i].ipNotIn = {}
    BY DEF LoadInv, Each, Plain
  <2>2. Each(Simple)
    BY <2>1, Zenon DEF Each
  <2>3. /\ IpFound(Dip(in), IpDenies, in) /\ IpFound(Aip(in), IpAllows, in)
        /\ PortFound(Dpt(in), PortDenies, in.port) /\ PortFound(Apt(in), PortAllows, in.port)
        /\ PortFound(Catch, PortDenies, PortCatchAll)
    BY Lookups, Zenon
  <2>4. Aip(in) = NoEntry
    <3>1. ASSUME NEW j \in 1..Len(live) PROVE ~Hits(IpAllows[j], in)
      <4>1. CASE live[j].decision = "deny"
        BY <2>1, <4>1, Zenon DEF IpAllows, IpAllowKeys, LpmKeys, Hits
      <4>2. CASE live[j].decision = "allow"
        BY <4>2, Zenon DEF IpAllows, IpAllowKeys, LpmKeys, Hits, Carved
      <4> QED
        BY <2>1, <4>1, <4>2, Zenon DEF Rules
    <3> QED
      BY <2>3, <3>1, Zenon DEF IpFound
  <2>5. PICK i \in 1..Len(live) : live[i].decision = "deny" /\ RuleMatches(live[i], in)
    BY DeniedByRule, Zenon DEF LoadInv
  <2>6. /\ Dip(in) # NoEntry => Dip(in).id # 0
        /\ Catch # NoEntry => Catch.id # 0
        /\ Dpt(in) # NoEntry => Dpt(in).id # 0
    BY <2>1, <2>3 DEF IpFound, PortFound, IpEntry, PortEntry
  <2>7. Apt(in) # NoEntry => \E j \in 1..Len(live) : in.port \in live[j].portNotIn /\ Apt(in).id = j
    <3>1. ASSUME NEW j \in 1..Len(live), live[j].decision # "deny" PROVE live[j].portIn = {}
      <4>1. live[j].decision = "allow"
        BY <2>1, <3>1, Zenon DEF Rules
      <4> QED
        BY <2>1, <4>1, SimpleLists, Zenon DEF Plain
    <3> QED
      BY <2>1, <2>3, <3>1 DEF PortFound, PortAllows, PortAllowKeys, PortEntry
  <2>8. Apt(in) = NoEntry => Apt(in).id = 0
    BY DEF NoEntry
  <2>9. CASE live[i].ipIn # {}
    <3>1. Hits(LpmKeys(live[i].ipIn), in)
      BY <2>5, <2>9, CidrHit, Zenon DEF RuleMatches, RuleMatchesDestIP
    <3>2. Hits(IpDenies[i], in)
      BY <2>5, <3>1, IpDenyHit, Zenon DEF IpDenies
    <3>3. Dip(in) # NoEntry
      BY <2>3, <3>2, Zenon DEF IpFound
    <3> QED
      BY <2>2, <2>4, <2>6, <3>3, SimpleVerdict, Zenon
  <2>10. CASE live[i].portNotIn # {}
    <3>1. live[i].portIn = {} /\ in.port \notin live[i].portNotIn /\ CatchAll(live[i])
      BY <2>1, <2>5, <2>10, SimpleLists, Zenon DEF RuleMatches, RuleMatchesDestPort, CatchAll
    <3>2. PortCatchAll \in PortDenies[i]
      BY <2>5, <2>10, Zenon DEF PortDenies, PortDenyKeys
    <3>3. Catch # NoEntry
      BY <2>3, <3>2, Zenon DEF PortFound
    <3>4. ASSUME Apt(in) # NoEntry PROVE FALSE
      <4>1. PICK j \in 1..Len(live) : in.port \in live[j].portNotIn
        BY <2>7, <3>4, Zenon
      <4> QED
        BY <3>1, <4>1, Zenon DEF CatchAll
    <3>5. NotExcepted(Catch, Apt(in))
      BY <2>6, <2>8, <3>3, <3>4, Zenon DEF NotExcepted
    <3> QED
      BY <2>2, <2>4, <2>6, <3>3, <3>5, SimpleVerdict, Zenon
  <2>11. CASE live[i].portIn # {}
    <3>1. in.port \in live[i].portIn /\ in.port # PortCatchAll
      BY <2>1, <2>5, <2>11, Zenon DEF RuleMatches, RuleMatchesDestPort, Plain
    <3>2. in.port \in PortDenies[i]
      BY <2>5, <3>1, Zenon DEF PortDenies, PortDenyKeys
    <3>3. PICK j \in 1..Len(live) : in.port \in PortDenies[j] /\ Dpt(in) = PortEntry(live[j], j)
      BY <2>3, <3>2, Zenon DEF PortFound
    <3>4. Dpt(in) # NoEntry
      BY <2>3, <3>2, Zenon DEF PortFound
    <3>5. Dpt(in).id = j /\ in.port \in live[j].portIn
      BY <3>1, <3>3 DEF PortDenies, PortDenyKeys, PortEntry
    <3>6. live[j].portNotIn = {}
      BY <2>1, <3>5, SimpleLists, Zenon
    <3>7. NotExcepted(Dpt(in), Apt(in))
      BY <2>6, <2>7, <2>8, <3>4, <3>5, <3>6, Zenon DEF NotExcepted
    <3> QED
      BY <2>2, <2>4, <2>6, <3>1, <3>4, <3>7, SimpleVerdict, Zenon DEF NotExcepted
  <2> QED
    BY <2>1, <2>9, <2>10, <2>11, SimpleLists, Zenon
<1> QED
  BY <1>1, LoadInvariant, PTL

\* A single deny rule is enforced exactly as EvaluateActions reads it, but for the
\* pairings the property excepts (loadConnectRule, enforce_connect_parsed).
THEOREM DenyRulesExact == Spec => []DenyRuleExact
<1>1. LoadInv => DenyRuleExact
  <2> DEFINE r == live[1]
  <2> SUFFICES ASSUME LoadInv, Loaded, Len(live) = 1, r.decision = "deny",
                      r.portIn = {} \/ Plain(r), r.ipIn = {} \/ r.ipNotIn = {},
                      NEW in \in Inputs, SameFamily(in), in.port # PortCatchAll
               PROVE  EnforceConnect(maps, in) # 0 <=> EvaluateActions(live, in) = "deny"
    BY Zenon DEF DenyRuleExact, KernelDenies
  <2>1. r \in Rules /\ 1..Len(live) = {1} /\ Accepted(r)
    <3>1. 1 \in 1..(at - 1) /\ 1..Len(live) = {1}
      BY DEF LoadInv, Loaded
    <3>2. live \in Seq(Rules) /\ Accepted(live[1])
      BY <3>1, Zenon DEF LoadInv
    <3> QED
      BY <3>1, <3>2
  <2>2. EvaluateActions(live, in) = "deny" <=> RuleMatches(r, in)
    BY <2>1, DeniedByRule, Zenon DEF LoadInv
  <2>3. /\ IpFound(Dip(in), IpDenies, in) /\ IpFound(Aip(in), IpAllows, in)
        /\ PortFound(Dpt(in), PortDenies, in.port) /\ PortFound(Apt(in), PortAllows, in.port)
        /\ PortFound(Catch, PortDenies, PortCatchAll)
    BY Lookups, Zenon
  <2>4. /\ IpDenies[1] = IpDenyKeys(r) /\ IpAllows[1] = LpmKeys(r.ipNotIn)
        /\ PortDenies[1] = PortDenyKeys(r) /\ PortAllows[1] = r.portNotIn
    BY <2>1, Zenon DEF IpDenies, IpAllows, PortDenies, PortAllows, IpAllowKeys, PortAllowKeys
  <2> DEFINE ip == IpEntry(r, 1)
             port == PortEntry(r, 1)
             inNet == \E c \in r.ipIn : InCidr(in, c)
             exNet == \E c \in r.ipNotIn : InCidr(in, c)
  <2>5. Hits(LpmKeys(r.ipIn), in) <=> inNet
    BY <2>1, CidrHit, Zenon DEF SameFamily
  <2>6. Hits(LpmKeys(r.ipNotIn), in) <=> exNet
    BY <2>1, CidrHit, Zenon DEF SameFamily
  <2>7. RuleMatches(r, in) <=> /\ ~exNet /\ (r.ipIn = {} \/ inNet)
                              /\ in.port \notin r.portNotIn /\ (r.portIn = {} \/ in.port \in r.portIn)
    BY Zenon DEF RuleMatches, RuleMatchesDestIP, RuleMatchesDestPort
  <2>8. inNet => r.ipIn # {}
    BY Zenon
  <2>9. exNet => r.ipNotIn # {}
    BY Zenon
  <2> HIDE DEF inNet, exNet
  <2>10. Dip(in) = IF inNet \/ r.ipNotIn # {} THEN ip ELSE NoEntry
    BY <2>1, <2>3, <2>4, <2>5, IpDenyHit DEF IpFound
  <2>11. Aip(in) = IF exNet THEN ip ELSE NoEntry
    BY <2>1, <2>3, <2>4, <2>6, Zenon DEF IpFound
  <2>12. Apt(in) = IF in.port \in r.portNotIn THEN port ELSE NoEntry
    BY <2>1, <2>3, <2>4, Zenon DEF PortFound
  <2>13. Dpt(in) = IF in.port \in r.portIn THEN port ELSE NoEntry
    BY <2>1, <2>3, <2>4, Zenon DEF PortFound, PortDenyKeys
  <2>14. PortCatchAll \notin r.portIn
    BY Zenon DEF Plain
  <2>15. Catch = IF r.portNotIn # {} THEN port ELSE NoEntry
    BY <2>1, <2>3, <2>4, <2>14, Zenon DEF PortFound, PortDenyKeys
  <2>16. /\ ip.id = 1 /\ port.id = 1 /\ NoEntry.id = 0 /\ ip # NoEntry /\ port # NoEntry
         /\ NoEntry.paired = FALSE /\ ip.paired = HasPort(r) /\ port.paired = HasIP(r)
    BY EntryIsNone DEF IpEntry, PortEntry, NoEntry
  <2>17. /\ HasPort(r) <=> r.portIn # {} \/ r.portNotIn # {}
         /\ HasIP(r) <=> r.ipIn # {} \/ r.ipNotIn # {}
    BY Zenon DEF HasPort, HasIP
  <2>18. HasPort(r) \/ HasIP(r)
    BY <2>1, Zenon DEF Accepted
  <2>19. r.portIn # {} => r.ipIn = {} /\ r.ipNotIn = {} /\ r.portNotIn = {}
    BY <2>1, SimpleLists, Zenon DEF Plain
  <2> HIDE DEF ip, port
  <2> DEFINE allowed == ConnectRuleMatches(Aip(in), Apt(in))
             both == BothCatchAlls(Dip(in), Aip(in), Apt(in), Catch)
             byNet == ~Dip(in).paired /\ NotExcepted(Dip(in), Aip(in))
             byCatch == ~Catch.paired /\ NotExcepted(Catch, Apt(in))
             paired == Paired(Dip(in), Dpt(in))
             byPort == NotExcepted(Dpt(in), Apt(in))
  <2> HIDE DEF r
  <2>20. allowed <=> exNet /\ (HasPort(r) => in.port \in r.portNotIn)
    BY <2>11, <2>12, <2>16 DEF ConnectRuleMatches
  <2>21. both <=> /\ (inNet \/ r.ipNotIn # {}) /\ r.portNotIn # {}
                  /\ ~exNet /\ in.port \notin r.portNotIn
    BY <2>8, <2>10, <2>11, <2>12, <2>15, <2>16, <2>17 DEF BothCatchAlls, NotExcepted
  <2>22. byNet <=> (inNet \/ r.ipNotIn # {}) /\ ~HasPort(r) /\ ~exNet
    BY <2>10, <2>11, <2>16 DEF NotExcepted
  <2>23. byCatch <=> r.portNotIn # {} /\ ~HasIP(r) /\ in.port \notin r.portNotIn
    BY <2>12, <2>15, <2>16 DEF NotExcepted
  <2>24. ~paired
    BY <2>8, <2>10, <2>13, <2>16, <2>17, <2>19 DEF Paired, ConnectRuleMatches
  <2>25. byPort <=> in.port \in r.portIn /\ in.port \notin r.portNotIn
    BY <2>12, <2>13, <2>16 DEF NotExcepted
  <2>26. /\ both \/ byNet => Dip(in).id = 1
         /\ byCatch => Catch.id = 1
         /\ byPort => Dpt(in).id = 1
    BY <2>10, <2>13, <2>15, <2>16, <2>21, <2>22, <2>23, <2>25, Zenon
  <2>27. EnforceConnect(maps, in) # 0 <=> ~allowed /\ (both \/ byNet \/ byCatch \/ byPort)
    BY <2>24, <2>26, Verdict
  <2> HIDE DEF allowed, both, byNet, byCatch, byPort
  <2>28. ~allowed /\ (both \/ byNet \/ byCatch \/ byPort)
           <=> /\ ~exNet /\ (r.ipIn = {} \/ inNet)
               /\ in.port \notin r.portNotIn /\ (r.portIn = {} \/ in.port \in r.portIn)
    BY <2>8, <2>9, <2>17, <2>18, <2>19, <2>20, <2>21, <2>22, <2>23, <2>25, Zenon
  <2> QED
    BY <2>2, <2>7, <2>27, <2>28, Zenon DEF r
<1> QED
  BY <1>1, LoadInvariant, PTL
=============================================================================
