-------------------------- MODULE PathRulesProofs ---------------------------
(* Theorems about PathRules, for any bundles of path rules, with lists of any  *)
(* length, any paths, homes and files, and any changes of names and homes.    *)
EXTENDS PathRules, WellFoundedInduction, TLAPS

-----------------------------------------------------------------------------
(* Prefixes, and the longest of them.                                         *)

LEMMA PrefixIff ==
  ASSUME NEW s \in Paths, NEW t \in Paths
  PROVE  IsPrefix(s, t) <=> Len(s) <= Len(t) /\ \A i \in 1..Len(s) : t[i] = s[i]
<1>1. Len(s) \in Nat /\ Len(t) \in Nat
  BY DEF Paths
<1>2. CASE Len(s) <= Len(t)
  <2>1. /\ Len(SubSeq(t, 1, Len(s))) = Len(s) /\ SubSeq(t, 1, Len(s)) \in Paths
        /\ \A i \in 1..Len(s) : SubSeq(t, 1, Len(s))[i] = t[i]
    BY <1>1, <1>2 DEF Paths
  <2>2. SubSeq(t, 1, Len(s)) = s <=> \A i \in 1..Len(s) : SubSeq(t, 1, Len(s))[i] = s[i]
    BY <2>1 DEF Paths
  <2> QED
    BY <1>2, <2>1, <2>2, Zenon DEF IsPrefix
<1> QED
  BY <1>2, Zenon DEF IsPrefix

LEMMA PrefixTrans ==
  ASSUME NEW s \in Paths, NEW t \in Paths, NEW u \in Paths, IsPrefix(s, t), IsPrefix(t, u)
  PROVE  IsPrefix(s, u)
<1>1. Len(s) \in Nat /\ Len(t) \in Nat /\ Len(u) \in Nat
  BY DEF Paths
<1>2. Len(s) <= Len(t) /\ \A i \in 1..Len(s) : t[i] = s[i]
  BY PrefixIff, Zenon
<1>3. Len(t) <= Len(u) /\ \A i \in 1..Len(t) : u[i] = t[i]
  BY PrefixIff, Zenon
<1>4. Len(s) <= Len(u) /\ \A i \in 1..Len(s) : u[i] = s[i]
  BY <1>1, <1>2, <1>3
<1> QED
  BY <1>4, PrefixIff, Zenon

LEMMA PrefixOfItself == ASSUME NEW s \in Paths PROVE IsPrefix(s, s)
  BY PrefixIff DEF Paths

LEMMA MinNat ==
  ASSUME NEW T, T \subseteq Nat, T # {}
  PROVE  \E x \in T : \A y \in T : x <= y
<1> DEFINE R == OpToRel(<, Nat)
<1>1. IsWellFoundedOn(R, Nat)
  BY NatLessThanWellFounded, Zenon
<1>2. \A x, y \in Nat : <<y, x>> \in R <=> y < x
  BY Zenon DEF OpToRel
<1> HIDE DEF R
<1>3. PICK x \in T : \A y \in T : ~ (<<y, x>> \in R)
  BY <1>1, WFMin, Zenon
<1>4. ASSUME NEW y \in T PROVE x <= y
  <2>1. x \in Nat /\ y \in Nat
    BY Zenon
  <2>2. ~(y < x)
    BY <2>1, <1>2, <1>3, Zenon
  <2> QED
    BY <2>1, <2>2
<1> QED
  BY <1>4, Zenon

LEMMA LongestPrefix ==
  ASSUME NEW S \in SUBSET Paths, S # {}, NEW t \in Paths, \A s \in S : IsPrefix(s, t)
  PROVE  \E k \in S : \A h \in S : Len(h) <= Len(k)
<1>1. \A s \in S : Len(s) \in Nat /\ Len(t) \in Nat /\ Len(s) <= Len(t)
  BY DEF IsPrefix, Paths
<1> DEFINE T == {Len(t) - Len(s) : s \in S}
<1>2. T \subseteq Nat /\ T # {}
  BY <1>1
<1>3. PICK x \in T : \A y \in T : x <= y
  BY <1>2, MinNat, Zenon
<1>4. PICK k \in S : x = Len(t) - Len(k)
  BY Zenon
<1>5. ASSUME NEW h \in S PROVE Len(h) <= Len(k)
  <2>1. x <= Len(t) - Len(h)
    BY <1>3, Zenon
  <2> QED
    BY <1>1, <1>4, <2>1
<1> QED
  BY <1>5, Zenon

\* A lookup finds the entry under some prefix of the path, if there is one.
LEMMA LookupHit ==
  ASSUME NEW trie, DOMAIN trie \subseteq Paths, NEW name \in Paths,
         NEW k0 \in DOMAIN trie, IsPrefix(k0, name)
  PROVE  \E k \in DOMAIN trie : IsPrefix(k, name) /\ TrieLookup(trie, name) = trie[k]
<1> DEFINE hits == {k \in DOMAIN trie : IsPrefix(k, name)}
           best == CHOOSE k \in hits : \A h \in hits : Len(h) <= Len(k)
<1>1. hits \in SUBSET Paths /\ hits # {}
  BY Zenon
<1>2. \E k \in hits : \A h \in hits : Len(h) <= Len(k)
  BY <1>1, LongestPrefix, Zenon
<1>3. best \in hits
  BY <1>2, Zenon
<1>4. TrieLookup(trie, name) = trie[best]
  BY <1>1, Zenon DEF TrieLookup
<1> QED
  BY <1>3, <1>4, Zenon

LEMMA LookupFinds ==
  ASSUME NEW trie, DOMAIN trie \subseteq Paths, NEW name \in Paths
  PROVE  \/ TrieLookup(trie, name) = NoEntry
         \/ \E k \in DOMAIN trie : IsPrefix(k, name) /\ TrieLookup(trie, name) = trie[k]
<1>1. CASE \E k \in DOMAIN trie : IsPrefix(k, name)
  BY <1>1, LookupHit, Zenon
<1>2. CASE ~ \E k \in DOMAIN trie : IsPrefix(k, name)
  BY <1>2, Zenon DEF TrieLookup
<1> QED
  BY <1>1, <1>2, Zenon

-----------------------------------------------------------------------------
(* Keys, and the paths that patterns match.                                   *)

LEMMA SshTyped ==
  ASSUME NEW u \in User
  PROVE  /\ SshOf(u) \in Patterns /\ SshOf(u).wild /\ HomeSSH \in Patterns /\ SshOf(u) # HomeSSH
         /\ LpmKey(SshOf(u)) \in Paths
         /\ Len(SshOf(u).dir) = Len(Home) + 4 /\ Len(LpmKey(SshOf(u))) = Len(Home) + 5
         /\ \A i \in 1..Len(Home) : LpmKey(SshOf(u))[i] = Home[i]
         /\ LpmKey(SshOf(u))[Len(Home) + 1] = Slash /\ LpmKey(SshOf(u))[Len(Home) + 2] = u
         /\ LpmKey(SshOf(u))[Len(Home) + 3] = Slash /\ LpmKey(SshOf(u))[Len(Home) + 4] = Ssh
         /\ LpmKey(SshOf(u))[Len(Home) + 5] = Slash
         /\ \A i \in 1..(Len(Home) + 4) : SshOf(u).dir[i] = LpmKey(SshOf(u))[i]
<1>1. Home \in Seq(Char) /\ {Slash, Star, Ssh, u} \subseteq Char /\ u # Star
  BY PathAssumption, Zenon DEF Paths
<1> DEFINE tail == <<Slash, u, Slash, Ssh>>
           dir == Home \o tail
           star == Home \o <<Slash, Star, Slash, Ssh>>
<1>2. /\ dir \in Seq(Char) /\ Len(dir) = Len(Home) + 4 /\ Len(Home) \in Nat
      /\ \A i \in 1..Len(Home) : dir[i] = Home[i]
      /\ dir[Len(Home) + 1] = Slash /\ dir[Len(Home) + 2] = u
      /\ dir[Len(Home) + 3] = Slash /\ dir[Len(Home) + 4] = Ssh
  BY <1>1
<1>3. star \in Seq(Char) /\ star[Len(Home) + 2] = Star
  BY <1>1
<1>4. SshOf(u) = [dir |-> dir, wild |-> TRUE] /\ HomeSSH = [dir |-> star, wild |-> TRUE]
  BY Zenon DEF SshOf, HomeSSH
<1>5. LpmKey(SshOf(u)) = dir \o <<Slash>>
  BY <1>4 DEF LpmKey
<1> HIDE DEF dir, star
<1>6. /\ dir \o <<Slash>> \in Seq(Char) /\ Len(dir \o <<Slash>>) = Len(Home) + 5
      /\ \A i \in 1..(Len(Home) + 4) : (dir \o <<Slash>>)[i] = dir[i]
      /\ (dir \o <<Slash>>)[Len(Home) + 5] = Slash
  BY <1>1, <1>2
<1>7. SshOf(u) \in Patterns /\ HomeSSH \in Patterns /\ SshOf(u).wild
  BY <1>2, <1>3, <1>4 DEF Patterns, Paths
<1>8. SshOf(u) # HomeSSH
  <2>1. dir # star
    BY <1>1, <1>2, <1>3, Zenon
  <2>2. SshOf(u).dir = dir /\ HomeSSH.dir = star
    BY <1>4
  <2> QED
    BY <2>1, <2>2, Zenon
<1>9. SshOf(u).dir = dir
  BY <1>4
<1>10. \A i \in 1..Len(Home) : i \in 1..(Len(Home) + 4)
  BY <1>2
<1>11. {Len(Home) + 1, Len(Home) + 2, Len(Home) + 3, Len(Home) + 4} \subseteq 1..(Len(Home) + 4)
  BY <1>2
<1> DEFINE key == dir \o <<Slash>>
<1>12. /\ key \in Seq(Char) /\ Len(key) = Len(Home) + 5
       /\ \A i \in 1..(Len(Home) + 4) : key[i] = dir[i]
       /\ key[Len(Home) + 5] = Slash
  BY <1>6, Zenon
<1>13. LpmKey(SshOf(u)) = key
  BY <1>5, Zenon
<1> HIDE DEF key
<1>14. /\ \A i \in 1..Len(Home) : key[i] = Home[i]
       /\ key[Len(Home) + 1] = Slash /\ key[Len(Home) + 2] = u
       /\ key[Len(Home) + 3] = Slash /\ key[Len(Home) + 4] = Ssh
  BY <1>2, <1>10, <1>11, <1>12, Zenon
<1> QED
  BY <1>2, <1>7, <1>8, <1>9, <1>12, <1>13, <1>14, Zenon DEF Paths

LEMMA KeyTyped ==
  ASSUME NEW p \in Patterns
  PROVE  LpmKey(p) \in Paths
  BY PathAssumption DEF Patterns, Paths, LpmKey

\* What is below a home's .ssh directory matches the pattern for all homes ...
LEMMA HomeMatches ==
  ASSUME NEW u \in User, NEW name \in Paths, IsPrefix(LpmKey(SshOf(u)), name)
  PROVE  MatchesHomeSSH(name)
<1> DEFINE h == Len(Home)
           key == LpmKey(SshOf(u))
           rest == SubSeq(name, h + 3, Len(name))
<1>1. h \in Nat /\ Len(name) \in Nat /\ Home \in Paths /\ u # Slash
  BY PathAssumption DEF Paths
<1>2. h + 5 <= Len(name) /\ \A i \in 1..(h + 5) : name[i] = key[i]
  BY <1>1, PrefixIff, SshTyped
<1>3. IsPrefix(Home \o <<Slash>>, name)
  <2>1. /\ Home \o <<Slash>> \in Paths /\ Len(Home \o <<Slash>>) = h + 1
        /\ (Home \o <<Slash>>)[h + 1] = Slash /\ \A i \in 1..h : (Home \o <<Slash>>)[i] = Home[i]
    BY <1>1, PathAssumption DEF Paths
  <2>2. \A i \in 1..(h + 1) : name[i] = (Home \o <<Slash>>)[i]
    BY <1>1, <1>2, <2>1, SshTyped
  <2>3. Len(Home \o <<Slash>>) <= Len(name)
    BY <1>1, <1>2, <2>1
  <2>4. \A i \in 1..Len(Home \o <<Slash>>) : name[i] = (Home \o <<Slash>>)[i]
    BY <2>1, <2>2, Zenon
  <2> QED
    BY <2>1, <2>3, <2>4, PrefixIff, Zenon
<1>4. name[h + 2] = u /\ name[h + 3] = Slash /\ name[h + 4] = Ssh /\ name[h + 5] = Slash
  <2>1. \A n \in {2, 3, 4, 5} : h + n \in 1..(h + 5)
    BY <1>1
  <2>2. /\ name[h + 2] = key[h + 2] /\ name[h + 3] = key[h + 3]
        /\ name[h + 4] = key[h + 4] /\ name[h + 5] = key[h + 5]
    BY <1>2, <2>1, Zenon
  <2> QED
    BY <2>2, SshTyped
<1>5. IsPrefix(<<Slash, Ssh, Slash>>, rest)
  <2>1. rest \in Paths /\ Len(rest) >= 3 /\ Len(rest) \in Nat
        /\ rest[1] = name[h + 3] /\ rest[2] = name[h + 4] /\ rest[3] = name[h + 5]
    BY <1>1, <1>2 DEF Paths
  <2>2. <<Slash, Ssh, Slash>> \in Paths /\ Len(<<Slash, Ssh, Slash>>) = 3
    BY PathAssumption DEF Paths
  <2>3. Len(<<Slash, Ssh, Slash>>) <= Len(rest)
    BY <2>1, <2>2, Zenon
  <2>4. \A i \in 1..Len(<<Slash, Ssh, Slash>>) : rest[i] = <<Slash, Ssh, Slash>>[i]
    BY <1>4, <2>1, <2>2, SMTT(30)
  <2> QED
    BY <2>1, <2>2, <2>3, <2>4, PrefixIff, Zenon
<1>6. h + 2 \in h + 2..Len(name) /\ h + 2 + 1 = h + 3
  BY <1>1, <1>2
<1>7. \A i \in h + 2..h + 2 : name[i] # Slash
  BY <1>1, <1>4
<1> QED
  BY <1>3, <1>5, <1>6, <1>7, Zenon DEF MatchesHomeSSH

\* ... and the directory itself does not.
LEMMA HomeDirNot ==
  ASSUME NEW u \in User
  PROVE  ~MatchesHomeSSH(SshOf(u).dir)
<1> DEFINE h == Len(Home)
           dir == SshOf(u).dir
<1>1. h \in Nat /\ dir \in Seq(Char) /\ Len(dir) = h + 4 /\ dir[h + 3] = Slash
  <2>1. h \in Nat /\ h + 3 \in 1..(h + 4)
    BY PathAssumption DEF Paths
  <2>2. dir \in Seq(Char)
    BY SshTyped, Zenon DEF Patterns, Paths
  <2> QED
    BY <2>1, <2>2, SshTyped, SMTT(30)
<1>2. ASSUME NEW n \in h + 2..Len(dir), \A i \in h + 2..n : dir[i] # Slash,
             IsPrefix(<<Slash, Ssh, Slash>>, SubSeq(dir, n + 1, Len(dir)))
      PROVE  FALSE
  <2>1. n = h + 2
    BY <1>1, <1>2
  <2>2. Len(SubSeq(dir, h + 3, Len(dir))) = 2
    BY <1>1
  <2>3. Len(<<Slash, Ssh, Slash>>) = 3
    BY Zenon
  <2>4. Len(SubSeq(dir, n + 1, Len(dir))) = 2
    BY <1>1, <2>1, <2>2
  <2> QED
    BY <1>2, <2>3, <2>4 DEF IsPrefix
<1> QED
  BY <1>2, Zenon DEF MatchesHomeSSH

-----------------------------------------------------------------------------
(* The invariant.  An entry in a trie is that of a rule with a pattern above    *)
(* its key, and so is every action in its mask; the same holds below the key,   *)
(* which is why an entry may be merged with the one a lookup finds above it.    *)

Position == 1..Len(live)

\* Rule i has a pattern, or one it may be expanded to, that covers key k.
Bears(i, k) ==
  \E p \in Range(live[i].in) :
    \/ p # HomeSSH /\ IsPrefix(LpmKey(p), k)
    \/ p = HomeSSH /\ \E u \in User : IsPrefix(LpmKey(SshOf(u)), k)

Backed(e, d, k) ==
  /\ {"mask", "id"} \subseteq DOMAIN e
  /\ e.id \in Position /\ live[e.id].decision = d /\ Bears(e.id, k)
  /\ e.mask # {}
  /\ \A a \in e.mask : \E i \in Position : live[i].decision = d /\ live[i].action = a /\ Bears(i, k)

\* The turns of the loop that are over.
Turned(i, n) == i < at \/ (i = at /\ n < nth)

Typed ==
  /\ live \in Seq(Rules)
  /\ at \in Nat \ {0} /\ nth \in Nat \ {0}
  /\ at <= Len(live) => nth = 1 \/ nth <= Len(live[at].in)
  /\ names \in [Named -> Files \cup {Absent}]
  /\ homes \subseteq User
  /\ resolved \subseteq Position \X Files
  /\ expanded \subseteq Position \X User

TriesBacked ==
  /\ DOMAIN path = {"deny", "allow"}
  /\ \A d \in {"deny", "allow"} :
       DOMAIN path[d] \subseteq Paths /\ \A k \in DOMAIN path[d] : Backed(path[d][k], d, k)

\* Every pattern that had its turn has its key, and every home found then.
TriesFilled ==
  /\ \A i \in Position : \A n \in DOMAIN live[i].in :
       Turned(i, n) /\ live[i].in[n] # HomeSSH => LpmKey(live[i].in[n]) \in DOMAIN path[live[i].decision]
  /\ \A x \in expanded : LpmKey(SshOf(x[2])) \in DOMAIN path[live[x[1]].decision]

\* An entry under an inode is that of rules in S, which were loaded for a file of
\* that number.
InodeBacked(S, e, d, key) ==
  /\ {"mask", "id"} \subseteq DOMAIN e
  /\ e.mask # {}
  /\ \A a \in e.mask : \E x \in S :
       live[x[1]].decision = d /\ live[x[1]].action = a /\ PathToInodeKey(x[2]) = key

Inodes ==
  /\ DOMAIN inode = {"deny", "allow"}
  /\ \A d \in {"deny", "allow"} : \A key \in DOMAIN inode[d] : InodeBacked(resolved, inode[d][key], d, key)
  /\ \A x \in resolved : PathToInodeKey(x[2]) \in DOMAIN inode[live[x[1]].decision]

PathInv == Typed /\ TriesBacked /\ TriesFilled /\ Inodes

LEMMA RuleTyped ==
  ASSUME Typed, NEW i \in Position
  PROVE  /\ live[i] \in Rules /\ live[i].decision \in {"deny", "allow"}
         /\ live[i].in \in Seq(Patterns)
         /\ DOMAIN live[i].in = 1..Len(live[i].in) /\ Len(live[i].in) \in Nat
         /\ Range(live[i].in) \subseteq Patterns
<1>1. live[i] \in Rules
  BY DEF Typed, Position
<1>2. live[i].in \in Seq(Patterns) /\ live[i].decision \in {"deny", "allow"}
  BY <1>1, Zenon DEF Rules
<1> QED
  BY <1>1, <1>2 DEF Range

LEMMA BearsBelow ==
  ASSUME Typed, NEW i \in Position, NEW k \in Paths, NEW name \in Paths, Bears(i, k), IsPrefix(k, name)
  PROVE  Bears(i, name)
<1>1. PICK p \in Range(live[i].in) :
         \/ p # HomeSSH /\ IsPrefix(LpmKey(p), k)
         \/ p = HomeSSH /\ \E u \in User : IsPrefix(LpmKey(SshOf(u)), k)
  BY Zenon DEF Bears
<1>2. LpmKey(p) \in Paths
  BY RuleTyped, KeyTyped, Zenon
<1>3. CASE p # HomeSSH /\ IsPrefix(LpmKey(p), k)
  BY <1>2, <1>3, PrefixTrans, Zenon DEF Bears
<1>4. CASE p = HomeSSH /\ \E u \in User : IsPrefix(LpmKey(SshOf(u)), k)
  <2>1. PICK u \in User : IsPrefix(LpmKey(SshOf(u)), k)
    BY <1>4, Zenon
  <2>2. LpmKey(SshOf(u)) \in Paths
    BY SshTyped, Zenon
  <2>3. IsPrefix(LpmKey(SshOf(u)), name)
    BY <2>1, <2>2, PrefixTrans, Zenon
  <2> QED
    BY <1>4, <2>3, Zenon DEF Bears
<1> QED
  BY <1>1, <1>3, <1>4, Zenon

LEMMA BackedBelow ==
  ASSUME Typed, NEW e, NEW d, NEW k \in Paths, NEW name \in Paths, Backed(e, d, k), IsPrefix(k, name)
  PROVE  Backed(e, d, name)
  BY BearsBelow, Zenon DEF Backed

LEMMA MergedBacked ==
  ASSUME NEW old, NEW new, NEW d, NEW k, old = NoEntry \/ Backed(old, d, k), Backed(new, d, k)
  PROVE  Backed(Merged(old, new), d, k)
<1>1. CASE old = NoEntry
  BY <1>1, Zenon DEF Merged
<1>2. CASE old # NoEntry
  <2> DEFINE m == [old EXCEPT !.mask = @ \cup new.mask, !.id = new.id]
  <2>1. Merged(old, new) \in {new, old, m}
    BY <1>2, Zenon DEF Merged, MergePathRules
  <2>2. Backed(old, d, k)
    BY <1>2, Zenon
  <2>3. {"mask", "id"} \subseteq DOMAIN m /\ m.id = new.id /\ m.mask = old.mask \cup new.mask
    BY <2>2, Zenon DEF Backed
  <2> HIDE DEF m
  <2>4. Backed(m, d, k)
    BY <2>2, <2>3, Zenon DEF Backed
  <2> QED
    BY <2>1, <2>2, <2>4, Zenon
<1> QED
  BY <1>1, <1>2, Zenon

LEMMA MergedInodeBacked ==
  ASSUME NEW S, NEW old, NEW new, NEW d, NEW key,
         old = NoEntry \/ InodeBacked(S, old, d, key), InodeBacked(S, new, d, key)
  PROVE  InodeBacked(S, Merged(old, new), d, key)
<1>1. CASE old = NoEntry
  BY <1>1, Zenon DEF Merged
<1>2. CASE old # NoEntry
  <2> DEFINE m == [old EXCEPT !.mask = @ \cup new.mask, !.id = new.id]
  <2>1. Merged(old, new) \in {new, old, m}
    BY <1>2, Zenon DEF Merged, MergePathRules
  <2>2. InodeBacked(S, old, d, key)
    BY <1>2, Zenon
  <2>3. {"mask", "id"} \subseteq DOMAIN m /\ m.id = new.id /\ m.mask = old.mask \cup new.mask
    BY <2>2, Zenon DEF InodeBacked
  <2> HIDE DEF m
  <2>4. InodeBacked(S, m, d, key)
    BY <2>2, <2>3, Zenon DEF InodeBacked
  <2> QED
    BY <2>1, <2>2, <2>4, Zenon
<1> QED
  BY <1>1, <1>2, Zenon

-----------------------------------------------------------------------------
(* Initially.                                                                 *)

LEMMA PathInitial == Init => PathInv
<1> SUFFICES ASSUME Init PROVE PathInv
  BY Zenon
<1>1. live \in Seq(Rules) /\ names \in [Named -> Files \cup {Absent}] /\ homes \subseteq User
  BY PathAssumption, Zenon DEF Init
<1>2. Typed
  BY <1>1 DEF Init, Typed
<1>3. \A d \in {"deny", "allow"} : path[d] = << >> /\ inode[d] = << >>
  BY Zenon DEF Init
<1>4. DOMAIN << >> = {}
  OBVIOUS
<1>5. TriesBacked
  BY <1>3, <1>4, Zenon DEF Init, TriesBacked
<1>6. \A i \in Position : \A n \in DOMAIN live[i].in : ~Turned(i, n)
  <2> SUFFICES ASSUME NEW i \in Position, NEW n \in DOMAIN live[i].in, Turned(i, n) PROVE FALSE
    BY Zenon
  <2>1. n \in Nat /\ n >= 1 /\ i \in Nat /\ i >= 1
    BY <1>2, RuleTyped DEF Position
  <2> QED
    BY <2>1 DEF Turned, Init
<1>7. TriesFilled
  BY <1>6, Zenon DEF TriesFilled, Init
<1>8. Inodes
  BY <1>3, <1>4, Zenon DEF Init, Inodes
<1> QED
  BY <1>2, <1>5, <1>7, <1>8, Zenon DEF PathInv

-----------------------------------------------------------------------------
(* One turn of the loop.                                                      *)

\* What the turn puts into the trie is the rule's, and the trie stays backed.
LEMMA PutBacked ==
  ASSUME Typed, TriesBacked, at \in Position, nth \in DOMAIN live[at].in,
         NEW entry, {"mask", "id"} \subseteq DOMAIN entry, entry.mask = {live[at].action}, entry.id = at,
         NEW trie, trie = PutMergedPathRule(path[live[at].decision], LpmKeys(live[at].in[nth]), entry)
  PROVE  /\ DOMAIN trie \subseteq Paths
         /\ DOMAIN trie = DOMAIN path[live[at].decision] \cup LpmKeys(live[at].in[nth])
         /\ \A k \in DOMAIN trie : Backed(trie[k], live[at].decision, k)
<1> DEFINE d == live[at].decision
           p == live[at].in[nth]
           old == path[d]
<1>1. d \in {"deny", "allow"} /\ p \in Patterns /\ p \in Range(live[at].in)
  BY RuleTyped, Zenon DEF Range
<1>2. DOMAIN old \subseteq Paths /\ \A k \in DOMAIN old : Backed(old[k], d, k)
  BY <1>1, Zenon DEF TriesBacked
<1>3. ASSUME NEW k \in LpmKeys(p) PROVE k \in Paths /\ Bears(at, k)
  <2>1. CASE p # HomeSSH
    <3>1. k = LpmKey(p)
      BY <2>1, Zenon DEF LpmKeys, ExpandPathPattern
    <3>2. k \in Paths /\ IsPrefix(LpmKey(p), k)
      BY <1>1, <3>1, KeyTyped, PrefixOfItself, Zenon
    <3> QED
      BY <1>1, <2>1, <3>2, Zenon DEF Bears
  <2>2. CASE p = HomeSSH
    <3>1. PICK u \in homes : k = LpmKey(SshOf(u))
      BY <2>2, Zenon DEF LpmKeys, ExpandPathPattern
    <3>2. u \in User
      BY Zenon DEF Typed
    <3>3. k \in Paths
      BY <3>1, <3>2, SshTyped, Zenon
    <3>4. IsPrefix(LpmKey(SshOf(u)), k)
      BY <3>1, <3>3, PrefixOfItself, Zenon
    <3> QED
      BY <1>1, <2>2, <3>2, <3>3, <3>4, Zenon DEF Bears
  <2> QED
    BY <2>1, <2>2, Zenon
<1>4. DOMAIN trie = DOMAIN old \cup LpmKeys(p)
  BY Zenon DEF PutMergedPathRule
<1>5. \A k \in DOMAIN trie : trie[k] = IF k \in LpmKeys(p) THEN Merged(TrieLookup(old, k), entry) ELSE old[k]
  BY Zenon DEF PutMergedPathRule
<1> HIDE DEF d, p, old
<1>6. ASSUME NEW k \in LpmKeys(p) PROVE Backed(Merged(TrieLookup(old, k), entry), d, k)
  <2>1. k \in Paths /\ Bears(at, k)
    BY <1>3, Zenon
  <2>2. Backed(entry, d, k)
    <3>1. live[at].decision = d
      BY Zenon DEF d
    <3> QED
      BY <2>1, <3>1, Zenon DEF Backed
  <2>3. TrieLookup(old, k) = NoEntry \/ \E h \in DOMAIN old : IsPrefix(h, k) /\ TrieLookup(old, k) = old[h]
    BY <1>2, <2>1, LookupFinds, Zenon
  <2>4. TrieLookup(old, k) = NoEntry \/ Backed(TrieLookup(old, k), d, k)
    BY <1>2, <2>1, <2>3, BackedBelow, Zenon
  <2> QED
    BY <2>2, <2>4, MergedBacked, Zenon
<1>7. \A k \in DOMAIN trie : Backed(trie[k], d, k)
  BY <1>2, <1>4, <1>5, <1>6, Zenon
<1> QED
  BY <1>2, <1>3, <1>4, <1>7, Zenon DEF d, p, old

LEMMA TurnTaken ==
  ASSUME Typed, at \in Position, nth \in DOMAIN live[at].in, NextEntry, UNCHANGED live
  PROVE  /\ at' \in Nat \ {0} /\ nth' \in Nat \ {0}
         /\ at' <= Len(live) => nth' = 1 \/ nth' <= Len(live[at'].in)
         /\ \A i \in Position : \A n \in DOMAIN live[i].in : Turned(i, n)' => Turned(i, n) \/ (i = at /\ n = nth)
<1>1. /\ at \in Nat \ {0} /\ nth \in Nat \ {0} /\ Len(live) \in Nat
      /\ Len(live[at].in) \in Nat /\ nth <= Len(live[at].in)
  BY RuleTyped DEF Typed, Position
<1>2. \A i \in Position : \A n \in DOMAIN live[i].in :
        i \in Nat /\ n \in Nat /\ n >= 1 /\ (i = at => n <= Len(live[at].in))
  BY RuleTyped DEF Position
<1>3. CASE nth < Len(live[at].in)
  <2>1. nth' = nth + 1 /\ at' = at
    BY <1>3, Zenon DEF NextEntry
  <2> QED
    BY <1>1, <1>2, <1>3, <2>1 DEF Turned
<1>4. CASE ~(nth < Len(live[at].in))
  <2>1. nth' = 1 /\ at' = at + 1 /\ nth = Len(live[at].in)
    BY <1>1, <1>4 DEF NextEntry
  <2> QED
    BY <1>1, <1>2, <2>1 DEF Turned
<1> QED
  BY <1>3, <1>4, Zenon

LEMMA PathTurn ==
  ASSUME PathInv, LoadPathRule
  PROVE  PathInv'
<1> DEFINE r == live[at]
           p == r.in[nth]
           d == r.decision
           f == FileAt(p.dir)
           entry == [mask |-> {r.action}, id |-> at, spec |-> Specificity(r)]
           trie == PutMergedPathRule(path[d], LpmKeys(p), entry)
           map == PutMergedInodeRule(inode[d], PathToInodeKey(f), entry)
<1>1. Typed /\ TriesBacked /\ TriesFilled /\ Inodes
  BY Zenon DEF PathInv
<1>2. at \in Position /\ live[at].in # << >> /\ UNCHANGED <<live, names, homes>>
  BY <1>1 DEF LoadPathRule, Typed, Position
<1>3. nth \in DOMAIN live[at].in
  <2>1. live[at].in \in Seq(Patterns) /\ DOMAIN live[at].in = 1..Len(live[at].in) /\ Len(live[at].in) \in Nat
    BY <1>1, <1>2, RuleTyped, Zenon
  <2>2. Len(live[at].in) # 0
    BY <1>2, <2>1
  <2>3. nth \in Nat \ {0} /\ (nth = 1 \/ nth <= Len(live[at].in))
    BY <1>1, Zenon DEF LoadPathRule, Typed
  <2> QED
    BY <2>1, <2>2, <2>3
<1>4. d \in {"deny", "allow"} /\ p \in Patterns /\ p \in Range(live[at].in)
  BY <1>1, <1>2, <1>3, RuleTyped, Zenon DEF Range
<1>5. /\ path' = [path EXCEPT ![d] = trie]
      /\ \/ NextEntry /\ UNCHANGED <<inode, resolved>>
         \/ UNCHANGED <<at, nth, inode, resolved>>
         \/ /\ f # Absent /\ NextEntry
            /\ inode' = [inode EXCEPT ![d] = map]
            /\ resolved' = resolved \cup {<<at, f>>}
      /\ expanded' = IF p = HomeSSH THEN expanded \cup {<<at, u>> : u \in homes} ELSE expanded
  BY Zenon DEF LoadPathRule, PutPath
<1>6. {"mask", "id"} \subseteq DOMAIN entry /\ entry.mask = {live[at].action} /\ entry.id = at
  BY Zenon
<1> HIDE DEF entry
<1>7. /\ DOMAIN trie \subseteq Paths /\ DOMAIN trie = DOMAIN path[d] \cup LpmKeys(p)
      /\ \A k \in DOMAIN trie : Backed(trie[k], d, k)
  BY <1>1, <1>2, <1>3, <1>6, PutBacked, Zenon
<1> HIDE DEF trie, map
<1>8. /\ DOMAIN path' = {"deny", "allow"} /\ path'[d] = trie
      /\ \A c \in {"deny", "allow"} : c # d => path'[c] = path[c]
  BY <1>1, <1>4, <1>5, Zenon DEF TriesBacked
<1>9. TriesBacked'
  <2>1. ASSUME NEW c \in {"deny", "allow"}
        PROVE  DOMAIN path'[c] \subseteq Paths /\ \A k \in DOMAIN path'[c] : Backed(path'[c][k], c, k)
    BY <1>1, <1>7, <1>8, Zenon DEF TriesBacked
  <2>2. ASSUME NEW c \in {"deny", "allow"}, NEW k \in DOMAIN path'[c]
        PROVE  Backed(path[c][k], c, k)'
    <3>1. Backed(path'[c][k], c, k)
      BY <2>1, Zenon
    <3>2. UNCHANGED live
      BY <1>2, Zenon
    <3> QED
      BY <3>1, <3>2, Zenon DEF Backed, Bears, Position
  <2> QED
    BY <1>8, <2>1, <2>2, Zenon DEF TriesBacked
<1>10. f \in Files \cup {Absent}
  BY <1>1, Zenon DEF FileAt, Typed
<1>11. \A i \in Position : \A n \in DOMAIN live[i].in :
         Turned(i, n)' => Turned(i, n) \/ (i = at /\ n = nth)
  <2>1. CASE NextEntry
    BY <1>1, <1>2, <1>3, <2>1, TurnTaken, Zenon
  <2>2. CASE UNCHANGED <<at, nth>>
    BY <2>2, Zenon DEF Turned
  <2> QED
    BY <1>5, <2>1, <2>2, Zenon
<1>12. Typed'
  <2>1. /\ at' \in Nat \ {0} /\ nth' \in Nat \ {0}
        /\ at' <= Len(live) => nth' = 1 \/ nth' <= Len(live[at'].in)
    <3>1. CASE NextEntry
      BY <1>1, <1>2, <1>3, <3>1, TurnTaken, Zenon
    <3>2. CASE UNCHANGED <<at, nth>>
      BY <1>1, <3>2, Zenon DEF Typed
    <3> QED
      BY <1>5, <3>1, <3>2, Zenon
  <2>2. resolved' \subseteq Position \X Files
    BY <1>1, <1>2, <1>5, <1>10 DEF Typed
  <2>3. expanded' \subseteq Position \X User
    BY <1>1, <1>2, <1>5 DEF Typed
  <2> QED
    BY <1>1, <1>2, <2>1, <2>2, <2>3, Zenon DEF Typed, Position
<1>13. TriesFilled'
  <2>1. \A c \in {"deny", "allow"} : DOMAIN path[c] \subseteq DOMAIN path'[c]
    BY <1>7, <1>8, Zenon
  <2>2. ASSUME NEW i \in Position, NEW n \in DOMAIN live[i].in, Turned(i, n)', live[i].in[n] # HomeSSH
        PROVE  LpmKey(live[i].in[n]) \in DOMAIN path'[live[i].decision]
    <3>1. CASE Turned(i, n)
      <4>1. live[i].decision \in {"deny", "allow"}
        BY <1>1, RuleTyped, Zenon
      <4> QED
        BY <1>1, <2>1, <2>2, <3>1, <4>1, Zenon DEF TriesFilled
    <3>2. CASE i = at /\ n = nth
      <4>1. LpmKey(p) \in LpmKeys(p)
        BY <2>2, <3>2, Zenon DEF LpmKeys, ExpandPathPattern
      <4> QED
        BY <1>7, <1>8, <3>2, <4>1, Zenon
    <3> QED
      BY <1>11, <2>2, <3>1, <3>2, Zenon
  <2>3. ASSUME NEW x \in expanded'
        PROVE  LpmKey(SshOf(x[2])) \in DOMAIN path'[live[x[1]].decision]
    <3>1. CASE x \in expanded
      <4>1. x[1] \in Position
        BY <1>1, <3>1, Zenon DEF Typed
      <4>2. live[x[1]].decision \in {"deny", "allow"}
        BY <1>1, <4>1, RuleTyped, Zenon
      <4> QED
        BY <1>1, <2>1, <3>1, <4>2, Zenon DEF TriesFilled
    <3>2. CASE x \notin expanded
      <4>1. p = HomeSSH
        BY <1>5, <2>3, <3>2, Zenon
      <4>2. PICK u \in homes : x = <<at, u>>
        BY <1>5, <2>3, <3>2, Zenon
      <4>3. LpmKey(SshOf(u)) \in LpmKeys(p)
        BY <4>1, Zenon DEF LpmKeys, ExpandPathPattern
      <4>4. x[1] = at /\ x[2] = u
        BY <4>2, Zenon
      <4> QED
        BY <1>7, <1>8, <4>3, <4>4, Zenon
    <3> QED
      BY <3>1, <3>2, Zenon
  <2> QED
    BY <1>2, <2>2, <2>3, Zenon DEF TriesFilled, Position, Turned
<1>14. Inodes'
  <2>1. CASE UNCHANGED <<inode, resolved>>
    BY <1>1, <1>2, <2>1 DEF Inodes, InodeBacked
  <2>2. CASE /\ f # Absent
             /\ inode' = [inode EXCEPT ![d] = map]
             /\ resolved' = resolved \cup {<<at, f>>}
    <3> DEFINE key == PathToInodeKey(f)
               y == <<at, f>>
    <3>1. /\ DOMAIN map = DOMAIN inode[d] \cup {key}
          /\ \A k \in DOMAIN map : map[k] = IF k = key THEN Merged(HashLookup(inode[d], k), entry) ELSE inode[d][k]
      BY Zenon DEF map, PutMergedInodeRule
    <3>2. /\ DOMAIN inode' = {"deny", "allow"} /\ inode'[d] = map
          /\ \A c \in {"deny", "allow"} : c # d => inode'[c] = inode[c]
      BY <1>1, <1>4, <2>2, Zenon DEF Inodes
    <3>3. y \in resolved' /\ y[1] = at /\ PathToInodeKey(y[2]) = key /\ resolved \subseteq resolved'
      BY <2>2, Zenon
    <3>4. live' = live
      BY <1>2, Zenon
    <3> HIDE DEF key, y
    <3>5. ASSUME NEW e, NEW c, NEW k, InodeBacked(resolved, e, c, k)
          PROVE  InodeBacked(resolved', e, c, k)
      BY <3>3, <3>5, Zenon DEF InodeBacked
    <3>6. InodeBacked(resolved', entry, d, key)
      <4>1. live[y[1]].decision = d /\ live[y[1]].action = live[at].action
        BY <3>3, Zenon
      <4> QED
        BY <1>6, <3>3, <4>1, Zenon DEF InodeBacked
    <3>7. HashLookup(inode[d], key) = NoEntry \/ InodeBacked(resolved', HashLookup(inode[d], key), d, key)
      BY <1>1, <1>4, <3>5, Zenon DEF HashLookup, Inodes
    <3>8. InodeBacked(resolved', Merged(HashLookup(inode[d], key), entry), d, key)
      BY <3>6, <3>7, MergedInodeBacked, Zenon
    <3>9. ASSUME NEW c \in {"deny", "allow"}, NEW k \in DOMAIN inode'[c]
          PROVE  InodeBacked(resolved', inode'[c][k], c, k)
      <4>1. CASE c = d /\ k = key
        BY <3>1, <3>2, <3>8, <3>9, <4>1, Zenon
      <4>2. CASE ~(c = d /\ k = key)
        <5>1. k \in DOMAIN inode[c] /\ inode'[c][k] = inode[c][k]
          BY <3>1, <3>2, <3>9, <4>2, Zenon
        <5> QED
          BY <1>1, <3>5, <5>1, Zenon DEF Inodes
      <4> QED
        BY <4>1, <4>2, Zenon
    <3>10. ASSUME NEW x \in resolved'
           PROVE  PathToInodeKey(x[2]) \in DOMAIN inode'[live[x[1]].decision]
      <4>1. CASE x = y
        BY <3>1, <3>2, <3>3, <4>1, Zenon
      <4>2. CASE x \in resolved
        <5>1. x[1] \in Position
          BY <1>1, <4>2, Zenon DEF Typed
        <5>2. live[x[1]].decision \in {"deny", "allow"}
          BY <1>1, <5>1, RuleTyped, Zenon
        <5>3. PathToInodeKey(x[2]) \in DOMAIN inode[live[x[1]].decision]
          BY <1>1, <4>2, Zenon DEF Inodes
        <5> QED
          BY <3>1, <3>2, <5>2, <5>3, Zenon
      <4> QED
        BY <2>2, <4>1, <4>2, Zenon DEF y
    <3>11. ASSUME NEW c \in {"deny", "allow"}, NEW k \in DOMAIN inode'[c]
           PROVE  InodeBacked(resolved, inode[c][k], c, k)'
      BY <3>4, <3>9 DEF InodeBacked
    <3>12. \A x \in resolved' : PathToInodeKey(x[2]) \in DOMAIN inode'[live'[x[1]].decision]
      BY <3>4, <3>10, Zenon
    <3> QED
      BY <3>2, <3>11, <3>12, Zenon DEF Inodes
  <2> QED
    BY <1>5, <2>1, <2>2, Zenon
<1> QED
  BY <1>9, <1>12, <1>13, <1>14, Zenon DEF PathInv

-----------------------------------------------------------------------------
(* All steps.                                                                 *)

LEMMA PathStep ==
  ASSUME PathInv, [Next]_vars
  PROVE  PathInv'
<1>1. CASE LoadPathRule
  BY <1>1, PathTurn, Zenon
<1>2. CASE UNCHANGED <<live, at, nth, path, inode, resolved, expanded>>
           /\ names' \in [Named -> Files \cup {Absent}] /\ homes' \subseteq User
  <2>1. Typed'
    BY <1>2, Zenon DEF PathInv, Typed, Position
  <2>2. TriesBacked'
    <3>1. ASSUME NEW d \in {"deny", "allow"}, NEW k \in DOMAIN path[d]
          PROVE  Backed(path[d][k], d, k)'
      <4>1. Backed(path[d][k], d, k)
        BY Zenon DEF PathInv, TriesBacked
      <4> QED
        BY <1>2, <4>1, Zenon DEF Backed, Bears, Position
    <3>2. /\ DOMAIN path = {"deny", "allow"} /\ \A d \in {"deny", "allow"} : DOMAIN path[d] \subseteq Paths
          /\ path' = path
      BY <1>2, Zenon DEF PathInv, TriesBacked
    <3> QED
      BY <3>1, <3>2, Zenon DEF TriesBacked
  <2>3. TriesFilled'
    BY <1>2, Zenon DEF PathInv, TriesFilled, Turned, Position
  <2>4. Inodes'
    BY <1>2 DEF PathInv, Inodes, InodeBacked
  <2> QED
    BY <2>1, <2>2, <2>3, <2>4, Zenon DEF PathInv
<1>3. CASE RefusePathRule
  BY <1>2, <1>3, Zenon DEF RefusePathRule, PathInv, Typed
<1>4. ASSUME NEW name \in Named, NEW g \in Files \cup {Absent}, Change(name, g) PROVE PathInv'
  BY <1>2, <1>4, Zenon DEF Change, ChangeFrame, PathInv, Typed
<1>5. ASSUME NEW u \in User, ChangeHome(u) PROVE PathInv'
  BY <1>2, <1>5, Zenon DEF ChangeHome, ChangeFrame, PathInv, Typed
<1>6. CASE UNCHANGED vars
  BY <1>2, <1>6, Zenon DEF vars, PathInv, Typed
<1> QED
  BY <1>1, <1>3, <1>4, <1>5, <1>6, Zenon DEF Next

\* While LoadLive writes the tries and the inode maps, every entry and every
\* action in its mask is that of a rule about the key, and every pattern, home
\* and file that had its turn has a key (loadPathRule, mergePathRules).
THEOREM PathInvariant == Spec => []PathInv
<1>1. Init => PathInv
  BY PathInitial, Zenon
<1>2. PathInv /\ [Next]_vars => PathInv'
  BY PathStep, Zenon
<1> QED
  BY <1>1, <1>2, PTL DEF Spec

-----------------------------------------------------------------------------
(* What the tries' entries mean.                                              *)

\* A path that a rule of patterns bears on matches one of them.
LEMMA BearsMatches ==
  ASSUME Typed, ~HasExact(live), NEW i \in Position, NEW name \in Paths, Bears(i, name)
  PROVE  \E p \in Range(live[i].in) : Matches(name, p)
<1>1. PICK p \in Range(live[i].in) :
         \/ p # HomeSSH /\ IsPrefix(LpmKey(p), name)
         \/ p = HomeSSH /\ \E u \in User : IsPrefix(LpmKey(SshOf(u)), name)
  BY Zenon DEF Bears
<1>2. CASE p = HomeSSH
  BY <1>1, <1>2, HomeMatches, Zenon DEF Matches
<1>3. CASE p # HomeSSH
  <2>1. p.wild
    BY Zenon DEF HasExact, Position
  <2>2. IsPrefix(p.dir \o <<Slash>>, name)
    BY <1>1, <1>3, <2>1, Zenon DEF LpmKey
  <2> QED
    BY <1>3, <2>1, <2>2, Zenon DEF Matches
<1> QED
  BY <1>2, <1>3, Zenon

\* What a denial on account of a path rests on.
LEMMA DenialBacked ==
  ASSUME PathInv, NEW in \in Inputs, NEW name \in in.paths, PathDenied(in, name)
  PROVE  /\ name \in Paths
         /\ Backed(TrieLookup(path["deny"], name), "deny", name)
         /\ Decides(TrieLookup(path["deny"], name), in)
<1>1. name \in Paths
  BY PathAssumption, Zenon
<1>2. Decides(TrieLookup(path["deny"], name), in)
  BY Zenon DEF PathDenied, OpenVerdict
<1>3. TrieLookup(path["deny"], name) # NoEntry
  BY <1>2 DEF Decides, MaskMatches, NoEntry
<1>4. Typed /\ DOMAIN path["deny"] \subseteq Paths
      /\ \A k \in DOMAIN path["deny"] : Backed(path["deny"][k], "deny", k)
  BY Zenon DEF PathInv, TriesBacked
<1>5. \E k \in DOMAIN path["deny"] : IsPrefix(k, name) /\ TrieLookup(path["deny"], name) = path["deny"][k]
  BY <1>1, <1>3, <1>4, LookupFinds, Zenon
<1>6. Backed(TrieLookup(path["deny"], name), "deny", name)
  BY <1>1, <1>4, <1>5, BackedBelow, Zenon
<1> QED
  BY <1>1, <1>2, <1>6, Zenon

LEMMA InRange == ASSUME Typed, NEW i \in Position PROVE live[i] \in Range(live)
  BY DEF Typed, Position, Range

LEMMA SoundState ==
  ASSUME PathInv
  PROVE  KernelDenySound
<1> SUFFICES ASSUME Plain, NEW in \in Inputs, KernelDenies(in) PROVE EvaluateActions(live, in) = "deny"
  BY Zenon DEF KernelDenySound
<1>1. Typed
  BY Zenon DEF PathInv
<1>2. PICK name \in in.paths : PathDenied(in, name)
  BY Zenon DEF KernelDenies
<1> DEFINE e == TrieLookup(path["deny"], name)
<1>3. name \in Paths /\ Backed(e, "deny", name) /\ Decides(e, in)
  BY <1>2, DenialBacked, Zenon
<1> HIDE DEF e
<1>4. PICK a \in e.mask : ActionMatches(a, in)
  BY <1>3, Zenon DEF Decides, MaskMatches
<1>5. PICK i \in Position : live[i].decision = "deny" /\ live[i].action = a /\ Bears(i, name)
  BY <1>3, <1>4, Zenon DEF Backed
<1>6. \E p \in Range(live[i].in) : Matches(name, p)
  BY <1>1, <1>3, <1>5, BearsMatches, Zenon DEF Plain
<1>7. live[i].notIn = {}
  BY Zenon DEF Plain, Position
<1>8. RuleMatches(live[i], in)
  BY <1>4, <1>5, <1>6, <1>7, Zenon DEF RuleMatches, RuleMatchesPath
<1>9. live[i] \in Range(live)
  BY <1>1, InRange, Zenon
<1>10. "deny" \in {r.decision : r \in {q \in Range(live) : RuleMatches(q, in)}}
  BY <1>5, <1>8, <1>9, Zenon
<1> QED
  BY <1>10, Zenon DEF EvaluateActions

LEMMA AttributedState ==
  ASSUME PathInv
  PROVE  DenialAttributed
<1> SUFFICES ASSUME Plain, NEW in \in Inputs, NEW name \in in.paths, PathDenied(in, name)
             PROVE  LET r == live[TrieLookup(path["deny"], name).id]
                    IN  r.decision = "deny" /\ RuleMatchesPath(r, name)
  BY Zenon DEF DenialAttributed
<1> DEFINE i == TrieLookup(path["deny"], name).id
<1>1. name \in Paths /\ i \in Position /\ live[i].decision = "deny" /\ Bears(i, name)
  BY DenialBacked, Zenon DEF Backed
<1> HIDE DEF i
<1>2. \E p \in Range(live[i].in) : Matches(name, p)
  BY <1>1, BearsMatches, Zenon DEF Plain, PathInv
<1>3. live[i].notIn = {}
  BY <1>1, Zenon DEF Plain, Position
<1>4. live[i].decision = "deny" /\ RuleMatchesPath(live[i], name)
  BY <1>1, <1>2, <1>3, Zenon DEF RuleMatchesPath
<1> QED
  BY <1>4, Zenon DEF i

\* With deny rules for one action, that action is in every mask.
LEMMA CompleteState ==
  ASSUME PathInv
  PROVE  DenyListComplete
<1> SUFFICES ASSUME Loaded, DenyList, NEW in \in Inputs, EvaluateActions(live, in) = "deny",
                    \A name \in in.paths, i \in 1..Len(live) : \A p \in Range(live[i].in) : ~NotPut(i, p, name)
             PROVE  KernelDenies(in)
  BY Zenon DEF DenyListComplete
<1>1. Typed /\ TriesBacked /\ TriesFilled
  BY Zenon DEF PathInv
<1>2. "deny" \in {r.decision : r \in {q \in Range(live) : RuleMatches(q, in)}}
  BY Zenon DEF EvaluateActions
<1>3. PICK i \in Position : RuleMatches(live[i], in)
  BY <1>1, <1>2 DEF Range, Typed, Position
<1>4. PICK name \in in.paths : RuleMatchesPath(live[i], name)
  BY <1>3, Zenon DEF RuleMatches
<1>5. PICK p \in Range(live[i].in) : Matches(name, p)
  BY <1>4, Zenon DEF RuleMatchesPath
<1>6. ActionMatches(live[i].action, in) /\ live[i].decision = "deny" /\ name \in Paths /\ ~NotPut(i, p, name)
  BY <1>3, PathAssumption, Zenon DEF RuleMatches, DenyList, Position
<1>7. PICK n \in DOMAIN live[i].in : p = live[i].in[n]
  BY Zenon DEF Range
<1>8. Turned(i, n)
  BY <1>1 DEF Loaded, Turned, Typed, Position
<1>9. p \in Patterns
  BY <1>1, RuleTyped, Zenon
<1>10. \E k0 \in DOMAIN path["deny"] : IsPrefix(k0, name)
  <2>1. CASE p # HomeSSH
    <3>1. LpmKey(p) \in DOMAIN path["deny"]
      BY <1>1, <1>6, <1>7, <1>8, <2>1, Zenon DEF TriesFilled
    <3>2. CASE p.wild
      BY <1>5, <1>6, <2>1, <3>1, <3>2, Zenon DEF NotPut, Matches, LpmKey
    <3>3. CASE ~p.wild
      <4>1. LpmKey(p) = name
        BY <1>5, <2>1, <3>3, Zenon DEF Matches, LpmKey
      <4> QED
        BY <1>6, <3>1, <4>1, PrefixOfItself, Zenon
    <3> QED
      BY <3>2, <3>3, Zenon
  <2>2. CASE p = HomeSSH
    <3>1. MatchesHomeSSH(name)
      BY <1>5, <2>2, Zenon DEF Matches
    <3>2. PICK x \in expanded : x[1] = i /\ Matches(name, SshOf(x[2]))
      BY <1>6, <2>2, <3>1, Zenon DEF NotPut
    <3>3. x[2] \in User
      BY <1>1, Zenon DEF Typed
    <3>4. name # SshOf(x[2]).dir
      BY <3>1, <3>3, HomeDirNot, Zenon
    <3>5. SshOf(x[2]).wild /\ SshOf(x[2]) # HomeSSH
      BY <3>3, SshTyped, Zenon
    <3>6. IsPrefix(LpmKey(SshOf(x[2])), name)
      BY <3>2, <3>4, <3>5, Zenon DEF Matches, LpmKey
    <3>7. LpmKey(SshOf(x[2])) \in DOMAIN path["deny"]
      BY <1>1, <1>6, <3>2, Zenon DEF TriesFilled
    <3> QED
      BY <3>6, <3>7, Zenon
  <2> QED
    BY <2>1, <2>2, Zenon
<1> DEFINE e == TrieLookup(path["deny"], name)
<1>11. /\ DOMAIN path["deny"] \subseteq Paths
       /\ \A k \in DOMAIN path["deny"] : Backed(path["deny"][k], "deny", k)
  BY <1>1, Zenon DEF TriesBacked
<1>12. \E k \in DOMAIN path["deny"] : e = path["deny"][k]
  BY <1>6, <1>10, <1>11, LookupHit, Zenon
<1>13. PICK k \in Paths : Backed(e, "deny", k)
  BY <1>11, <1>12, Zenon
<1> HIDE DEF e
<1>14. Decides(e, in)
  <2>1. PICK a : a \in e.mask
    BY <1>13, Zenon DEF Backed
  <2>2. \E j \in Position : live[j].action = a
    BY <1>13, <2>1, Zenon DEF Backed
  <2>3. a = live[i].action
    BY <2>2, Zenon DEF DenyList, Position
  <2> QED
    BY <1>6, <2>1, <2>3, Zenon DEF Decides, MaskMatches
<1>15. TrieLookup(path["allow"], name) = NoEntry
  <2>1. \A h \in DOMAIN path["allow"] : FALSE
    <3>1. \A j \in Position : live[j].decision # "allow"
      BY Zenon DEF DenyList, Position
    <3> QED
      BY <1>1, <3>1 DEF TriesBacked, Backed
  <2> QED
    BY <2>1, Zenon DEF TrieLookup
<1>16. ~Decides(TrieLookup(path["allow"], name), in)
  BY <1>15 DEF Decides, MaskMatches, NoEntry
<1>17. PathDenied(in, name)
  BY <1>14, <1>16, Zenon DEF PathDenied, OpenVerdict, e
<1> QED
  BY <1>17, Zenon DEF KernelDenies

LEMMA DigitsUnique ==
  ASSUME NEW m \in Nat, NEW a \in Nat, NEW b \in Nat, NEW c \in 0..(m - 1), NEW d \in 0..(m - 1),
         m * a + c = m * b + d
  PROVE  a = b /\ c = d
<1>1. m * a \in Nat /\ m * b \in Nat /\ c \in Nat /\ d \in Nat /\ c < m /\ d < m
  OBVIOUS
<1>2. a < b => m * b >= m * a + m
  OBVIOUS
<1>3. b < a => m * a >= m * b + m
  OBVIOUS
<1>4. a = b
  BY <1>1, <1>2, <1>3
<1> QED
  BY <1>1, <1>4

\* Where stat and the kernel number a device alike, the number is the file's own.
LEMMA KeyInjective ==
  ASSUME NEW f \in Files, NEW g \in Files, KeysAgree(f), PathToInodeKey(f) = InodeKey(g)
  PROVE  f = g
<1>1. /\ f \in [ino : Nat, dev : [major : Nat, minor : 0..(Minors - 1)]]
      /\ g \in [ino : Nat, dev : [major : Nat, minor : 0..(Minors - 1)]]
  BY PathAssumption, Zenon
<1>2. f.ino = g.ino /\ SDev(f.dev) = SDev(g.dev)
  BY Zenon DEF PathToInodeKey, InodeKey, KeysAgree
<1>3. /\ f.dev \in [major : Nat, minor : 0..(Minors - 1)]
      /\ g.dev \in [major : Nat, minor : 0..(Minors - 1)]
  BY <1>1, Zenon
<1> DEFINE a == f.dev.major
           b == g.dev.major
           c == f.dev.minor
           d == g.dev.minor
<1>4. a \in Nat /\ b \in Nat /\ c \in 0..(Minors - 1) /\ d \in 0..(Minors - 1)
  BY <1>3, Zenon
<1>5. Minors \in Nat
  BY SMT DEF Minors
<1>6. Minors * a + c = Minors * b + d
  BY <1>2, Zenon DEF SDev
<1> HIDE DEF a, b, c, d
<1>7. a = b /\ c = d
  BY <1>4, <1>5, <1>6, DigitsUnique, Zenon
<1>8. f.dev.major = g.dev.major /\ f.dev.minor = g.dev.minor
  BY <1>7, Zenon DEF a, b, c, d
<1> QED
  BY <1>1, <1>2, <1>3, <1>8

LEMMA FileState ==
  ASSUME PathInv
  PROVE  FileRuleFollowsFile
<1> SUFFICES ASSUME DenyList, \A x \in resolved : KeysAgree(x[2]),
                    NEW in \in Inputs, NEW f \in Files, KeysAgree(f)
             PROVE  FileOpenDenied(in, f) <=> \E x \in resolved : x[2] = f /\ ActionMatches(live[x[1]].action, in)
  BY Zenon DEF FileRuleFollowsFile
<1> DEFINE e == HashLookup(inode["deny"], InodeKey(f))
<1>1. Inodes /\ \A x \in resolved : x[1] \in Position /\ x[2] \in Files
  BY Zenon DEF PathInv, Typed
<1>2. ~Decides(NoEntry, in)
  BY Zenon DEF Decides, MaskMatches, NoEntry
<1>3. ASSUME Decides(e, in) PROVE \E x \in resolved : x[2] = f /\ ActionMatches(live[x[1]].action, in)
  <2>1. InodeKey(f) \in DOMAIN inode["deny"] /\ e = inode["deny"][InodeKey(f)]
    BY <1>2, <1>3, Zenon DEF HashLookup
  <2>2. InodeBacked(resolved, e, "deny", InodeKey(f))
    BY <1>1, <2>1, Zenon DEF Inodes
  <2> HIDE DEF e
  <2>3. PICK a \in e.mask : ActionMatches(a, in)
    BY <1>3, Zenon DEF Decides, MaskMatches
  <2>4. PICK x \in resolved : live[x[1]].action = a /\ PathToInodeKey(x[2]) = InodeKey(f)
    BY <2>2, <2>3, Zenon DEF InodeBacked
  <2>5. x[2] = f
    BY <1>1, <2>4, KeyInjective, Zenon
  <2> QED
    BY <2>3, <2>4, <2>5, Zenon
<1>4. ASSUME NEW x \in resolved, x[2] = f, ActionMatches(live[x[1]].action, in) PROVE Decides(e, in)
  <2>1. live[x[1]].decision = "deny"
    BY <1>1, Zenon DEF DenyList, Position
  <2>2. PathToInodeKey(x[2]) = InodeKey(f)
    BY <1>4, Zenon DEF PathToInodeKey, InodeKey, KeysAgree
  <2>3. InodeKey(f) \in DOMAIN inode["deny"]
    BY <1>1, <2>1, <2>2, Zenon DEF Inodes
  <2>4. e = inode["deny"][InodeKey(f)]
    BY <2>3, Zenon DEF HashLookup
  <2>5. InodeBacked(resolved, e, "deny", InodeKey(f))
    BY <1>1, <2>3, <2>4, Zenon DEF Inodes
  <2> HIDE DEF e
  <2>6. PICK a : a \in e.mask
    BY <2>5, Zenon DEF InodeBacked
  <2>7. PICK y \in resolved : live[y[1]].action = a
    BY <2>5, <2>6, Zenon DEF InodeBacked
  <2>8. a = live[x[1]].action
    BY <1>1, <2>7, Zenon DEF DenyList, Position
  <2> QED
    BY <1>4, <2>6, <2>8, Zenon DEF Decides, MaskMatches
<1>5. ~Decides(HashLookup(inode["allow"], InodeKey(f)), in)
  <2>1. \A h \in DOMAIN inode["allow"] : FALSE
    <3>1. \A x \in resolved : live[x[1]].decision # "allow"
      BY <1>1, Zenon DEF DenyList, Position
    <3> QED
      BY <1>1, <3>1 DEF Inodes, InodeBacked
  <2> QED
    BY <1>2, <2>1, Zenon DEF HashLookup
<1> QED
  BY <1>3, <1>4, <1>5, Zenon DEF FileOpenDenied, OpenVerdict

-----------------------------------------------------------------------------

\* For every bundle without exact paths and path_not_in the kernel denies no call
\* that EvaluateActions does not deny (LoadLive, enforce_path).
THEOREM DenialsSound == Spec => []KernelDenySound
  BY PathInvariant, SoundState, PTL

\* The rule a denial is reported under is a deny rule about that path, however
\* entries were merged (mergePathRules, emit_deny).
THEOREM DenialsAttributed == Spec => []DenialAttributed
  BY PathInvariant, AttributedState, PTL

\* Deny rules for a single action are enforced completely, but for the very
\* directories and the homes that were not there (LoadLive, enforce_path).
THEOREM DenyListsComplete == Spec => []DenyListComplete
  BY PathInvariant, CompleteState, PTL

\* A rule on a file follows the file and touches no other, whatever becomes of the
\* names (loadPathRule, enforce_file_open).
THEOREM FileRulesFollowFiles == Spec => []FileRuleFollowsFile
  BY PathInvariant, FileState, PTL
=============================================================================
