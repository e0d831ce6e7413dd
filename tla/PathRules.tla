----------------------------- MODULE PathRules ------------------------------
(***************************************************************************)
(* Path rules, evaluated twice.                                            *)
(*                                                                         *)
(* EvaluateActions (eval.go) judges a call against the compiled rules in   *)
(* userspace; it is what shadow evaluation, the tests and the documents    *)
(* mean by a policy.  In enforce mode LoadLive (mapload.go) writes the same *)
(* rules into two longest-prefix-match tries, and enforce_path             *)
(* (enforcer.bpf.c) judges the call by what it finds there.  A rule on a    *)
(* single file is also kept under the file's inode and device numbers, as  *)
(* stat returns them, for the LSM hook enforce_file_open.                  *)
(*                                                                         *)
(* The pattern /home/*/.ssh/* is put for each home directory there is then. *)
(*                                                                         *)
(* What is abstracted: a path is a sequence of characters, of which only   *)
(* the slash has a meaning, without empty components; .ssh is a character.  *)
(* Rules on uid, binary or cgroup are not loaded into the kernel; globs     *)
(* other than a trailing slash and star are refused, but for that one.     *)
(***************************************************************************)
EXTENDS Naturals, Sequences, FiniteSetsExt

CONSTANTS
  Char,      \* characters
  Slash, Star, Ssh,
  Home,      \* the path of the home directories
  User,      \* the home directories that may be there
  Bundles,   \* sequences of enforced, compiled rules (CompiledPolicy.Live)
  Inputs,    \* the system calls judged
  Absent,    \* no file
  Files,     \* files: [ino, dev], where dev is [major, minor]
  Named,     \* the paths that may name files
  Disks,     \* the files that they may name at first
  MaxChanges   \* bound on the changes of names and homes

Paths == Seq(Char)

Patterns == [dir : Paths, wild : BOOLEAN]

Rules == [decision : {"deny", "allow"}, action : STRING, in : Seq(Patterns), notIn : SUBSET Patterns]

\* A minor number has 20 bits.
Minors == 1048576

\* A home whose name has a star would be refused like any other such glob.
ASSUME PathAssumption ==
  /\ {Slash, Star, Ssh} \cup User \subseteq Char /\ Ssh # Slash /\ {Slash, Star} \cap User = {}
  /\ Home \in Paths
  /\ Bundles \subseteq Seq(Rules)
  /\ Inputs \subseteq [action : STRING, write : BOOLEAN, paths : SUBSET Paths]
  /\ Files \subseteq [ino : Nat, dev : [major : Nat, minor : 0..(Minors - 1)]]
  /\ Absent \notin Files
  /\ Disks \subseteq [Named -> Files \cup {Absent}]
  /\ MaxChanges \in Nat

VARIABLES
  live,       \* the rules being loaded
  at,         \* the next rule to load ...
  nth,        \* ... and which of its path_in entries
  failed,     \* LoadLive returned an error
  path,       \* path_deny and path_allow
  inode,      \* inode_deny and inode_allow
  names,      \* the file each path names
  homes,      \* the home directories there are
  changes,    \* how often names or homes changed
  resolved,   \* history: which rule was loaded for which file
  expanded    \* history: which rule was loaded for which home

vars == <<live, at, nth, failed, path, inode, names, homes, changes, resolved, expanded>>

\* strings.HasPrefix, and the match of a trie's key.
IsPrefix(s, t) == Len(s) <= Len(t) /\ SubSeq(t, 1, Len(s)) = s

-----------------------------------------------------------------------------
(* A pattern is a path, or all that is below a directory (wild).  A rule is *)
(* [decision, action, in, notIn]; in is a sequence of patterns, notIn a set. *)

\* homeSSHGlobPattern, and what it is expanded to.
HomeSSH == [dir |-> Home \o <<Slash, Star, Slash, Ssh>>, wild |-> TRUE]
SshOf(u) == [dir |-> Home \o <<Slash, u, Slash, Ssh>>, wild |-> TRUE]

\* pathMatchesHomeSSH: a user's name, without a slash, is followed by .ssh.
MatchesHomeSSH(name) ==
  /\ IsPrefix(Home \o <<Slash>>, name)
  /\ \E n \in Len(Home) + 2..Len(name) :
       /\ \A i \in Len(Home) + 2..n : name[i] # Slash
       /\ IsPrefix(<<Slash, Ssh, Slash>>, SubSeq(name, n + 1, Len(name)))

\* pathMatchesGlob.
Matches(name, p) ==
  IF p = HomeSSH THEN MatchesHomeSSH(name)
  ELSE name = p.dir \/ (p.wild /\ IsPrefix(p.dir \o <<Slash>>, name))

\* ruleMatchesPath and ruleMatchesPaths: one of the two paths is enough.
RuleMatchesPath(r, name) ==
  /\ \A p \in r.notIn : ~Matches(name, p)
  /\ \E p \in Range(r.in) : Matches(name, p)

\* ruleMatchesAction and the kernel's action_matches: an open for writing is
\* also a write.
ActionMatches(action, in) ==
  action = in.action \/ (action = "write" /\ in.action = "open" /\ in.write)

RuleMatches(r, in) ==
  ActionMatches(r.action, in) /\ \E name \in in.paths : RuleMatchesPath(r, name)

\* pathSpecificity: the place of the first star, or the length.
PathSpecificity(p) ==
  IF p = HomeSSH THEN Len(Home) + 1 ELSE Len(p.dir) + (IF p.wild THEN 1 ELSE 0)

\* matchSpecificity: the largest of all entries of the rule, and at least 1.
Specificity(r) ==
  Max({1} \cup {PathSpecificity(p) : p \in Range(r.in) \cup r.notIn})

\* EvaluateActions, of which only the decision is kept: a deny that matches is
\* displaced by another deny only.
EvaluateActions(rules, in) ==
  LET decisions == {r.decision : r \in {q \in Range(rules) : RuleMatches(q, in)}}
  IN  CASE "deny" \in decisions -> "deny"
        [] decisions = {"allow"} -> "allow"
        [] OTHER -> "none"

\* pathsOverlap compares the patterns' texts.
PathsOverlap(p, q) == p = q \/ IsPrefix(p.dir, q.dir) \/ IsPrefix(q.dir, p.dir)

\* resolveConflicts: Compile refuses rules for the same action, of the same
\* decision and specificity, that overlap.
Compiles(rules) ==
  \A i, j \in 1..Len(rules) :
    /\ i < j
    /\ rules[i].action = rules[j].action /\ rules[i].decision = rules[j].decision
    /\ Specificity(rules[i]) = Specificity(rules[j])
    => \A p \in Range(rules[i].in), q \in Range(rules[j].in) : ~PathsOverlap(p, q)

-----------------------------------------------------------------------------
(* The tries.  An entry is [mask, id, spec]; id is the rule's position.    *)

NoEntry == [mask |-> {}, id |-> 0, spec |-> 0]

\* A lookup, from either side, finds the longest key that is a prefix.
TrieLookup(trie, key) ==
  LET hits == {k \in DOMAIN trie : IsPrefix(k, key)}
  IN  IF hits = {} THEN NoEntry
      ELSE trie[CHOOSE k \in hits : \A h \in hits : Len(h) <= Len(k)]

\* pathPatternToLPM: an exact path is a prefix like any other.
LpmKey(p) == IF p.wild THEN p.dir \o <<Slash>> ELSE p.dir

\* mergePathRules, for two entries with the same decision.
MergePathRules(old, new) ==
  IF new.spec > old.spec THEN new
  ELSE IF new.spec < old.spec THEN old
  ELSE [old EXCEPT !.mask = @ \cup new.mask, !.id = new.id]

HashLookup(map, key) == IF key \in DOMAIN map THEN map[key] ELSE NoEntry

\* What is put where a lookup has found old.
Merged(old, new) == IF old = NoEntry THEN new ELSE MergePathRules(old, new)

\* putMergedPathRule, for each key.  Keys that are put together do not hide each
\* other: they are those of different homes.
PutMergedPathRule(trie, keys, new) ==
  [k \in DOMAIN trie \cup keys |-> IF k \in keys THEN Merged(TrieLookup(trie, k), new) ELSE trie[k]]

PutMergedInodeRule(map, key, new) ==
  [k \in DOMAIN map \cup {key} |-> IF k = key THEN Merged(HashLookup(map, k), new) ELSE map[k]]

\* What stat reports of a device, and what the kernel keeps in s_dev.
StatDev(dev) == (dev.minor % 256) + 256 * dev.major + Minors * (dev.minor \div 256)
SDev(dev) == Minors * dev.major + dev.minor

\* Mutation: the device is left out.
MutPathToInodeKey(f) == [ino |-> f.ino, dev |-> 0]

\* pathToInodeKey.
PathToInodeKey(f) == [ino |-> f.ino, dev |-> StatDev(f.dev)]

NextEntry == IF nth < Len(live[at].in) THEN nth' = nth + 1 /\ at' = at ELSE nth' = 1 /\ at' = at + 1

\* Mutation: only one home is taken.
MutExpandPathPattern(p) ==
  IF p # HomeSSH THEN {p} ELSE IF homes = {} THEN {} ELSE {SshOf(CHOOSE u \in homes : TRUE)}

\* expandPathPattern.
ExpandPathPattern(p) == IF p # HomeSSH THEN {p} ELSE {SshOf(u) : u \in homes}

LpmKeys(p) == {LpmKey(q) : q \in ExpandPathPattern(p)}

\* Mutation: both decisions go to the deny trie.
MutPutPath(r, p, entry) ==
  path' = [path EXCEPT !["deny"] = PutMergedPathRule(@, LpmKeys(p), entry)]

PutPath(r, p, entry) ==
  path' = [path EXCEPT ![r.decision] = PutMergedPathRule(@, LpmKeys(p), entry)]

\* stat.
FileAt(name) == IF name \in Named THEN names[name] ELSE Absent

\* One turn of the loop in loadPathRule, which LoadLive calls for each rule;
\* path_not_in plays no part.  A file that does not exist fails the load.
LoadPathRule ==
  /\ at <= Len(live) /\ ~failed /\ live[at].in # << >>
  /\ LET r == live[at]
         p == r.in[nth]
         f == FileAt(p.dir)
         entry == [mask |-> {r.action}, id |-> at, spec |-> Specificity(r)]
     IN  /\ PutPath(r, p, entry)
         /\ \/ p.wild /\ NextEntry /\ UNCHANGED <<inode, failed, resolved>>
            \/ ~p.wild /\ f = Absent /\ failed' = TRUE /\ UNCHANGED <<at, nth, inode, resolved>>
            \/ /\ ~p.wild /\ f # Absent /\ NextEntry
               /\ inode' = [inode EXCEPT ![r.decision] = PutMergedInodeRule(@, PathToInodeKey(f), entry)]
               /\ resolved' = resolved \cup {<<at, f>>}
               /\ UNCHANGED failed
         /\ expanded' = IF p = HomeSSH THEN expanded \cup {<<at, u>> : u \in homes} ELSE expanded
  /\ UNCHANGED <<live, names, homes, changes>>

\* A rule without path_in.
RefusePathRule ==
  /\ at <= Len(live) /\ ~failed /\ live[at].in = << >>
  /\ failed' = TRUE
  /\ UNCHANGED <<live, at, nth, path, inode, names, homes, changes, resolved, expanded>>

HasExact(rules) == \E i \in 1..Len(rules) : \E p \in Range(rules[i].in) : ~p.wild
HasHome(rules) == \E i \in 1..Len(rules) : HomeSSH \in Range(rules[i].in)

ChangeFrame ==
  /\ changes < MaxChanges /\ changes' = changes + 1
  /\ UNCHANGED <<live, at, nth, failed, path, inode, resolved, expanded>>

\* A file is created, linked, renamed or removed.  Only exact paths are looked up.
Change(name, f) ==
  /\ HasExact(live) /\ names[name] # f
  /\ names' = [names EXCEPT ![name] = f]
  /\ UNCHANGED homes /\ ChangeFrame

\* A home directory is created or removed.
ChangeHome(u) ==
  /\ HasHome(live)
  /\ homes' = IF u \in homes THEN homes \ {u} ELSE homes \cup {u}
  /\ UNCHANGED names /\ ChangeFrame

\* clearPolicyMaps has run.
Init ==
  /\ live \in {b \in Bundles : Compiles(b)}
  /\ at = 1 /\ nth = 1 /\ failed = FALSE
  /\ path = [d \in {"deny", "allow"} |-> << >>]
  /\ inode = [d \in {"deny", "allow"} |-> << >>]
  /\ names \in Disks /\ (HasExact(live) \/ names = [p \in Named |-> Absent])
  /\ homes \in SUBSET User /\ (HasHome(live) \/ homes = {})
  /\ changes = 0 /\ resolved = {} /\ expanded = {}

Next ==
  \/ LoadPathRule \/ RefusePathRule
  \/ \E name \in Named, f \in Files \cup {Absent} : Change(name, f)
  \/ \E u \in User : ChangeHome(u)

Spec == Init /\ [][Next]_vars

-----------------------------------------------------------------------------
(* The kernel's verdict.                                                   *)

\* action_matches, on a mask.
MaskMatches(mask, in) == \E a \in mask : ActionMatches(a, in)

\* Mutation: an entry decides whatever its mask says.
MutDecides(entry, in) == entry # NoEntry

\* An entry decides about the call.
Decides(entry, in) == MaskMatches(entry.mask, in)

\* enforce_open_verdict: an allow of higher specificity wins.
OpenVerdict(deny, allow, in) ==
  Decides(deny, in) /\ ~(Decides(allow, in) /\ allow.spec > deny.spec)

\* enforce_path.
PathDenied(in, name) ==
  OpenVerdict(TrieLookup(path["deny"], name), TrieLookup(path["allow"], name), in)

\* A rename is denied on the account of either path.
KernelDenies(in) == \E name \in in.paths : PathDenied(in, name)

\* inode_rule_lookup.
InodeKey(f) == [ino |-> f.ino, dev |-> SDev(f.dev)]

\* enforce_file_open, whatever name f was opened by.
FileOpenDenied(in, f) ==
  OpenVerdict(HashLookup(inode["deny"], InodeKey(f)), HashLookup(inode["allow"], InodeKey(f)), in)

Loaded == at > Len(live)

-----------------------------------------------------------------------------

\* Neither exact paths nor path_not_in.
Plain == ~HasExact(live) /\ \A i \in 1..Len(live) : live[i].notIn = {}

\* The kernel denies no call that EvaluateActions does not deny, whatever the
\* order of the rules, the entries that were merged and the prefixes that hide
\* each other; for rules without exact paths and path_not_in (LoadLive,
\* enforce_path).
KernelDenySound ==
  Loaded /\ Plain => \A in \in Inputs : KernelDenies(in) => EvaluateActions(live, in) = "deny"

\* The rule a denial is reported under is a deny rule about that very path; its
\* rationale is what the agent is told (mergePathRules, emit_deny).
DenialAttributed ==
  Loaded /\ Plain => \A in \in Inputs : \A name \in in.paths :
    PathDenied(in, name) => LET r == live[TrieLookup(path["deny"], name).id]
                            IN  r.decision = "deny" /\ RuleMatchesPath(r, name)

\* All rules deny, and the same action.
DenyList == \A i, j \in 1..Len(live) : live[i].decision = "deny" /\ live[i].action = live[j].action

\* The pattern covers the path but was not put for it: the path is the very
\* directory, or below a home directory that was not there.
NotPut(i, p, name) ==
  \/ p.wild /\ name = p.dir
  \/ p = HomeSSH /\ MatchesHomeSSH(name) /\ \A x \in expanded : x[1] = i => ~Matches(name, SshOf(x[2]))

\* Deny rules for a single action are enforced completely, although prefixes hide
\* each other and homes come and go: what EvaluateActions denies the kernel
\* denies, but for a call on the very directory of a pattern or in a home that
\* was not there when the rule was loaded (LoadLive, enforce_path).
DenyListComplete ==
  Loaded /\ DenyList
    => \A in \in Inputs :
         /\ EvaluateActions(live, in) = "deny"
         /\ \A name \in in.paths, i \in 1..Len(live) : \A p \in Range(live[i].in) : ~NotPut(i, p, name)
         => KernelDenies(in)

\* Stat and the kernel number the device alike.
KeysAgree(f) == StatDev(f.dev) = SDev(f.dev)

\* A rule on a file follows the file, not its name: what the path named when it
\* was loaded is denied by whatever name it is opened, and no other file is,
\* although names change before, during and after the load (loadPathRule,
\* enforce_file_open).  For files on devices that stat and the kernel number
\* alike, and deny rules for a single action.
FileRuleFollowsFile ==
  Loaded /\ DenyList /\ (\A x \in resolved : KeysAgree(x[2])) =>
    \A in \in Inputs, f \in Files :
      in.action = "open" /\ KeysAgree(f) =>
        (FileOpenDenied(in, f) <=> \E x \in resolved : x[2] = f /\ ActionMatches(live[x[1]].action, in))

-----------------------------------------------------------------------------
(* What the documents say of policies and the kernel's evaluation does not do. *)

\* policy.md: "deny beats allow; higher specificity wins among same decision".
\* Yet in the kernel a more specific allow beats a deny.
DenyBeatsAllow ==
  Loaded => \A in \in Inputs : \A name \in in.paths :
    Decides(TrieLookup(path["deny"], name), in) => PathDenied(in, name)

\* config.md: "rules that share the same path prefix but different verbs ... are
\* merged into one kernel map entry with an action bitmask".  Yet the verb of the
\* rule that is less specific elsewhere is dropped.
VerbsMerged ==
  Loaded => \A i \in 1..Len(live) : live[i].decision = "deny" =>
    \A p \in Range(live[i].in) : live[i].action \in path["deny"][LpmKey(p)].mask

\* policy.md on path_not_in: "Exclude paths matching any entry".  Yet loadPathRule
\* does not look at it.
ExcludedNotDenied ==
  Loaded /\ Len(live) = 1 => \A in \in Inputs : \A name \in in.paths :
    (\E p \in live[1].notIn : Matches(name, p)) => ~PathDenied(in, name)

\* policy.md on path_in: "match if path matches any entry".  Yet the kernel takes
\* an exact path for a prefix.
EntryMatched ==
  Loaded => \A in \in Inputs : \A name \in in.paths :
    PathDenied(in, name) => \E i \in 1..Len(live) : \E p \in Range(live[i].in) : Matches(name, p)

\* mapload.go: "inodeKey mirrors struct inode_key in enforcer.bpf.c".  Yet stat
\* encodes the device in another way than the kernel does: the rule on a file of
\* a block device never applies.
InodeKeyMirrors ==
  Loaded => \A f \in Files, in \in Inputs :
    in.action = "open" /\ DenyList /\ (\E x \in resolved : x[2] = f /\ ActionMatches(live[x[1]].action, in))
      => FileOpenDenied(in, f)
=============================================================================
