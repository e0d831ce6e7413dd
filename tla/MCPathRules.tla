---------------------------- MODULE MCPathRules -----------------------------
(* Small instances of PathRules.  A directory, one inside it, and one with a  *)
(* longer name elsewhere; rules on one or two of them, in every order.        *)
EXTENDS PathRules, TLC

s == "/"

MCChar == {s, "*", ".ssh", "a", "b", "f", "h", "o", "r", "u", "v", "x"}

A == [dir |-> <<s, "a">>, wild |-> TRUE]                        \* /a/*
AB == [dir |-> <<s, "a", s, "b">>, wild |-> TRUE]               \* /a/b/*
Far == [dir |-> <<s, "f", "a", "r", "r">>, wild |-> TRUE]       \* /farr/*
File == [dir |-> <<s, "a", s, "b">>, wild |-> FALSE]            \* /a/b
Other == [dir |-> <<s, "o">>, wild |-> FALSE]                   \* /o

RulesOver(decisions, actions, ins, notIns) ==
  [decision : decisions, action : actions, in : ins, notIn : notIns]

UpTo(n, rules) == UNION {[1..k -> rules] : k \in 1..n}

\* Up to three rules, deny and allow, on nested and on several directories.
WildRules == RulesOver({"deny", "allow"}, {"write", "rename"}, {<<A>>, <<AB>>, <<A, Far>>, <<AB, Far>>}, {{}})
WildBundles == UpTo(3, WildRules)

\* Two rules of both decisions, on one directory each.
PlainBundles == UpTo(2, RulesOver({"deny", "allow"}, {"write"}, {<<A>>, <<AB>>}, {{}}))

\* Two deny rules for different verbs.
VerbBundles == UpTo(2, RulesOver({"deny"}, {"write", "rename"}, {<<A>>, <<A, Far>>}, {{}}))

\* A rule with an exception.
ExceptBundles == UpTo(1, RulesOver({"deny"}, {"write", "rename"}, {<<A>>, <<A, Far>>}, {{}, {AB}}))
\* A rule without entries after one with.
EmptyBundles == UpTo(2, RulesOver({"deny"}, {"write"}, {<<A>>, << >>}, {{}}))
\* A rule on a file.
ExactBundles == UpTo(1, RulesOver({"deny"}, {"write", "rename"}, {<<A>>, <<File>>}, {{}}))

\* Two rules on files, or one on a file and one on a directory.
FileBundles == {b \in UpTo(2, RulesOver({"deny"}, {"open", "write"}, {<<A>>, <<File>>, <<Other>>}, {{}})) : HasExact(b)}

\* A file on tmpfs, one on another tmpfs with the same inode number, and one on
\* a disk.  At first the two paths name any of them, the same one or none.
MCFiles == {[ino |-> 7, dev |-> [major |-> 0, minor |-> 31]],
            [ino |-> 7, dev |-> [major |-> 0, minor |-> 32]],
            [ino |-> 7, dev |-> [major |-> 8, minor |-> 1]]}
MCNamed == {File.dir, Other.dir}
MCDisks == [MCNamed -> MCFiles \cup {Absent}]

\* Up to two rules on .ssh directories, on a home and on a directory beside.
MCHome == <<s, "h">>
InHome == [dir |-> <<s, "h", s, "u">>, wild |-> TRUE]           \* /home/u/*
HomeBundles ==
  {b \in UpTo(2, RulesOver({"deny", "allow"}, {"write", "rename"}, {<<HomeSSH>>, <<A, HomeSSH>>, <<InHome>>}, {{}})) :
     HasHome(b)}

AllBundles == WildBundles \cup FileBundles \cup HomeBundles \cup ExceptBundles \cup EmptyBundles

CallPaths == {<<s, "a">>, <<s, "a", s, "x">>, <<s, "a", s, "b">>, <<s, "a", s, "b", "b">>,
          <<s, "a", s, "b", s, "x">>, <<s, "f", "a", "r", "r", s, "x">>,
          <<s, "h", s, "u", s, "x">>, <<s, "h", s, "u", s, ".ssh", s, "x">>, <<s, "h", s, "v", s, ".ssh", s, "x">>}

MCInputs ==
  {[action |-> "open", write |-> w, paths |-> {p}] : w \in BOOLEAN, p \in CallPaths} \cup
  {[action |-> "rename", write |-> FALSE, paths |-> {p, q}] : p, q \in CallPaths}
=============================================================================
