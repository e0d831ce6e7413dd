---------------------------- MODULE PolicyStore -----------------------------
(***************************************************************************)
(* The file-backed version store, its writers and its reader.              *)
(*                                                                         *)
(* policyctl load and policyctl rollback write the files of a version, the *)
(* manifest and the pointer "current", one after the other, without a      *)
(* lock; os.WriteFile truncates a file and then fills it.  The agent reads *)
(* the pointer and the files of that version with LoadCurrent, at startup  *)
(* and at each reload, while writers run, crash and are started again.     *)
(*                                                                         *)
(* What is abstracted: a bundle is its version and its content, and a      *)
(* signature is the bundle it signs.  Bundles that fail to verify, parse or *)
(* compile never reach the store.                                          *)
(***************************************************************************)
EXTENDS Naturals, Sequences, FiniteSets

CONSTANTS
  Signed,       \* the signed bundles offered to policyctl load
  Ctl,          \* policyctl processes
  Absent,       \* content of a file that does not exist
  Empty,        \* content of a truncated file
  MaxOps,       \* bound on the policyctl commands run
  MaxCrashes    \* bound on the ones killed halfway

VARIABLES
  files,      \* versions/<version>/: bundle.yaml, bundle.yaml.sig, meta.json, compiled.json
  manifest,   \* manifest.json
  current,    \* the file "current"
  ctl,        \* what each policyctl is doing
  sessions,   \* history: per version, how many commands began to write its files
  marred,     \* history: versions whose files a command was killed on, or on which
              \* two commands ran at once
  agent,      \* the agent's LoadCurrent
  ops, crashes

store == <<files, manifest, current>>
vars == <<files, manifest, current, ctl, sessions, marred, agent, ops, crashes>>

Version == {b.version : b \in Signed}

Meta == [version : Version, state : {"enforced", "rollback"}]

File == {"bundle", "sig", "meta", "compiled"}

ASSUME StoreAssumption ==
  /\ \A b \in Signed : b.version \in Nat \ {0}
  /\ Absent # Empty /\ {Absent, Empty} \cap Signed = {} /\ {Absent, Empty} \cap Version = {}
  /\ \A m \in Meta : m \notin {Absent, Empty}
  /\ MaxOps \in Nat /\ MaxCrashes \in Nat

-----------------------------------------------------------------------------
(* The commands, as the steps they take.                                   *)

\* Mutation: the metadata is written before what it describes.
MutPut == <<"meta", "bundle", "sig", "compiled", "list", "manifest">>

\* fileStore.Put and updateManifest.
Put == <<"bundle", "sig", "meta", "compiled", "list", "manifest">>

SetCurrent == <<"check", "current">>

\* Loader.Load, after the bundle was verified, parsed and compiled.
Load == Put \o SetCurrent

\* Loader.Rollback.
Rollback == <<"get">> \o SetCurrent \o Put

Program(op) == IF op = "load" THEN Load ELSE Rollback

Step(c) == IF ctl[c].op = "none" THEN "none" ELSE Program(ctl[c].op)[ctl[c].pc]

\* A command at its first step; new is what Put is given.  alone is history: no
\* other command ran at the same time.
NewCommand(op, v, new, alone) ==
  [op |-> op, version |-> v, pc |-> 1, half |-> FALSE, list |-> {}, alone |-> alone, new |-> new]

Nothing == [bundle |-> Absent, sig |-> Absent, compiled |-> Absent, meta |-> Absent]

NoCommand == NewCommand("none", 0, Nothing, TRUE)

\* The next step of the command, or its end.
Advance(c) == IF ctl[c].pc = Len(Program(ctl[c].op)) THEN NoCommand
              ELSE [ctl[c] EXCEPT !.pc = @ + 1, !.half = FALSE]

\* The command returns an error.
Abort(c) == ctl' = [ctl EXCEPT ![c] = NoCommand]

\* fileStore.Get succeeds: every file is there, and meta.json parses.
CanGet(v) == /\ files[v].meta \notin {Absent, Empty}
             /\ files[v].bundle # Absent /\ files[v].sig # Absent

-----------------------------------------------------------------------------

\* A command begins, and is in the way of those that run.
Begin(c, op, v, new) ==
  LET others == {d \in Ctl \ {c} : ctl[d].op # "none"}
  IN  /\ ctl[c].op = "none" /\ ops < MaxOps
      /\ ctl' = [d \in Ctl |-> IF d = c THEN NewCommand(op, v, new, others = {})
                               ELSE IF d \in others THEN [ctl[d] EXCEPT !.alone = FALSE]
                               ELSE ctl[d]]
      /\ ops' = ops + 1
      /\ marred' = IF \E d \in others : ctl[d].version = v THEN marred \cup {v} ELSE marred
      /\ UNCHANGED <<store, sessions, agent, crashes>>

\* policyctl load of a bundle that verifies, parses and compiles.
StartLoad(c, b) ==
  Begin(c, "load", b.version,
        [bundle |-> b, sig |-> b, compiled |-> b, meta |-> [version |-> b.version, state |-> "enforced"]])

\* policyctl rollback, of any version number.
StartRollback(c, v) == Begin(c, "rollback", v, Nothing)

\* Mutation: the copy is made without the signature.
MutGetStored(c) ==
  LET v == ctl[c].version IN
  /\ Step(c) = "get"
  /\ IF CanGet(v)
     THEN ctl' = [ctl EXCEPT ![c] = [Advance(c) EXCEPT !.new =
            [bundle |-> files[v].bundle, sig |-> Empty,
             compiled |-> IF files[v].compiled = Empty THEN Absent ELSE files[v].compiled,
             meta |-> [version |-> v, state |-> "rollback"]]]]
     ELSE Abort(c)
  /\ UNCHANGED <<store, sessions, marred, agent, ops, crashes>>

\* Rollback's own Get: the copy that Put will write back.  A compiled.json that
\* does not parse is as good as none.  The four reads are taken as one step.
GetStored(c) ==
  LET v == ctl[c].version IN
  /\ Step(c) = "get"
  /\ IF CanGet(v)
     THEN ctl' = [ctl EXCEPT ![c] = [Advance(c) EXCEPT !.new =
            [bundle |-> files[v].bundle, sig |-> files[v].sig,
             compiled |-> IF files[v].compiled = Empty THEN Absent ELSE files[v].compiled,
             meta |-> [version |-> v, state |-> "rollback"]]]]
     ELSE Abort(c)
  /\ UNCHANGED <<store, sessions, marred, agent, ops, crashes>>

\* SetCurrent's Get.
Check(c) ==
  /\ Step(c) = "check"
  /\ IF CanGet(ctl[c].version) THEN ctl' = [ctl EXCEPT ![c] = Advance(c)] ELSE Abort(c)
  /\ UNCHANGED <<store, sessions, marred, agent, ops, crashes>>

\* os.WriteFile opens the file with O_TRUNC ...
Truncate(c) ==
  LET v == ctl[c].version IN
  /\ ~ctl[c].half
  /\ \/ /\ Step(c) \in File /\ ctl[c].new[Step(c)] # Absent
        /\ files' = [files EXCEPT ![v][Step(c)] = Empty]
        /\ sessions' = [sessions EXCEPT ![v] = IF Step(c) = Put[1] THEN @ + 1 ELSE @]
        /\ UNCHANGED <<manifest, current>>
     \/ Step(c) = "manifest" /\ manifest' = Empty /\ UNCHANGED <<files, current, sessions>>
     \/ Step(c) = "current" /\ current' = Empty /\ UNCHANGED <<files, manifest, sessions>>
  /\ ctl' = [ctl EXCEPT ![c].half = TRUE]
  /\ UNCHANGED <<marred, agent, ops, crashes>>

\* ... and fills it.
Write(c) ==
  LET v == ctl[c].version IN
  /\ ctl[c].half
  /\ \/ /\ Step(c) \in File
        /\ files' = [files EXCEPT ![v][Step(c)] = ctl[c].new[Step(c)]]
        /\ UNCHANGED <<manifest, current>>
     \/ Step(c) = "manifest" /\ manifest' = ctl[c].list /\ UNCHANGED <<files, current>>
     \/ Step(c) = "current" /\ current' = v /\ UNCHANGED <<files, manifest>>
  /\ ctl' = [ctl EXCEPT ![c] = Advance(c)]
  /\ UNCHANGED <<sessions, marred, agent, ops, crashes>>

\* Mutation: a file that is there already is not written either.
MutSkipCompiled(c) ==
  /\ Step(c) \in File /\ ~ctl[c].half
  /\ ctl[c].new[Step(c)] = Absent \/ files[ctl[c].version][Step(c)] # Absent
  /\ ctl' = [ctl EXCEPT ![c] = Advance(c)]
  /\ UNCHANGED <<store, sessions, marred, agent, ops, crashes>>

\* Put without a compiled policy does not write compiled.json.
SkipCompiled(c) ==
  /\ Step(c) = "compiled" /\ ctl[c].new.compiled = Absent
  /\ ctl' = [ctl EXCEPT ![c] = Advance(c)]
  /\ UNCHANGED <<store, sessions, marred, agent, ops, crashes>>

\* updateManifest reads the list; a manifest that does not parse is an error.
ReadManifest(c) ==
  LET meta == ctl[c].new.meta
      old == IF manifest = Absent THEN {} ELSE manifest
  IN  /\ Step(c) = "list"
      /\ IF manifest = Empty THEN Abort(c)
         ELSE ctl' = [ctl EXCEPT ![c] = [Advance(c) EXCEPT !.list =
                        {m \in old : m.version # meta.version} \cup {meta}]]
      /\ UNCHANGED <<store, sessions, marred, agent, ops, crashes>>

\* The command is killed.
Crash(c) ==
  /\ ctl[c].op # "none" /\ crashes < MaxCrashes
  /\ crashes' = crashes + 1
  /\ Abort(c)
  /\ marred' = IF Step(c) \in File THEN marred \cup {ctl[c].version} ELSE marred
  /\ UNCHANGED <<store, sessions, agent, ops>>

Command(c) == GetStored(c) \/ Check(c) \/ Truncate(c) \/ Write(c) \/ SkipCompiled(c) \/ ReadManifest(c)

-----------------------------------------------------------------------------
(* LoadCurrent.  policy is the last bundle it returned.                    *)

GiveUp == agent' = [agent EXCEPT !.at = "idle"]

ReadCurrent ==
  /\ agent.at = "idle"
  /\ current \notin {Absent, Empty}
  /\ agent' = [agent EXCEPT !.at = "meta", !.version = current]
  /\ UNCHANGED <<store, ctl, sessions, marred, ops, crashes>>

ReadMeta ==
  /\ agent.at = "meta"
  /\ IF files[agent.version].meta \in {Absent, Empty} THEN GiveUp
     ELSE agent' = [agent EXCEPT !.at = "bundle"]
  /\ UNCHANGED <<store, ctl, sessions, marred, ops, crashes>>

ReadBundle ==
  /\ agent.at = "bundle"
  /\ IF files[agent.version].bundle = Absent THEN GiveUp
     ELSE agent' = [agent EXCEPT !.at = "sig", !.bundle = files[agent.version].bundle]
  /\ UNCHANGED <<store, ctl, sessions, marred, ops, crashes>>

\* Mutation: the signature is only required to be there.
MutReadSig ==
  /\ agent.at = "sig"
  /\ agent' = IF files[agent.version].sig # Absent
              THEN [agent EXCEPT !.at = "idle", !.policy = agent.bundle]
              ELSE [agent EXCEPT !.at = "idle"]
  /\ UNCHANGED <<store, ctl, sessions, marred, ops, crashes>>

\* Verify, Parse and Compile follow: the policy is compiled from the bundle that
\* was verified, not from compiled.json.
ReadSig ==
  /\ agent.at = "sig"
  /\ agent' = IF files[agent.version].sig = agent.bundle /\ agent.bundle # Empty
              THEN [agent EXCEPT !.at = "idle", !.policy = agent.bundle]
              ELSE [agent EXCEPT !.at = "idle"]
  /\ UNCHANGED <<store, ctl, sessions, marred, ops, crashes>>

LoadCurrent == ReadCurrent \/ ReadMeta \/ ReadBundle \/ ReadSig

Init ==
  /\ files = [v \in Version |-> [f \in File |-> Absent]]
  /\ manifest = Absent
  /\ current = Absent
  /\ ctl = [c \in Ctl |-> NoCommand]
  /\ sessions = [v \in Version |-> 0] /\ marred = {}
  /\ agent = [at |-> "idle", version |-> 0, bundle |-> Absent, policy |-> Absent]
  /\ ops = 0 /\ crashes = 0

Next ==
  \/ \E c \in Ctl : (\E b \in Signed : StartLoad(c, b)) \/ (\E v \in Version : StartRollback(c, v))
  \/ \E c \in Ctl : Command(c) \/ Crash(c)
  \/ LoadCurrent

Spec == Init /\ [][Next]_vars

-----------------------------------------------------------------------------

\* Type invariant.
TypeOK ==
  /\ \A v \in Version :
       /\ files[v].bundle \in Signed \cup {Absent, Empty} /\ files[v].sig \in Signed \cup {Absent, Empty}
       /\ files[v].meta \in Meta \cup {Absent, Empty}
       /\ files[v].compiled \in Signed \cup {Absent, Empty}
  /\ manifest \in {Absent, Empty} \/ manifest \subseteq Meta
  /\ current \in Version \cup {Absent, Empty}
  /\ agent.at \in {"idle", "meta", "bundle", "sig"}
  /\ agent.policy \in Signed \cup {Absent}
  /\ \A c \in Ctl : ctl[c].op \in {"none", "load", "rollback"}

\* LoadCurrent would return a policy for v.
Loadable(v) == /\ CanGet(v)
               /\ files[v].bundle = files[v].sig /\ files[v].bundle # Empty

\* The pointer is moved to a version only when its files are complete, whichever
\* command is killed wherever: a version written once is loadable as soon as
\* current names it (order of the writes in Put, Load and Rollback, and the
\* check in SetCurrent).  Versions written again are open to a crash.
PointerAfterFiles ==
  current \in Version /\ sessions[current] = 1 => Loadable(current)

\* However often a version is loaded again and rolled back to, it is loadable
\* while current names it and no command is writing its files, unless at some time
\* two commands ran on it at once or one was killed on its files (Put, Rollback,
\* which points current at the version and then writes its files again).
RewrittenWhole ==
  /\ current \in Version \ marred
  /\ \A c \in Ctl : ctl[c].version = current => Step(c) \notin File
  => Loadable(current)

\* A load that reports success, and that no other command overlapped, has made
\* its bundle the one LoadCurrent returns, whatever earlier commands, overlapping
\* or killed halfway, left behind (Loader.Load).
LoadTakesEffect ==
  [][\A c \in Ctl : /\ ctl[c].op = "load" /\ ctl[c].alone /\ ctl'[c].op = "none"
                    /\ Step(c) = "current" /\ crashes' = crashes
                    => LET v == ctl[c].version IN
                       /\ current' = v
                       /\ files'[v].bundle = ctl[c].new.bundle
                       /\ files'[v].sig = ctl[c].new.bundle
                       /\ files'[v].meta \in Meta]_vars

\* policy.md on manifest.json: "all version metadata".  Yet two loads that
\* overlap read the same list, and the second to write forgets the first.
ManifestListsAll ==
  (\A c \in Ctl : ctl[c].op = "none") /\ crashes = 0
    => \A v \in Version : files[v].meta # Absent =>
         manifest # Absent /\ \E m \in manifest : m.version = v
=============================================================================
