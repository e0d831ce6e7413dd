------------------------- MODULE PolicyStoreProofs --------------------------
(* Theorems about PolicyStore, for any signed bundles, any number of policyctl *)
(* processes, commands and crashes.                                            *)
EXTENDS PolicyStore, TLAPS

Content == Signed \cup {Absent, Empty}

FilesType == [bundle : Content, sig : Content, meta : Meta \cup {Absent, Empty}, compiled : Content]

CommandType ==
  [op : {"none", "load", "rollback"}, version : Version \cup {0}, pc : 1..9, half : BOOLEAN,
   list : SUBSET Meta, alone : BOOLEAN, new : FilesType]

AgentType ==
  [at : {"idle", "meta", "bundle", "sig"}, version : Version \cup {0}, bundle : Content,
   policy : Signed \cup {Absent}]

\* The bundles of a version are that version's.
FilesOK(fs) ==
  /\ fs \in [Version -> FilesType]
  /\ \A v \in Version : fs[v].bundle \in Signed => fs[v].bundle.version = v

\* A load has a bundle and its signature to write, a rollback has them once it
\* has read them.
CommandOK(k) ==
  /\ k.op # "none" => k.version \in Version /\ (k.new.bundle \in Signed => k.new.bundle.version = k.version)
  /\ k.op = "load" => k.pc <= 8 /\ k.new.meta \in Meta /\ k.new.bundle \in Signed /\ k.new.sig = k.new.bundle
  /\ k.op = "rollback" /\ k.pc > 1 => k.new.meta \in Meta

\* What the agent has read is a bundle of the version it read from current.
AgentOK(a) ==
  /\ a \in AgentType
  /\ a.at # "idle" => a.version \in Version
  /\ a.at = "sig" => a.bundle # Absent /\ (a.bundle \in Signed => a.bundle.version = a.version)

\* The type invariant in the form the proofs need.
Typed ==
  /\ FilesOK(files)
  /\ manifest \in {Absent, Empty} \cup SUBSET Meta
  /\ current \in Version \cup {Absent, Empty}
  /\ ctl \in [Ctl -> CommandType]
  /\ \A c \in Ctl : CommandOK(ctl[c])
  /\ sessions \in [Version -> Nat]
  /\ AgentOK(agent)
  /\ crashes \in Nat

-----------------------------------------------------------------------------
(* The steps of the two commands by number.                                 *)

LEMMA LoadSteps ==
  /\ Len(Load) = 8
  /\ Load[1] = "bundle" /\ Load[2] = "sig" /\ Load[3] = "meta" /\ Load[4] = "compiled"
  /\ Load[5] = "list" /\ Load[6] = "manifest" /\ Load[7] = "check" /\ Load[8] = "current"
  BY DEF Load, Put, SetCurrent

LEMMA RollbackSteps ==
  /\ Len(Rollback) = 9
  /\ Rollback[1] = "get" /\ Rollback[2] = "check" /\ Rollback[3] = "current"
  /\ Rollback[4] = "bundle" /\ Rollback[5] = "sig" /\ Rollback[6] = "meta"
  /\ Rollback[7] = "compiled" /\ Rollback[8] = "list" /\ Rollback[9] = "manifest"
  BY DEF Rollback, Put, SetCurrent

LEMMA NewCommandTyped ==
  ASSUME NEW op \in {"none", "load", "rollback"}, NEW v \in Version \cup {0}, NEW new \in FilesType,
         NEW alone \in BOOLEAN
  PROVE  NewCommand(op, v, new, alone) \in CommandType
  BY DEF NewCommand, CommandType

LEMMA NothingTyped == Nothing \in FilesType
  BY Zenon DEF Nothing, FilesType, Content

LEMMA NoCommandTyped == NoCommand \in CommandType /\ NoCommand.op = "none"
  BY NewCommandTyped, NothingTyped, Zenon DEF NoCommand, NewCommand

\* A command goes on with everything but its place kept, or ends.
LEMMA AdvanceKeeps ==
  ASSUME Typed, NEW c \in Ctl, ctl[c].op # "none"
  PROVE  /\ Advance(c) \in CommandType
         /\ \/ /\ Advance(c) = NoCommand
               /\ ctl[c].op = "load" => ctl[c].pc = 8
               /\ ctl[c].op = "rollback" => ctl[c].pc = 9
            \/ /\ Advance(c).op = ctl[c].op /\ Advance(c).version = ctl[c].version
               /\ Advance(c).new = ctl[c].new /\ Advance(c).list = ctl[c].list
               /\ Advance(c).pc = ctl[c].pc + 1 /\ Advance(c).half = FALSE
               /\ Advance(c).alone = ctl[c].alone
               /\ ctl[c].op = "load" => ctl[c].pc < 8
               /\ ctl[c].op = "rollback" => ctl[c].pc < 9
<1>1. ctl[c] \in CommandType /\ ctl[c].op \in {"load", "rollback"} /\ (ctl[c].op = "load" => ctl[c].pc <= 8)
  BY Zenon DEF Typed, CommandOK, CommandType
<1>2. Len(Program(ctl[c].op)) = IF ctl[c].op = "load" THEN 8 ELSE 9
  BY <1>1, LoadSteps, RollbackSteps, Zenon DEF Program
<1>3. CASE ctl[c].pc = Len(Program(ctl[c].op))
  BY <1>2, <1>3, NoCommandTyped, Zenon DEF Advance
<1>4. CASE ctl[c].pc # Len(Program(ctl[c].op))
  <2> DEFINE k == [ctl[c] EXCEPT !.pc = @ + 1]
  <2>1. Advance(c) = [k EXCEPT !.half = FALSE]
    BY <1>4, Zenon DEF Advance
  <2>2. ctl[c].pc \in 1..8 /\ (ctl[c].op = "load" => ctl[c].pc < 8) /\ (ctl[c].op = "rollback" => ctl[c].pc < 9)
    BY <1>1, <1>2, <1>4 DEF CommandType
  <2>3. /\ k \in CommandType
        /\ k.op = ctl[c].op /\ k.version = ctl[c].version /\ k.new = ctl[c].new /\ k.list = ctl[c].list
        /\ k.pc = ctl[c].pc + 1 /\ k.alone = ctl[c].alone
    BY <1>1, <2>2 DEF CommandType
  <2> HIDE DEF k
  <2>4. /\ Advance(c) \in CommandType
        /\ Advance(c).op = k.op /\ Advance(c).version = k.version /\ Advance(c).new = k.new
        /\ Advance(c).list = k.list /\ Advance(c).pc = k.pc /\ Advance(c).half = FALSE
        /\ Advance(c).alone = k.alone
    BY <2>1, <2>3, Zenon DEF CommandType
  <2>5. QED
    BY <2>2, <2>3, <2>4, Zenon
<1>5. QED
  BY <1>3, <1>4, Zenon

-----------------------------------------------------------------------------
(* Types.                                                                   *)

LEMMA InitTyped == Init => Typed
<1> SUFFICES ASSUME Init PROVE Typed
  BY Zenon
<1>1. FilesOK(files)
  BY StoreAssumption, Zenon DEF Init, FilesOK, FilesType, Content, File
<1>2. QED
  BY <1>1, NoCommandTyped, Zenon DEF Init, Typed, Content, AgentType, AgentOK, CommandOK

\* What Begin does to the commands.
Begun(c, op, v, new) ==
  /\ ctl' \in [Ctl -> CommandType]
  /\ ctl'[c].op = op /\ ctl'[c].version = v /\ ctl'[c].new = new
  /\ ctl'[c].pc = 1 /\ ctl'[c].half = FALSE
  /\ ctl'[c].alone => \A d \in Ctl \ {c} : ctl[d].op = "none"
  /\ \A d \in Ctl \ {c} :
       /\ ctl'[d].op = ctl[d].op /\ ctl'[d].version = ctl[d].version /\ ctl'[d].new = ctl[d].new
       /\ ctl'[d].pc = ctl[d].pc /\ ctl'[d].half = ctl[d].half /\ ctl'[d].list = ctl[d].list
       /\ ctl'[d].op # "none" => ~ctl'[d].alone
  /\ ctl[c].op = "none"
  /\ marred \subseteq marred' /\ \A d \in Ctl \ {c} : ctl[d].op # "none" /\ ctl[d].version = v => v \in marred'
  /\ UNCHANGED <<files, manifest, current, sessions, agent, crashes>>

LEMMA BeginCommands ==
  ASSUME Typed, NEW c \in Ctl, NEW op \in {"load", "rollback"}, NEW v \in Version, NEW new \in FilesType,
         Begin(c, op, v, new)
  PROVE  Begun(c, op, v, new)
<1> DEFINE others == {d \in Ctl \ {c} : ctl[d].op # "none"}
           first == NewCommand(op, v, new, others = {})
<1>1. first \in CommandType
  BY NewCommandTyped, Zenon
<1>2. /\ first.op = op /\ first.version = v /\ first.new = new /\ first.pc = 1 /\ first.half = FALSE
      /\ first.alone = (others = {})
  BY Zenon DEF NewCommand
<1>3. ctl' = [d \in Ctl |-> IF d = c THEN first
                            ELSE IF d \in others THEN [ctl[d] EXCEPT !.alone = FALSE] ELSE ctl[d]]
  BY Zenon DEF Begin
<1> HIDE DEF first
<1>4. \A d \in Ctl \ {c} :
        LET k == [ctl[d] EXCEPT !.alone = FALSE]
        IN  /\ k \in CommandType /\ k.alone = FALSE
            /\ k.op = ctl[d].op /\ k.version = ctl[d].version /\ k.new = ctl[d].new
            /\ k.pc = ctl[d].pc /\ k.half = ctl[d].half /\ k.list = ctl[d].list
  BY ZenonT(30) DEF Typed, CommandType
<1>5. ctl' \in [Ctl -> CommandType]
  BY <1>1, <1>3, <1>4, Zenon DEF Typed
<1>6. ctl'[c] = first
  BY <1>3, Zenon
<1>7. \A d \in Ctl \ {c} :
        /\ ctl'[d].op = ctl[d].op /\ ctl'[d].version = ctl[d].version /\ ctl'[d].new = ctl[d].new
        /\ ctl'[d].pc = ctl[d].pc /\ ctl'[d].half = ctl[d].half /\ ctl'[d].list = ctl[d].list
        /\ ctl'[d].op # "none" => ~ctl'[d].alone
  BY <1>3, <1>4, Zenon
<1>8. ctl'[c].alone => \A d \in Ctl \ {c} : ctl[d].op = "none"
  BY <1>2, <1>6, Zenon
<1>9. ctl[c].op = "none" /\ UNCHANGED <<files, manifest, current, sessions, agent, crashes>>
  BY Zenon DEF Begin, store
<1>10. marred' = IF \E d \in others : ctl[d].version = v THEN marred \cup {v} ELSE marred
  BY Zenon DEF Begin
<1>11. QED
  BY <1>2, <1>5, <1>6, <1>7, <1>8, <1>9, <1>10, Zenon DEF Begun

\* What a load or a rollback begins with.
Starts(c) ==
  \E op \in {"load", "rollback"}, v \in Version, new \in FilesType :
    /\ Begun(c, op, v, new)
    /\ op = "load" => new.bundle \in Signed /\ new.bundle.version = v /\ new.sig = new.bundle /\ new.meta \in Meta
    /\ op = "rollback" => new = Nothing

LEMMA StartCommands ==
  ASSUME Typed, NEW c \in Ctl,
         (\E b \in Signed : StartLoad(c, b)) \/ (\E v \in Version : StartRollback(c, v))
  PROVE  Starts(c)
<1> DEFINE of(b) == [bundle |-> b, sig |-> b, compiled |-> b,
                     meta |-> [version |-> b.version, state |-> "enforced"]]
<1>1. ASSUME NEW b \in Signed
      PROVE  /\ b.version \in Version /\ of(b) \in FilesType
             /\ of(b).bundle = b /\ of(b).sig = b /\ of(b).meta \in Meta
  BY Zenon DEF Version, Meta, FilesType, Content
<1>2. CASE \E b \in Signed : StartLoad(c, b)
  <2>1. PICK b \in Signed : Begin(c, "load", b.version, of(b))
    BY <1>2, Zenon DEF StartLoad
  <2>2. Begun(c, "load", b.version, of(b))
    BY <1>1, <2>1, BeginCommands, Zenon
  <2>3. QED
    BY <1>1, <2>2, Zenon DEF Starts
<1>3. CASE \E v \in Version : StartRollback(c, v)
  <2>1. PICK v \in Version : Begin(c, "rollback", v, Nothing)
    BY <1>3, Zenon DEF StartRollback
  <2>2. Begun(c, "rollback", v, Nothing)
    BY <2>1, NothingTyped, BeginCommands, Zenon
  <2>3. QED
    BY <2>2, NothingTyped, Zenon DEF Starts
<1>4. QED
  BY <1>2, <1>3, Zenon

LEMMA StartTyped ==
  ASSUME Typed, NEW c \in Ctl,
         (\E b \in Signed : StartLoad(c, b)) \/ (\E v \in Version : StartRollback(c, v))
  PROVE  Typed'
<1>1. PICK op \in {"load", "rollback"}, v \in Version, new \in FilesType :
        /\ Begun(c, op, v, new)
        /\ op = "load" => new.bundle \in Signed /\ new.bundle.version = v /\ new.sig = new.bundle /\ new.meta \in Meta
        /\ op = "rollback" => new = Nothing
  BY StartCommands, Zenon DEF Starts
<1>2. /\ ctl' \in [Ctl -> CommandType]
      /\ ctl'[c].op = op /\ ctl'[c].version = v /\ ctl'[c].pc = 1 /\ ctl'[c].new = new
      /\ \A d \in Ctl \ {c} : /\ ctl'[d].op = ctl[d].op /\ ctl'[d].version = ctl[d].version
                               /\ ctl'[d].pc = ctl[d].pc /\ ctl'[d].new = ctl[d].new
      /\ UNCHANGED <<files, manifest, current, sessions, agent, crashes>>
  BY <1>1, Zenon DEF Begun
<1>3. CommandOK(ctl'[c])
  BY <1>1, <1>2, StoreAssumption DEF CommandOK, Nothing
<1>4. \A d \in Ctl \ {c} : CommandOK(ctl'[d])
  BY <1>2 DEF Typed, CommandOK
<1>5. QED
  BY <1>2, <1>3, <1>4, Zenon DEF Typed

\* A step of a command changes that command, and none but it.
Moves(c, k) == k \in CommandType /\ ctl' = [ctl EXCEPT ![c] = k]

LEMMA MoveTyped ==
  ASSUME Typed, NEW c \in Ctl, NEW k, Moves(c, k),
         CommandOK(k), FilesOK(files'), manifest' \in {Absent, Empty} \cup SUBSET Meta,
         current' \in Version \cup {Absent, Empty}, sessions' \in [Version -> Nat],
         agent' = agent, crashes' \in Nat
  PROVE  Typed'
<1>1. ctl' \in [Ctl -> CommandType] /\ \A d \in Ctl : ctl'[d] = IF d = c THEN k ELSE ctl[d]
  BY Zenon DEF Typed, Moves
<1>2. \A d \in Ctl : CommandOK(ctl'[d])
  BY <1>1, Zenon DEF Typed
<1>3. QED
  BY <1>1, <1>2, Zenon DEF Typed

\* A single file is written.
Filled(v, f, x) ==
  /\ files' \in [Version -> FilesType]
  /\ \A w \in Version \ {v} : files'[w] = files[w]
  /\ files'[v][f] = x
  /\ \A g \in File \ {f} : files'[v][g] = files[v][g]

LEMMA Fills ==
  ASSUME Typed, NEW v \in Version, NEW f \in File, NEW x,
         IF f = "meta" THEN x \in Meta \cup {Absent, Empty} ELSE x \in Content,
         files' = [files EXCEPT ![v][f] = x]
  PROVE  Filled(v, f, x)
<1>1. files[v] \in FilesType /\ files \in [Version -> FilesType]
  BY Zenon DEF Typed, FilesOK
<1>2. CASE f = "bundle"
  BY <1>1, <1>2, Zenon DEF Filled, FilesType, File
<1>3. CASE f = "sig"
  BY <1>1, <1>3, Zenon DEF Filled, FilesType, File
<1>4. CASE f = "meta"
  BY <1>1, <1>4, Zenon DEF Filled, FilesType, File
<1>5. CASE f = "compiled"
  BY <1>1, <1>5, Zenon DEF Filled, FilesType, File
<1>6. QED
  BY <1>2, <1>3, <1>4, <1>5, Zenon DEF File

-----------------------------------------------------------------------------
(* What a step of a command does.                                           *)

\* The command goes on to its next step, and keeps what it writes.
Goes(c) ==
  /\ ctl'[c].op = ctl[c].op /\ ctl'[c].version = ctl[c].version /\ ctl'[c].alone = ctl[c].alone
  /\ ctl'[c].pc = ctl[c].pc + 1 /\ ctl'[c].half = FALSE
  /\ Step(c) # "get" => ctl'[c].new = ctl[c].new

\* It has truncated the file it writes.
Halfway(c) ==
  /\ ctl'[c].op = ctl[c].op /\ ctl'[c].version = ctl[c].version /\ ctl'[c].alone = ctl[c].alone
  /\ ctl'[c].pc = ctl[c].pc /\ ctl[c].half = FALSE /\ ctl'[c].half = TRUE
  /\ ctl'[c].new = ctl[c].new

\* It ends, by itself or not.
Ends(c) == ctl'[c] = NoCommand

\* It reads or skips a file, or writes the manifest, or ends.
ReadsOn(c) ==
  /\ UNCHANGED <<files, current, sessions>>
  /\ \/ Ends(c) /\ (Step(c) = "current" => crashes' # crashes)
     \/ Goes(c) /\ Step(c) = "check" /\ CanGet(ctl[c].version)
     \/ /\ Goes(c) /\ Step(c) = "get" /\ CanGet(ctl[c].version)
        /\ ctl'[c].new.bundle = files[ctl[c].version].bundle /\ ctl'[c].new.sig = files[ctl[c].version].sig
     \/ Goes(c) /\ Step(c) \in {"compiled", "list", "manifest"}
     \/ Halfway(c) /\ Step(c) = "manifest"

TruncatesFile(c) ==
  /\ Halfway(c) /\ Step(c) \in File /\ Filled(ctl[c].version, Step(c), Empty)
  /\ sessions' = [sessions EXCEPT ![ctl[c].version] = IF Step(c) = "bundle" THEN @ + 1 ELSE @]
  /\ UNCHANGED current

WritesFile(c) ==
  /\ Goes(c) /\ ctl[c].half /\ Step(c) \in File /\ Filled(ctl[c].version, Step(c), ctl[c].new[Step(c)])
  /\ UNCHANGED <<current, sessions>>

TruncatesCurrent(c) ==
  Halfway(c) /\ Step(c) = "current" /\ current' = Empty /\ UNCHANGED <<files, sessions>>

WritesCurrent(c) ==
  /\ Goes(c) \/ Ends(c)
  /\ ctl[c].half /\ Step(c) = "current" /\ current' = ctl[c].version /\ UNCHANGED <<files, sessions>>

\* A step of one command, as seen by the invariants below.
Does(c) ==
  /\ ctl[c].op \in {"load", "rollback"} /\ ctl[c].version \in Version
  /\ \A d \in Ctl \ {c} : ctl'[d] = ctl[d]
  /\ agent' = agent /\ crashes' \in {crashes, crashes + 1}
  /\ marred \subseteq marred' /\ (Ends(c) /\ Step(c) \in File => ctl[c].version \in marred')
  /\ ReadsOn(c) \/ TruncatesFile(c) \/ WritesFile(c) \/ TruncatesCurrent(c) \/ WritesCurrent(c)

LEMMA MoveOthers ==
  ASSUME Typed, NEW c \in Ctl, NEW k, Moves(c, k)
  PROVE  ctl'[c] = k /\ \A d \in Ctl \ {c} : ctl'[d] = ctl[d]
  BY Zenon DEF Typed, Moves

LEMMA LoadPlace ==
  ASSUME Typed, NEW c \in Ctl, ctl[c].op = "load"
  PROVE  /\ ctl[c].pc \in 1..8
         /\ (Step(c) = "bundle") <=> (ctl[c].pc = 1)
         /\ (Step(c) = "sig") <=> (ctl[c].pc = 2)
         /\ (Step(c) = "meta") <=> (ctl[c].pc = 3)
         /\ (Step(c) = "compiled") <=> (ctl[c].pc = 4)
         /\ (Step(c) = "list") <=> (ctl[c].pc = 5)
         /\ (Step(c) = "manifest") <=> (ctl[c].pc = 6)
         /\ (Step(c) = "check") <=> (ctl[c].pc = 7)
         /\ (Step(c) = "current") <=> (ctl[c].pc = 8)
         /\ Step(c) \notin {"get", "none"}
<1>1. ctl[c].pc \in 1..8
  BY DEF Typed, CommandType, CommandOK
<1>2. Step(c) = Load[ctl[c].pc]
  BY Zenon DEF Step, Program
<1>3. QED
  BY <1>1, <1>2, LoadSteps

LEMMA RollbackPlace ==
  ASSUME Typed, NEW c \in Ctl, ctl[c].op = "rollback"
  PROVE  /\ ctl[c].pc \in 1..9
         /\ (Step(c) = "get") <=> (ctl[c].pc = 1)
         /\ (Step(c) = "check") <=> (ctl[c].pc = 2)
         /\ (Step(c) = "current") <=> (ctl[c].pc = 3)
         /\ (Step(c) = "bundle") <=> (ctl[c].pc = 4)
         /\ (Step(c) = "sig") <=> (ctl[c].pc = 5)
         /\ (Step(c) = "meta") <=> (ctl[c].pc = 6)
         /\ (Step(c) = "compiled") <=> (ctl[c].pc = 7)
         /\ (Step(c) = "list") <=> (ctl[c].pc = 8)
         /\ (Step(c) = "manifest") <=> (ctl[c].pc = 9)
         /\ Step(c) # "none"
<1>1. ctl[c].pc \in 1..9
  BY Zenon DEF Typed, CommandType
<1>2. Step(c) = Rollback[ctl[c].pc]
  BY Zenon DEF Step, Program
<1>3. QED
  BY <1>1, <1>2, RollbackSteps

\* A command that advances.
LEMMA Advances ==
  ASSUME Typed, NEW c \in Ctl, ctl[c].op # "none", Step(c) # "get", ctl' = [ctl EXCEPT ![c] = Advance(c)]
  PROVE  /\ Moves(c, Advance(c)) /\ (Goes(c) \/ Ends(c))
         /\ CommandOK(Advance(c))
<1>1. Moves(c, Advance(c))
  BY AdvanceKeeps, Zenon DEF Moves
<1>2. ctl'[c] = Advance(c)
  BY <1>1, MoveOthers, Zenon
<1>3. CASE Advance(c) = NoCommand
  BY <1>1, <1>2, <1>3, NoCommandTyped, Zenon DEF Ends, CommandOK
<1>4. CASE Advance(c) # NoCommand
  <2>1. /\ Advance(c).op = ctl[c].op /\ Advance(c).version = ctl[c].version
        /\ Advance(c).new = ctl[c].new /\ Advance(c).pc = ctl[c].pc + 1 /\ Advance(c).half = FALSE
        /\ Advance(c).alone = ctl[c].alone /\ (ctl[c].op = "load" => ctl[c].pc < 8)
    BY <1>4, AdvanceKeeps, Zenon
  <2>2. Goes(c)
    BY <1>2, <2>1, Zenon DEF Goes
  <2>3. CommandOK(ctl[c]) /\ ctl[c].pc \in 1..9 /\ (ctl[c].op = "rollback" => ctl[c].pc > 1 \/ Step(c) = "get")
    BY RollbackPlace DEF Typed, CommandType
  <2>4. CommandOK(Advance(c))
    BY <2>1, <2>3 DEF CommandOK
  <2>5. QED
    BY <1>1, <2>2, <2>4, Zenon
<1>5. QED
  BY <1>3, <1>4, Zenon

\* The files are not the last that a command writes.
LEMMA FilesNotLast ==
  ASSUME Typed, NEW c \in Ctl, ctl[c].op \in {"load", "rollback"}, Step(c) \in File,
         ctl' = [ctl EXCEPT ![c] = Advance(c)]
  PROVE  Goes(c) /\ ~Ends(c)
<1>1. ctl[c].op # "none" /\ Step(c) # "get"
  BY Zenon DEF File
<1>2. ctl[c].op = "load" => ctl[c].pc # 8
  BY LoadPlace, Zenon DEF File
<1>3. ctl[c].op = "rollback" => ctl[c].pc # 9
  BY RollbackPlace, Zenon DEF File
<1>4. Moves(c, Advance(c)) /\ (Goes(c) \/ Ends(c))
  BY <1>1, Advances, Zenon
<1>5. ctl'[c] = Advance(c) /\ Advance(c).op = ctl[c].op
  BY <1>1, <1>2, <1>3, <1>4, AdvanceKeeps, MoveOthers, Zenon
<1>6. QED
  BY <1>1, <1>4, <1>5, NoCommandTyped, Zenon DEF Ends

\* A command that ends early.
LEMMA Aborts ==
  ASSUME Typed, NEW c \in Ctl, Abort(c)
  PROVE  /\ Moves(c, NoCommand) /\ Ends(c)
         /\ CommandOK(NoCommand)
<1>1. Moves(c, NoCommand)
  BY NoCommandTyped, Zenon DEF Moves, Abort
<1>2. QED
  BY <1>1, MoveOthers, NoCommandTyped, Zenon DEF Ends, CommandOK

LEMMA Running ==
  ASSUME Typed, NEW c \in Ctl, Step(c) # "none"
  PROVE  ctl[c].op \in {"load", "rollback"} /\ ctl[c].version \in Version /\ ctl[c] \in CommandType
  BY Zenon DEF Typed, CommandType, CommandOK, Step

LEMMA GetStoredDoes ==
  ASSUME Typed, NEW c \in Ctl, GetStored(c)
  PROVE  Typed' /\ Does(c)
<1> DEFINE v == ctl[c].version
           got == [bundle |-> files[v].bundle, sig |-> files[v].sig,
                   compiled |-> IF files[v].compiled = Empty THEN Absent ELSE files[v].compiled,
                   meta |-> [version |-> v, state |-> "rollback"]]
           k == [Advance(c) EXCEPT !.new = got]
<1>1. /\ Step(c) = "get" /\ v \in Version /\ ctl[c].op = "rollback" /\ ctl[c].pc = 1
      /\ UNCHANGED <<files, manifest, current, sessions, marred, agent, crashes>>
  BY Running, LoadPlace, RollbackPlace, Zenon DEF GetStored, store
<1>2. CASE CanGet(v)
  <2>1. got \in FilesType /\ got.meta \in Meta /\ got.bundle = files[v].bundle /\ got.sig = files[v].sig
    BY <1>1, Zenon DEF Typed, FilesOK, FilesType, Content, Meta
  <2>2. /\ Advance(c) \in CommandType /\ Advance(c).op = "rollback" /\ Advance(c).version = v
        /\ Advance(c).pc = 2 /\ Advance(c).half = FALSE /\ Advance(c).alone = ctl[c].alone
    <3>1. ctl[c].op # "none" /\ ctl[c].op = "rollback" /\ ctl[c].pc = 1
      BY <1>1, Zenon
    <3> HIDE DEF v, got, k
    <3>2. /\ Advance(c) \in CommandType
          /\ \/ Advance(c) = NoCommand /\ ctl[c].pc = 9
             \/ /\ Advance(c).op = "rollback" /\ Advance(c).version = ctl[c].version
                /\ Advance(c).pc = ctl[c].pc + 1
                /\ Advance(c).half = FALSE /\ Advance(c).alone = ctl[c].alone
      BY <3>1, AdvanceKeeps, Zenon
    <3>3. ctl[c].pc # 9 /\ ctl[c].pc + 1 = 2
      BY <3>1
    <3>4. QED
      BY <3>2, <3>3, Zenon DEF v
  <2>3. ctl' = [ctl EXCEPT ![c] = k]
    BY <1>2, Zenon DEF GetStored
  <2> HIDE DEF got
  <2>4. /\ k \in CommandType /\ k.op = "rollback" /\ k.version = v /\ k.pc = 2 /\ k.half = FALSE
        /\ k.alone = ctl[c].alone /\ k.new = got
    BY <2>1, <2>2, Zenon DEF CommandType
  <2> HIDE DEF k
  <2>5. Moves(c, k)
    BY <2>3, <2>4, Zenon DEF Moves
  <2>6. Typed'
    <3>1. CommandOK(k)
      BY <1>1, <2>1, <2>4, Zenon DEF CommandOK, Typed, FilesOK
    <3>2. QED
      BY <1>1, <2>5, <3>1, MoveTyped, Zenon DEF Typed
  <2>7. ctl'[c] = k /\ \A d \in Ctl \ {c} : ctl'[d] = ctl[d]
    BY <2>5, MoveOthers, Zenon
  <2>8. Goes(c)
    BY <1>1, <2>4, <2>7 DEF Goes
  <2>9. QED
    BY <1>1, <1>2, <2>1, <2>4, <2>6, <2>7, <2>8, Zenon DEF Does, ReadsOn, File
<1>3. CASE ~CanGet(v)
  <2>1. Abort(c)
    BY <1>3, Zenon DEF GetStored
  <2>2. Moves(c, NoCommand) /\ Ends(c)
    BY <2>1, Aborts, Zenon
  <2>3. Typed'
    BY <1>1, <2>1, <2>2, Aborts, MoveTyped, Zenon DEF Typed
  <2>4. QED
    BY <1>1, <2>2, <2>3, MoveOthers, Zenon DEF Does, ReadsOn, File
<1>4. QED
  BY <1>2, <1>3, Zenon

LEMMA CheckDoes ==
  ASSUME Typed, NEW c \in Ctl, Check(c)
  PROVE  Typed' /\ Does(c)
<1>1. /\ Step(c) = "check" /\ ctl[c].op \in {"load", "rollback"} /\ ctl[c].version \in Version
      /\ ctl[c].op # "none" /\ UNCHANGED <<files, manifest, current, sessions, marred, agent, crashes>>
  BY Running, Zenon DEF Check, store
<1>2. CASE CanGet(ctl[c].version)
  <2>1. ctl' = [ctl EXCEPT ![c] = Advance(c)]
    BY <1>2, Zenon DEF Check
  <2>2. Moves(c, Advance(c)) /\ (Goes(c) \/ Ends(c))
    BY <1>1, <2>1, Advances, Zenon
  <2>3. Typed'
    BY <1>1, <2>1, <2>2, Advances, MoveTyped, Zenon DEF Typed
  <2>4. QED
    BY <1>1, <1>2, <2>2, <2>3, MoveOthers, Zenon DEF Does, ReadsOn, File
<1>3. CASE ~CanGet(ctl[c].version)
  <2>1. Abort(c)
    BY <1>3, Zenon DEF Check
  <2>2. Moves(c, NoCommand) /\ Ends(c)
    BY <2>1, Aborts, Zenon
  <2>3. Typed'
    BY <1>1, <2>1, <2>2, Aborts, MoveTyped, Zenon DEF Typed
  <2>4. QED
    BY <1>1, <2>2, <2>3, MoveOthers, Zenon DEF Does, ReadsOn, File
<1>4. QED
  BY <1>2, <1>3, Zenon

LEMMA SkipCompiledDoes ==
  ASSUME Typed, NEW c \in Ctl, SkipCompiled(c)
  PROVE  Typed' /\ Does(c)
<1>1. /\ Step(c) = "compiled" /\ ctl[c].op \in {"load", "rollback"} /\ ctl[c].version \in Version
      /\ ctl[c].op # "none" /\ UNCHANGED <<files, manifest, current, sessions, marred, agent, crashes>>
      /\ ctl' = [ctl EXCEPT ![c] = Advance(c)]
  BY Running, Zenon DEF SkipCompiled, store
<1>2. Moves(c, Advance(c)) /\ (Goes(c) \/ Ends(c))
  BY <1>1, Advances, Zenon
<1>3. Typed'
  BY <1>1, <1>2, Advances, MoveTyped, Zenon DEF Typed
<1>4. Goes(c) /\ ~Ends(c)
  BY <1>1, FilesNotLast, Zenon DEF File
<1>5. QED
  BY <1>1, <1>2, <1>3, <1>4, MoveOthers, Zenon DEF Does, ReadsOn

LEMMA ReadManifestDoes ==
  ASSUME Typed, NEW c \in Ctl, ReadManifest(c)
  PROVE  Typed' /\ Does(c)
<1> DEFINE meta == ctl[c].new.meta
           list == {m \in (IF manifest = Absent THEN {} ELSE manifest) : m.version # meta.version} \cup {meta}
           k == [Advance(c) EXCEPT !.list = list]
<1>1. /\ Step(c) = "list" /\ ctl[c].op \in {"load", "rollback"} /\ ctl[c].version \in Version
      /\ ctl[c].op # "none" /\ UNCHANGED <<files, manifest, current, sessions, marred, agent, crashes>>
  BY Running, Zenon DEF ReadManifest, store
<1>2. CASE manifest = Empty
  <2>1. Abort(c)
    BY <1>2, Zenon DEF ReadManifest
  <2>2. Moves(c, NoCommand) /\ Ends(c)
    BY <2>1, Aborts, Zenon
  <2>3. Typed'
    BY <1>1, <2>1, <2>2, Aborts, MoveTyped, Zenon DEF Typed
  <2>4. QED
    BY <1>1, <2>2, <2>3, MoveOthers, Zenon DEF Does, ReadsOn, File
<1>3. CASE manifest # Empty
  <2>1. meta \in Meta
    BY <1>1, LoadPlace, RollbackPlace DEF Typed, CommandOK
  <2>2. list \in SUBSET Meta
    BY <1>3, <2>1, Zenon DEF Typed
  <2>3. ctl' = [ctl EXCEPT ![c] = k]
    BY <1>3, Zenon DEF ReadManifest
  <2>4. /\ Advance(c) \in CommandType /\ Advance(c).op = ctl[c].op /\ Advance(c).version = ctl[c].version
        /\ Advance(c).pc = ctl[c].pc + 1 /\ Advance(c).half = FALSE /\ Advance(c).alone = ctl[c].alone
        /\ Advance(c).new = ctl[c].new
    BY <1>1, AdvanceKeeps, LoadPlace, RollbackPlace, Zenon
  <2> HIDE DEF list, meta
  <2>5. /\ k \in CommandType /\ k.op = ctl[c].op /\ k.version = ctl[c].version /\ k.pc = ctl[c].pc + 1
        /\ k.half = FALSE /\ k.alone = ctl[c].alone /\ k.new = ctl[c].new
    BY <2>2, <2>4, Zenon DEF CommandType
  <2> HIDE DEF k
  <2>6. Moves(c, k)
    BY <2>3, <2>5, Zenon DEF Moves
  <2>7. CommandOK(k)
    <3>1. CommandOK(ctl[c]) /\ ctl[c].pc \in 1..9
      BY Zenon DEF Typed, CommandType
    <3>2. ctl[c].op = "load" => ctl[c].pc < 8
      BY <1>1, LoadPlace
    <3>3. ctl[c].op = "rollback" => ctl[c].pc > 1
      BY <1>1, RollbackPlace
    <3>4. QED
      BY <2>5, <3>1, <3>2, <3>3 DEF CommandOK
  <2>8. Typed'
    BY <1>1, <2>6, <2>7, MoveTyped, Zenon DEF Typed
  <2>9. ctl'[c] = k /\ \A d \in Ctl \ {c} : ctl'[d] = ctl[d]
    BY <2>6, MoveOthers, Zenon
  <2>10. Goes(c)
    BY <1>1, <2>5, <2>9, Zenon DEF Goes
  <2>11. QED
    BY <1>1, <2>8, <2>9, <2>10, Zenon DEF Does, ReadsOn, File
<1>4. QED
  BY <1>2, <1>3, Zenon

LEMMA FillsOK ==
  ASSUME Typed, NEW v \in Version, NEW f \in File, NEW x, Filled(v, f, x),
         f = "bundle" /\ x \in Signed => x.version = v
  PROVE  FilesOK(files')
<1>1. files' \in [Version -> FilesType]
  BY Zenon DEF Filled
<1>2. ASSUME NEW w \in Version, files'[w].bundle \in Signed
      PROVE  files'[w].bundle.version = w
  <2>1. CASE w # v
    BY <1>2, <2>1, Zenon DEF Filled, Typed, FilesOK
  <2>2. CASE w = v /\ f = "bundle"
    BY <1>2, <2>2, Zenon DEF Filled
  <2>3. CASE w = v /\ f # "bundle"
    BY <1>2, <2>3, Zenon DEF Filled, File, Typed, FilesOK
  <2>4. QED
    BY <2>1, <2>2, <2>3, Zenon
<1>3. QED
  BY <1>1, <1>2, Zenon DEF FilesOK

LEMMA TruncateDoes ==
  ASSUME Typed, NEW c \in Ctl, Truncate(c)
  PROVE  Typed' /\ Does(c)
<1> DEFINE k == [ctl[c] EXCEPT !.half = TRUE]
           v == ctl[c].version
<1>1. Step(c) # "none" /\ ctl[c].half = FALSE /\ marred' = marred /\ agent' = agent /\ crashes' = crashes
  BY Zenon DEF Truncate, File, Typed, CommandType
<1>2. ctl[c].op \in {"load", "rollback"} /\ v \in Version /\ ctl[c] \in CommandType /\ CommandOK(ctl[c])
  BY <1>1, Running, Zenon DEF Typed
<1>3. ctl' = [ctl EXCEPT ![c] = k]
  BY Zenon DEF Truncate
<1>4. /\ k \in CommandType /\ k.op = ctl[c].op /\ k.version = v /\ k.alone = ctl[c].alone
      /\ k.pc = ctl[c].pc /\ k.half = TRUE /\ k.new = ctl[c].new
  BY <1>2, Zenon DEF CommandType
<1> HIDE DEF k
<1>5. Moves(c, k) /\ CommandOK(k)
  BY <1>2, <1>3, <1>4, Zenon DEF Moves, CommandOK
<1>6. ctl'[c] = k /\ \A d \in Ctl \ {c} : ctl'[d] = ctl[d]
  BY <1>5, MoveOthers, Zenon
<1>7. Halfway(c) /\ ~Ends(c)
  BY <1>1, <1>2, <1>4, <1>6, NoCommandTyped, Zenon DEF Halfway, Ends
<1>8. CASE Step(c) \in File
  <2>1. /\ files' = [files EXCEPT ![v][Step(c)] = Empty] /\ UNCHANGED <<manifest, current>>
        /\ sessions' = [sessions EXCEPT ![v] = IF Step(c) = "bundle" THEN @ + 1 ELSE @]
    BY <1>8, Zenon DEF Truncate, File, Put
  <2>2. Filled(v, Step(c), Empty)
    BY <1>2, <1>8, <2>1, Fills, Zenon DEF Content
  <2>3. FilesOK(files')
    BY <1>2, <1>8, <2>2, FillsOK, StoreAssumption, Zenon
  <2>4. sessions' \in [Version -> Nat]
    BY <1>2, <2>1 DEF Typed
  <2>5. Typed'
    BY <1>1, <1>5, <2>1, <2>3, <2>4, MoveTyped, Zenon DEF Typed
  <2>6. TruncatesFile(c)
    BY <1>7, <1>8, <2>1, <2>2, Zenon DEF TruncatesFile
  <2>7. QED
    BY <1>1, <1>2, <1>6, <1>7, <2>5, <2>6, Zenon DEF Does
<1>9. CASE Step(c) = "manifest"
  <2>1. manifest' = Empty /\ UNCHANGED <<files, current, sessions>>
    BY <1>9, Zenon DEF Truncate, File
  <2>2. Typed'
    BY <1>1, <1>5, <2>1, MoveTyped, Zenon DEF Typed
  <2>3. QED
    BY <1>1, <1>2, <1>6, <1>7, <1>9, <2>1, <2>2, Zenon DEF Does, ReadsOn
<1>10. CASE Step(c) = "current"
  <2>1. current' = Empty /\ UNCHANGED <<files, manifest, sessions>>
    BY <1>10, Zenon DEF Truncate, File
  <2>2. Typed'
    BY <1>1, <1>5, <2>1, MoveTyped, Zenon DEF Typed
  <2>3. QED
    BY <1>1, <1>2, <1>6, <1>7, <1>10, <2>1, <2>2, Zenon DEF Does, TruncatesCurrent
<1>11. QED
  BY <1>8, <1>9, <1>10, Zenon DEF Truncate

LEMMA WriteDoes ==
  ASSUME Typed, NEW c \in Ctl, Write(c)
  PROVE  Typed' /\ Does(c)
<1> DEFINE v == ctl[c].version
<1>1. Step(c) \notin {"none", "get"} /\ ctl[c].half /\ sessions' = sessions /\ marred' = marred /\ agent' = agent /\ crashes' = crashes
  BY Zenon DEF Write, File
<1>2. /\ ctl[c].op \in {"load", "rollback"} /\ ctl[c].op # "none" /\ v \in Version
      /\ ctl[c] \in CommandType /\ CommandOK(ctl[c])
  BY <1>1, Running, Zenon DEF Typed
<1>3. ctl' = [ctl EXCEPT ![c] = Advance(c)]
  BY Zenon DEF Write
<1>4. Moves(c, Advance(c)) /\ (Goes(c) \/ Ends(c)) /\ CommandOK(Advance(c))
  BY <1>1, <1>2, <1>3, Advances, Zenon
<1>5. \A d \in Ctl \ {c} : ctl'[d] = ctl[d]
  BY <1>4, MoveOthers, Zenon
<1>6. CASE Step(c) \in File
  <2> DEFINE x == ctl[c].new[Step(c)]
  <2>1. files' = [files EXCEPT ![v][Step(c)] = x] /\ UNCHANGED <<manifest, current>>
    BY <1>6, Zenon DEF Write, File
  <2>2. IF Step(c) = "meta" THEN x \in Meta \cup {Absent, Empty} ELSE x \in Content
    BY <1>2, <1>6, Zenon DEF CommandType, FilesType, File
  <2>3. Step(c) = "bundle" /\ x \in Signed => x.version = v
    BY <1>2, Zenon DEF CommandOK
  <2> HIDE DEF x
  <2>4. Filled(v, Step(c), x)
    BY <1>2, <1>6, <2>1, <2>2, Fills, Zenon
  <2>5. FilesOK(files')
    BY <1>2, <1>6, <2>3, <2>4, FillsOK, Zenon
  <2>6. Typed'
    BY <1>1, <1>4, <2>1, <2>5, MoveTyped, Zenon DEF Typed
  <2>7. Goes(c) /\ ~Ends(c)
    BY <1>2, <1>3, <1>6, FilesNotLast, Zenon
  <2>8. WritesFile(c)
    BY <1>1, <1>6, <2>1, <2>4, <2>7, Zenon DEF WritesFile, x
  <2>9. QED
    BY <1>1, <1>2, <1>5, <2>6, <2>7, <2>8, Zenon DEF Does
<1>7. CASE Step(c) = "manifest"
  <2>1. manifest' = ctl[c].list /\ UNCHANGED <<files, current>>
    BY <1>7, Zenon DEF Write, File
  <2>2. Typed'
    BY <1>1, <1>2, <1>4, <2>1, MoveTyped, Zenon DEF Typed, CommandType
  <2>3. QED
    BY <1>1, <1>2, <1>4, <1>5, <1>7, <2>1, <2>2, Zenon DEF Does, ReadsOn, File
<1>8. CASE Step(c) = "current"
  <2>1. current' = v /\ UNCHANGED <<files, manifest>>
    BY <1>8, Zenon DEF Write, File
  <2>2. Typed'
    BY <1>1, <1>2, <1>4, <2>1, MoveTyped, Zenon DEF Typed
  <2>3. WritesCurrent(c)
    BY <1>1, <1>4, <1>8, <2>1, Zenon DEF WritesCurrent
  <2>4. QED
    BY <1>1, <1>2, <1>5, <1>8, <2>2, <2>3, Zenon DEF Does, File
<1>9. QED
  BY <1>6, <1>7, <1>8, Zenon DEF Write

LEMMA CrashDoes ==
  ASSUME Typed, NEW c \in Ctl, Crash(c)
  PROVE  Typed' /\ Does(c)
<1>1. /\ Step(c) # "none" /\ crashes' = crashes + 1 /\ crashes \in Nat /\ Abort(c)
      /\ UNCHANGED <<files, manifest, current, sessions, agent>>
      /\ marred' = IF Step(c) \in File THEN marred \cup {ctl[c].version} ELSE marred
  BY LoadPlace, RollbackPlace, Zenon DEF Crash, store, Typed, CommandType
<1>2. Moves(c, NoCommand) /\ Ends(c) /\ CommandOK(NoCommand)
  BY <1>1, Aborts, Zenon
<1>3. Typed'
  BY <1>1, <1>2, MoveTyped DEF Typed
<1>4. \A d \in Ctl \ {c} : ctl'[d] = ctl[d]
  BY <1>2, MoveOthers, Zenon
<1>5. QED
  BY <1>1, <1>2, <1>3, <1>4, Running DEF Does, ReadsOn

LEMMA CommandDoes ==
  ASSUME Typed, NEW c \in Ctl, Command(c) \/ Crash(c)
  PROVE  Typed' /\ Does(c)
  BY GetStoredDoes, CheckDoes, TruncateDoes, WriteDoes, SkipCompiledDoes, ReadManifestDoes, CrashDoes, Zenon
     DEF Command

-----------------------------------------------------------------------------
(* The steps of LoadCurrent.                                                *)

LEMMA AgentTyped ==
  ASSUME Typed, UNCHANGED <<files, manifest, current, ctl, sessions, marred, ops, crashes>>, AgentOK(agent')
  PROVE  Typed'
  BY Zenon DEF Typed

LEMMA GiveUpTyped ==
  ASSUME AgentOK(agent), GiveUp
  PROVE  AgentOK(agent')
<1>1. agent' \in AgentType /\ agent'.at = "idle"
  BY Zenon DEF GiveUp, AgentOK, AgentType
<1>2. QED
  BY <1>1, Zenon DEF AgentOK

LEMMA LoadCurrentTyped ==
  ASSUME Typed, LoadCurrent
  PROVE  Typed' /\ UNCHANGED <<files, manifest, current, ctl, sessions, marred, ops, crashes>>
<1>1. AgentOK(agent) /\ agent \in AgentType /\ UNCHANGED <<files, manifest, current, ctl, sessions, marred, ops, crashes>>
  BY Zenon DEF Typed, AgentOK, LoadCurrent, ReadCurrent, ReadMeta, ReadBundle, ReadSig, store
<1>2. CASE ReadCurrent
  <2> DEFINE a == [agent EXCEPT !.at = "meta"]
  <2>1. agent' = [a EXCEPT !.version = current] /\ current \in Version
    BY <1>2, Zenon DEF ReadCurrent, Typed
  <2>2. a \in AgentType /\ a.at = "meta"
    BY <1>1, Zenon DEF AgentType
  <2> HIDE DEF a
  <2>3. /\ agent' \in AgentType /\ agent'.at = "meta" /\ agent'.version = current
    BY <2>1, <2>2, Zenon DEF AgentType
  <2>4. QED
    BY <1>1, <2>1, <2>3, AgentTyped, Zenon DEF AgentOK
<1>3. CASE ReadMeta
  <2>1. CASE GiveUp
    BY <1>1, <2>1, GiveUpTyped, AgentTyped, Zenon
  <2>2. CASE agent' = [agent EXCEPT !.at = "bundle"]
    <3>1. /\ agent' \in AgentType /\ agent'.at = "bundle" /\ agent'.version = agent.version
      BY <1>1, <2>2, Zenon DEF AgentType
    <3>2. agent.at = "meta"
      BY <1>3, Zenon DEF ReadMeta
    <3>3. QED
      BY <1>1, <3>1, <3>2, AgentTyped, Zenon DEF AgentOK
  <2>3. QED
    BY <1>3, <2>1, <2>2, Zenon DEF ReadMeta
<1>4. CASE ReadBundle
  <2> DEFINE x == files[agent.version].bundle
  <2>1. CASE x = Absent
    BY <1>1, <1>4, <2>1, GiveUpTyped, AgentTyped, Zenon DEF ReadBundle
  <2>2. CASE x # Absent
    <3> DEFINE a == [agent EXCEPT !.at = "sig"]
    <3>1. agent.at = "bundle" /\ agent.version \in Version
      BY <1>1, <1>4, Zenon DEF ReadBundle, AgentOK
    <3>2. x \in Content /\ (x \in Signed => x.version = agent.version)
      BY <3>1, Zenon DEF Typed, FilesOK, FilesType
    <3>3. agent' = [a EXCEPT !.bundle = x]
      BY <1>4, <2>2, Zenon DEF ReadBundle
    <3> HIDE DEF x
    <3>4. /\ a \in AgentType /\ a.at = "sig" /\ a.version = agent.version
      BY <1>1, Zenon DEF AgentType
    <3> HIDE DEF a
    <3>5. /\ agent' \in AgentType /\ agent'.at = "sig" /\ agent'.version = agent.version /\ agent'.bundle = x
      BY <3>2, <3>3, <3>4, Zenon DEF AgentType
    <3>6. AgentOK(agent')
      BY <1>1, <2>2, <3>1, <3>2, <3>5, Zenon DEF AgentOK
    <3>7. QED
      BY <1>1, <3>6, AgentTyped, Zenon
  <2>3. QED
    BY <2>1, <2>2, Zenon
<1>5. CASE ReadSig
  <2>1. agent.at = "sig" /\ agent.version \in Version /\ agent.bundle # Absent
    BY <1>1, <1>5, Zenon DEF ReadSig, AgentOK
  <2>2. CASE files[agent.version].sig = agent.bundle /\ agent.bundle # Empty
    <3> DEFINE a == [agent EXCEPT !.at = "idle"]
    <3>1. agent.bundle \in Signed /\ agent.bundle.version = agent.version
      BY <1>1, <2>1, <2>2, Zenon DEF AgentOK, AgentType, Content
    <3>2. agent' = [a EXCEPT !.policy = agent.bundle]
      BY <1>5, <2>2, Zenon DEF ReadSig
    <3>3. a \in AgentType /\ a.at = "idle"
      BY <1>1, Zenon DEF AgentType
    <3> HIDE DEF a
    <3>4. agent' \in AgentType /\ agent'.at = "idle"
      BY <3>1, <3>2, <3>3, Zenon DEF AgentType
    <3>5. AgentOK(agent')
      BY <3>4, Zenon DEF AgentOK
    <3>6. QED
      BY <1>1, <3>5, AgentTyped, Zenon
  <2>3. CASE ~(files[agent.version].sig = agent.bundle /\ agent.bundle # Empty)
    <3>1. GiveUp
      BY <1>5, <2>3, Zenon DEF ReadSig, GiveUp
    <3>2. QED
      BY <1>1, <3>1, GiveUpTyped, AgentTyped, Zenon
  <2>4. QED
    BY <2>2, <2>3, Zenon
<1>6. QED
  BY <1>2, <1>3, <1>4, <1>5, Zenon DEF LoadCurrent

-----------------------------------------------------------------------------

\* A step is the start of a command, a step of a command, or one of LoadCurrent.
LEMMA Steps ==
  ASSUME Typed, [Next]_vars
  PROVE  /\ Typed'
         /\ \/ \E c \in Ctl : Starts(c) \/ Does(c)
            \/ UNCHANGED <<files, manifest, current, ctl, sessions, marred, crashes>>
<1>1. CASE \E c \in Ctl : (\E b \in Signed : StartLoad(c, b)) \/ (\E v \in Version : StartRollback(c, v))
  BY <1>1, StartTyped, StartCommands, Zenon
<1>2. CASE \E c \in Ctl : Command(c) \/ Crash(c)
  BY <1>2, CommandDoes, Zenon
<1>3. CASE LoadCurrent
  BY <1>3, LoadCurrentTyped, Zenon
<1>4. CASE UNCHANGED vars
  BY <1>4, Zenon DEF vars, Typed
<1>5. QED
  BY <1>1, <1>2, <1>3, <1>4, Zenon DEF Next

LEMMA TypedHolds == Spec => []Typed
<1>1. Typed /\ [Next]_vars => Typed'
  BY Steps, Zenon
<1>2. QED
  BY InitTyped, <1>1, PTL DEF Spec

\* The files of the store, the pointer and what the commands and the agent are
\* doing keep their types, for any bundles, commands and crashes.
THEOREM TypeCorrect == Spec => []TypeOK
<1>1. Typed => TypeOK
  BY Zenon DEF Typed, TypeOK, FilesOK, FilesType, Content, CommandType, AgentOK, AgentType
<1>2. QED
  BY <1>1, TypedHolds, PTL

-----------------------------------------------------------------------------
(* A load that no other command overlapped.                                    *)

\* A load that no other command overlaps finds what it wrote.
Wrote(c) ==
  /\ ctl[c].pc > 1 => files[ctl[c].version].bundle = ctl[c].new.bundle
  /\ ctl[c].pc > 2 => files[ctl[c].version].sig = ctl[c].new.bundle
  /\ ctl[c].pc > 3 => files[ctl[c].version].meta \in Meta

AloneInv ==
  \A c \in Ctl : ctl[c].op # "none" /\ ctl[c].alone =>
    /\ \A d \in Ctl \ {c} : ctl[d].op = "none"
    /\ ctl[c].op = "load" => Wrote(c)

LEMMA StartAlone ==
  ASSUME Typed, AloneInv, NEW c \in Ctl, Starts(c)
  PROVE  AloneInv'
<1>1. PICK op \in {"load", "rollback"}, v \in Version, new \in FilesType : Begun(c, op, v, new)
  BY Zenon DEF Starts
<1>2. /\ ctl'[c].pc = 1
      /\ ctl'[c].alone => \A d \in Ctl \ {c} : ctl[d].op = "none"
      /\ \A d \in Ctl \ {c} : ctl'[d].op = ctl[d].op /\ (ctl'[d].op # "none" => ~ctl'[d].alone)
  BY <1>1, Zenon DEF Begun
<1>3. QED
  BY <1>2 DEF AloneInv, Wrote

LEMMA DoesAlone ==
  ASSUME Typed, AloneInv, NEW c \in Ctl, Does(c)
  PROVE  AloneInv'
<1> DEFINE v == ctl[c].version
<1>1. v \in Version /\ ctl[c].op # "none" /\ \A d \in Ctl \ {c} : ctl'[d] = ctl[d]
  BY Zenon DEF Does
<1>2. ASSUME NEW d \in Ctl \ {c}, ctl'[d].op # "none", ctl'[d].alone
      PROVE  FALSE
  BY <1>1, <1>2, Zenon DEF AloneInv
<1>3. ASSUME ctl'[c].op # "none", ctl'[c].alone
      PROVE  /\ \A d \in Ctl \ {c} : ctl'[d].op = "none"
             /\ ctl'[c].op = "load" => Wrote(c)'
  <2>1. Goes(c) \/ Halfway(c)
    BY <1>3, NoCommandTyped, Zenon DEF Does, Ends, ReadsOn, TruncatesFile, WritesFile, TruncatesCurrent, WritesCurrent
  <2>2. ctl[c].alone /\ ctl'[c].op = ctl[c].op /\ ctl'[c].version = v
    BY <1>3, <2>1, Zenon DEF Goes, Halfway
  <2>3. \A d \in Ctl \ {c} : ctl'[d].op = "none"
    BY <1>1, <2>2, Zenon DEF AloneInv
  <2>4. ASSUME ctl[c].op = "load" PROVE Wrote(c)'
    <3>1. Wrote(c)
      BY <1>1, <2>2, <2>4, Zenon DEF AloneInv
    <3>2. ctl'[c].new = ctl[c].new /\ ctl[c].new.sig = ctl[c].new.bundle /\ ctl[c].new.meta \in Meta
      BY <2>1, <2>4, LoadPlace, Zenon DEF Goes, Halfway, Typed, CommandOK
    <3>3. ctl[c].pc \in 1..8
      BY <2>4, LoadPlace, Zenon
    <3>4. CASE TruncatesFile(c)
      <4>1. ctl'[c].pc = ctl[c].pc /\ Step(c) \in File /\ Filled(v, Step(c), Empty)
        BY <3>4, Zenon DEF TruncatesFile, Halfway
      <4>2. /\ ctl[c].pc > 1 => files'[v].bundle = files[v].bundle
            /\ ctl[c].pc > 2 => files'[v].sig = files[v].sig
            /\ ctl[c].pc > 3 => files'[v].meta = files[v].meta
        BY <2>4, <4>1, LoadPlace DEF Filled, File
      <4>3. QED
        BY <2>2, <3>1, <3>2, <4>1, <4>2, Zenon DEF Wrote
    <3>5. CASE WritesFile(c)
      <4>1. ctl'[c].pc = ctl[c].pc + 1 /\ Step(c) \in File /\ Filled(v, Step(c), ctl[c].new[Step(c)])
        BY <1>3, <3>5, NoCommandTyped, Zenon DEF WritesFile, Goes, Ends
      <4>2. CASE ctl[c].pc = 1
        <5>1. files'[v].bundle = ctl[c].new.bundle
          BY <2>4, <4>1, <4>2, LoadPlace, Zenon DEF Filled, File
        <5>2. QED
          BY <2>2, <3>2, <4>1, <4>2, <5>1 DEF Wrote
      <4>3. CASE ctl[c].pc = 2
        <5>1. files'[v].bundle = files[v].bundle /\ files'[v].sig = ctl[c].new.sig
          BY <2>4, <4>1, <4>3, LoadPlace, Zenon DEF Filled, File
        <5>2. QED
          BY <2>2, <3>1, <3>2, <4>1, <4>3, <5>1 DEF Wrote
      <4>4. CASE ctl[c].pc = 3
        <5>1. files'[v].bundle = files[v].bundle /\ files'[v].sig = files[v].sig /\ files'[v].meta = ctl[c].new.meta
          BY <2>4, <4>1, <4>4, LoadPlace, Zenon DEF Filled, File
        <5>2. QED
          BY <2>2, <3>1, <3>2, <4>1, <4>4, <5>1 DEF Wrote
      <4>5. CASE ctl[c].pc = 4
        <5>1. files'[v].bundle = files[v].bundle /\ files'[v].sig = files[v].sig /\ files'[v].meta = files[v].meta
          BY <2>4, <4>1, <4>5, LoadPlace, Zenon DEF Filled, File
        <5>2. QED
          BY <2>2, <3>1, <3>2, <4>1, <4>5, <5>1 DEF Wrote
      <4>6. QED
        BY <2>4, <4>1, <4>2, <4>3, <4>4, <4>5, LoadPlace, Zenon DEF File
    <3>6. CASE ReadsOn(c) \/ TruncatesCurrent(c) \/ WritesCurrent(c)
      <4>1. UNCHANGED files
        BY <3>6, Zenon DEF ReadsOn, TruncatesCurrent, WritesCurrent
      <4>2. Step(c) \in {"get", "check", "compiled", "list", "manifest", "current"}
        BY <1>3, <3>6, NoCommandTyped, Zenon DEF ReadsOn, TruncatesCurrent, WritesCurrent, Ends
      <4>3. ctl[c].pc > 3
        BY <2>4, <3>3, <4>2, LoadPlace
      <4>4. QED
        BY <2>2, <3>1, <3>2, <3>3, <4>1, <4>3 DEF Wrote
    <3>7. QED
      BY <3>4, <3>5, <3>6, Zenon DEF Does
  <2>5. QED
    BY <2>2, <2>3, <2>4, Zenon
<1>4. QED
  BY <1>2, <1>3, Zenon DEF AloneInv

LEMMA AloneHolds == Spec => [](Typed /\ AloneInv)
<1>1. Init => AloneInv
  BY NoCommandTyped, Zenon DEF Init, AloneInv
<1>2. Typed /\ AloneInv /\ [Next]_vars => Typed' /\ AloneInv'
  <2> SUFFICES ASSUME Typed, AloneInv, [Next]_vars PROVE AloneInv'
    BY Steps, Zenon
  <2>1. CASE UNCHANGED <<files, manifest, current, ctl, sessions, marred, crashes>>
    BY <2>1, Zenon DEF AloneInv, Wrote
  <2>2. QED
    BY <2>1, Steps, StartAlone, DoesAlone, Zenon
<1>3. QED
  BY InitTyped, <1>1, <1>2, PTL DEF Spec

\* A load that ends by itself, and that no other command overlapped, has made
\* its bundle the one that LoadCurrent returns, for any number of commands and
\* crashes before it.
THEOREM LoadTakesEffectHolds == Spec => LoadTakesEffect
<1> DEFINE Effect(c) == /\ ctl[c].op = "load" /\ ctl[c].alone /\ ctl'[c].op = "none"
                        /\ Step(c) = "current" /\ crashes' = crashes
                        => LET v == ctl[c].version IN
                           /\ current' = v
                           /\ files'[v].bundle = ctl[c].new.bundle
                           /\ files'[v].sig = ctl[c].new.bundle
                           /\ files'[v].meta \in Meta
<1>1. ASSUME Typed, AloneInv, [Next]_vars, NEW c \in Ctl,
             ctl[c].op = "load", ctl[c].alone, ctl'[c].op = "none", Step(c) = "current", crashes' = crashes
      PROVE  /\ current' = ctl[c].version
             /\ files'[ctl[c].version].bundle = ctl[c].new.bundle
             /\ files'[ctl[c].version].sig = ctl[c].new.bundle
             /\ files'[ctl[c].version].meta \in Meta
  <2>1. Does(c)
    <3>1. PICK d \in Ctl : Starts(d) \/ Does(d)
      BY <1>1, Steps, Zenon
    <3>2. ~Starts(d)
      BY <1>1, Zenon DEF Starts, Begun
    <3>3. QED
      BY <1>1, <3>1, <3>2, Zenon DEF Does
  <2>2. WritesCurrent(c)
    BY <1>1, <2>1, Zenon DEF Does, ReadsOn, TruncatesFile, WritesFile, TruncatesCurrent, Goes, Halfway, File
  <2>3. Wrote(c) /\ ctl[c].pc = 8
    BY <1>1, LoadPlace, Zenon DEF AloneInv
  <2>4. QED
    BY <2>2, <2>3 DEF WritesCurrent, Wrote
<1>2. Typed /\ AloneInv /\ [Next]_vars => [\A c \in Ctl : Effect(c)]_vars
  BY <1>1, Zenon
<1>3. QED
  BY <1>2, AloneHolds, PTL DEF Spec, LoadTakesEffect

-----------------------------------------------------------------------------
(* The pointer of the store and the files it names.                            *)

\* The command has begun to write the files of its version.
Past(c) == \/ ctl[c].op = "load" /\ (ctl[c].pc > 1 \/ ctl[c].half)
           \/ ctl[c].op = "rollback" /\ (ctl[c].pc > 4 \/ (ctl[c].pc = 4 /\ ctl[c].half))

\* It is about to move the pointer, or moving it.
AtCurrent(c) == (ctl[c].op = "load" /\ ctl[c].pc = 8) \/ (ctl[c].op = "rollback" /\ ctl[c].pc = 3)

On(c, v) == ctl[c].op # "none" /\ ctl[c].version = v

\* Nothing was written yet.
Fresh(v) ==
  /\ files[v].bundle = Absent /\ files[v].sig = Absent /\ files[v].meta = Absent
  /\ current # v
  /\ \A c \in Ctl : On(c, v) => ctl[c].pc = 1 /\ ctl[c].half = FALSE

\* How far the one load that writes has come.
Stage(c, v) ==
  /\ ctl[c].op = "load"
  /\ ctl[c].pc = 1 => files[v].sig = Absent /\ files[v].meta = Absent
  /\ ctl[c].pc = 2 => files[v].bundle = ctl[c].new.bundle /\ files[v].meta = Absent
  /\ ctl[c].pc = 3 => /\ files[v].bundle = ctl[c].new.bundle /\ files[v].sig = ctl[c].new.bundle
                      /\ files[v].meta \in {Absent, Empty}
  /\ ctl[c].pc > 3 => Loadable(v)

\* The files were, or are being, written by one load.
Once(v) ==
  /\ \A c, d \in Ctl : On(c, v) /\ Past(c) /\ On(d, v) /\ Past(d) => c = d
  /\ \A c \in Ctl : On(c, v) /\ Past(c) => Stage(c, v)
  /\ \A c \in Ctl : On(c, v) /\ AtCurrent(c) => Loadable(v)
  /\ files[v].meta \notin {Absent, Empty} => Loadable(v)
  /\ current = v => Loadable(v)

PointerAt(v) == (sessions[v] = 0 => Fresh(v)) /\ (sessions[v] = 1 => Once(v))

\* A command that begins has written nothing.
LEMMA StartPointer ==
  ASSUME Typed, NEW v \in Version, PointerAt(v), NEW c \in Ctl, Starts(c)
  PROVE  PointerAt(v)'
<1>1. PICK op \in {"load", "rollback"}, w \in Version, new \in FilesType : Begun(c, op, w, new)
  BY Zenon DEF Starts
<1>2. /\ ctl'[c].op \in {"load", "rollback"} /\ ctl'[c].pc = 1 /\ ctl'[c].half = FALSE
      /\ \A d \in Ctl \ {c} :
           /\ ctl'[d].op = ctl[d].op /\ ctl'[d].version = ctl[d].version /\ ctl'[d].new = ctl[d].new
           /\ ctl'[d].pc = ctl[d].pc /\ ctl'[d].half = ctl[d].half
      /\ UNCHANGED <<files, current, sessions>>
  BY <1>1, Zenon DEF Begun
<1>3. ~Past(c)' /\ ~AtCurrent(c)'
  BY <1>2 DEF Past, AtCurrent
<1>4. \A d \in Ctl \ {c} :
        /\ (On(d, v)' <=> On(d, v)) /\ (Past(d)' <=> Past(d))
        /\ (AtCurrent(d)' <=> AtCurrent(d)) /\ (Stage(d, v)' <=> Stage(d, v))
  BY <1>2 DEF On, Past, AtCurrent, Stage, Loadable, CanGet
<1>5. Fresh(v) => Fresh(v)'
  BY <1>2, <1>4, Zenon DEF Fresh
<1>6. Once(v) => Once(v)'
  BY <1>2, <1>3, <1>4, Zenon DEF Once, Loadable, CanGet
<1>7. QED
  BY <1>2, <1>5, <1>6, Zenon DEF PointerAt

\* What a step of c does not do.
LEMMA DoesOthers ==
  ASSUME Typed, NEW c \in Ctl, Does(c), NEW v \in Version
  PROVE  /\ \A d \in Ctl \ {c} :
              /\ (On(d, v)' <=> On(d, v)) /\ (Past(d)' <=> Past(d))
              /\ (AtCurrent(d)' <=> AtCurrent(d))
              /\ files'[v] = files[v] => (Stage(d, v)' <=> Stage(d, v))
         /\ On(c, v)' => On(c, v)
<1>1. \A d \in Ctl \ {c} : ctl'[d] = ctl[d]
  BY Zenon DEF Does
<1>2. Ends(c) \/ Goes(c) \/ Halfway(c)
  BY Zenon DEF Does, ReadsOn, TruncatesFile, WritesFile, TruncatesCurrent, WritesCurrent
<1>3. On(c, v)' => On(c, v)
  BY <1>2, NoCommandTyped, Zenon DEF On, Ends, Goes, Halfway
<1>4. QED
  BY <1>1, <1>3 DEF On, Past, AtCurrent, Stage, Loadable, CanGet

LEMMA OtherPointer ==
  ASSUME Typed, NEW v \in Version, PointerAt(v), NEW c \in Ctl, Does(c), ctl[c].version # v
  PROVE  PointerAt(v)'
<1>1. ~On(c, v) /\ ~On(c, v)'
  BY DoesOthers, Zenon DEF On
<1>2. files'[v] = files[v] /\ sessions'[v] = sessions[v] /\ (current' = v => current = v)
  BY StoreAssumption, Zenon
     DEF Does, ReadsOn, TruncatesFile, WritesFile, TruncatesCurrent, WritesCurrent, Filled, Typed
<1>3. \A d \in Ctl \ {c} : ctl'[d] = ctl[d]
  BY Zenon DEF Does
<1>4. Fresh(v) => Fresh(v)'
  BY <1>1, <1>2, <1>3, DoesOthers DEF Fresh
<1>5. Once(v) => Once(v)'
  BY <1>1, <1>2, DoesOthers, Zenon DEF Once, Loadable, CanGet
<1>6. QED
  BY <1>2, <1>4, <1>5, Zenon DEF PointerAt

\* Before the first write.
LEMMA FreshPointer ==
  ASSUME Typed, NEW c \in Ctl, Does(c), NEW v \in Version, v = ctl[c].version,
         sessions[v] = 0, Fresh(v)
  PROVE  PointerAt(v)'
<1>1. ctl[c].op \in {"load", "rollback"} /\ ctl[c].op # "none" /\ ctl[c].pc = 1 /\ ctl[c].half = FALSE
  BY Zenon DEF Does, Fresh, On
<1>2. \A d \in Ctl \ {c} : ctl'[d] = ctl[d]
  BY Zenon DEF Does
<1>3. ~CanGet(v)
  BY Zenon DEF Fresh, CanGet
<1>4. Step(c) = IF ctl[c].op = "load" THEN "bundle" ELSE "get"
  BY <1>1, LoadPlace, RollbackPlace, Zenon
<1>5. CASE Ends(c) /\ UNCHANGED <<files, current, sessions>>
  <2>1. ~On(c, v)'
    BY <1>5, NoCommandTyped, Zenon DEF On, Ends
  <2>2. Fresh(v)'
    BY <1>2, <1>5, <2>1, DoesOthers DEF Fresh
  <2>3. QED
    BY <1>5, <2>2 DEF PointerAt
<1>6. CASE TruncatesFile(c)
  <2>1. Step(c) = "bundle" /\ ctl[c].op = "load"
    BY <1>1, <1>4, <1>6, Zenon DEF TruncatesFile, File
  <2>2. sessions'[v] = 1 /\ UNCHANGED current
    BY <1>6, <2>1 DEF TruncatesFile, Typed
  <2>3. files'[v].sig = Absent /\ files'[v].meta = Absent
    BY <1>6, <2>1, Zenon DEF TruncatesFile, Filled, File, Fresh
  <2>4. ctl'[c].op = "load" /\ ctl'[c].pc = 1
    BY <1>1, <1>6, <2>1, Zenon DEF TruncatesFile, Halfway
  <2>5. Stage(c, v)' /\ ~AtCurrent(c)'
    BY <2>3, <2>4 DEF Stage, AtCurrent
  <2>6. \A d \in Ctl \ {c} : On(d, v)' => ~Past(d)' /\ ~AtCurrent(d)'
    BY <1>2, DoesOthers DEF Fresh, Past, AtCurrent
  <2>7. Once(v)'
    BY <2>2, <2>3, <2>5, <2>6, Zenon DEF Once, Fresh
  <2>8. QED
    BY <2>2, <2>7 DEF PointerAt
<1>7. QED
  BY <1>1, <1>3, <1>4, <1>5, <1>6, Zenon
     DEF Does, ReadsOn, WritesFile, TruncatesCurrent, WritesCurrent, File

\* While the one load writes, and after it.
LEMMA OncePointer ==
  ASSUME Typed, NEW c \in Ctl, Does(c), NEW v \in Version, v = ctl[c].version,
         sessions[v] = 1, sessions'[v] = 1, Once(v)
  PROVE  Once(v)'
<1>1. /\ ctl[c].op \in {"load", "rollback"} /\ ctl[c].op # "none" /\ On(c, v)
      /\ ctl[c].pc \in 1..9 /\ CommandOK(ctl[c])
  BY Zenon DEF Does, On, Typed, CommandType
<1>2. CASE TruncatesFile(c)
  <2>1. Step(c) # "bundle" /\ Step(c) \in File
    BY <1>2 DEF TruncatesFile, Typed
  <2>2. Past(c)
    BY <1>1, <2>1, LoadPlace, RollbackPlace DEF Past, File
  <2>3. ctl[c].op = "load" /\ Stage(c, v) /\ ctl[c].pc \in 2..4
    BY <1>1, <2>1, <2>2, LoadPlace DEF Once, Stage, File
  <2>4. ctl'[c].op = "load" /\ ctl'[c].pc = ctl[c].pc /\ ctl'[c].new = ctl[c].new /\ UNCHANGED current
    BY <1>2, <2>3, Zenon DEF TruncatesFile, Halfway
  <2>5. Filled(v, Step(c), Empty)
    BY <1>2, Zenon DEF TruncatesFile
  <2>6. \A d \in Ctl \ {c} : On(d, v)' => ~Past(d)'
    BY <1>1, <2>2, DoesOthers, Zenon DEF Once
  <2>7. CASE ctl[c].pc = 2
    <3>1. files'[v].bundle = files[v].bundle /\ files'[v].meta = files[v].meta /\ files[v].meta = Absent
      BY <2>3, <2>5, <2>7, LoadPlace, Zenon DEF Filled, File, Stage
    <3>2. ~Loadable(v)
      BY <3>1, Zenon DEF Loadable, CanGet
    <3>3. Stage(c, v)' /\ ~AtCurrent(c)'
      BY <2>3, <2>4, <2>7, <3>1 DEF Stage, AtCurrent
    <3>4. QED
      BY <2>4, <2>6, <3>1, <3>2, <3>3, DoesOthers DEF Once
  <2>8. CASE ctl[c].pc = 3
    <3>1. /\ files'[v].bundle = files[v].bundle /\ files'[v].sig = files[v].sig /\ files'[v].meta = Empty
          /\ files[v].meta \in {Absent, Empty}
      BY <2>3, <2>5, <2>8, LoadPlace, Zenon DEF Filled, File, Stage
    <3>2. ~Loadable(v)
      BY <3>1, Zenon DEF Loadable, CanGet
    <3>3. Stage(c, v)' /\ ~AtCurrent(c)'
      BY <2>3, <2>4, <2>8, <3>1 DEF Stage, AtCurrent
    <3>4. QED
      BY <2>4, <2>6, <3>1, <3>2, <3>3, DoesOthers DEF Once
  <2>9. CASE ctl[c].pc = 4
    <3>1. files'[v].bundle = files[v].bundle /\ files'[v].sig = files[v].sig /\ files'[v].meta = files[v].meta
      BY <2>3, <2>5, <2>9, LoadPlace, Zenon DEF Filled, File
    <3>2. Loadable(v)'
      BY <2>3, <2>9, <3>1 DEF Stage, Loadable, CanGet
    <3>3. Stage(c, v)'
      BY <2>3, <2>4, <2>9, <3>2 DEF Stage
    <3>4. QED
      BY <2>6, <3>2, <3>3, Zenon DEF Once
  <2>10. QED
    BY <2>3, <2>7, <2>8, <2>9
<1>3. CASE WritesFile(c)
  <2>1. Step(c) \in File /\ ctl[c].half
    BY <1>3, Zenon DEF WritesFile
  <2>2. Past(c)
    BY <1>1, <2>1, LoadPlace, RollbackPlace DEF Past, File
  <2>3. ctl[c].op = "load" /\ Stage(c, v) /\ ctl[c].pc \in 1..4
    BY <1>1, <2>1, <2>2, LoadPlace DEF Once, Stage, File
  <2>4. /\ On(c, v)' => ctl'[c].op = "load" /\ ctl'[c].pc = ctl[c].pc + 1 /\ ctl'[c].new = ctl[c].new
        /\ UNCHANGED current
    BY <1>3, <2>1, <2>3, Zenon DEF WritesFile, Goes, On, File
  <2>5. /\ Filled(v, Step(c), ctl[c].new[Step(c)])
        /\ ctl[c].new.bundle \in Signed /\ ctl[c].new.sig = ctl[c].new.bundle /\ ctl[c].new.meta \in Meta
    BY <1>1, <1>3, <2>3, Zenon DEF WritesFile, CommandOK
  <2>6. \A d \in Ctl \ {c} : On(d, v)' => ~Past(d)'
    BY <1>1, <2>2, DoesOthers, Zenon DEF Once
  <2>7. CASE ctl[c].pc = 1
    <3>1. files'[v].bundle = ctl[c].new.bundle /\ files'[v].meta = Absent /\ files[v].meta = Absent
      BY <2>3, <2>5, <2>7, LoadPlace, Zenon DEF Filled, File, Stage
    <3>2. ~Loadable(v)
      BY <3>1, Zenon DEF Loadable, CanGet
    <3>3. On(c, v)' => Stage(c, v)' /\ ~AtCurrent(c)'
      BY <2>4, <2>7, <3>1 DEF Stage, AtCurrent
    <3>4. QED
      BY <2>4, <2>6, <3>1, <3>2, <3>3, DoesOthers DEF Once
  <2>8. CASE ctl[c].pc = 2
    <3>1. /\ files'[v].bundle = ctl[c].new.bundle /\ files'[v].sig = ctl[c].new.bundle
          /\ files'[v].meta = Absent /\ files[v].meta = Absent
      BY <2>3, <2>5, <2>8, LoadPlace DEF Filled, File, Stage
    <3>2. ~Loadable(v)
      BY <3>1, Zenon DEF Loadable, CanGet
    <3>3. On(c, v)' => Stage(c, v)' /\ ~AtCurrent(c)'
      BY <2>4, <2>8, <3>1 DEF Stage, AtCurrent
    <3>4. QED
      BY <2>4, <2>6, <3>1, <3>2, <3>3, DoesOthers DEF Once
  <2>9. CASE ctl[c].pc \in 3..4
    <3>1. Loadable(v)'
      <4>1. CASE ctl[c].pc = 3
        <5>1. /\ files'[v].bundle = ctl[c].new.bundle /\ files'[v].sig = ctl[c].new.bundle
              /\ files'[v].meta = ctl[c].new.meta
          BY <2>3, <2>5, <4>1, LoadPlace, Zenon DEF Filled, File, Stage
        <5>2. QED
          BY <2>5, <5>1, StoreAssumption, Zenon DEF Loadable, CanGet
      <4>2. CASE ctl[c].pc = 4
        <5>1. files'[v].bundle = files[v].bundle /\ files'[v].sig = files[v].sig /\ files'[v].meta = files[v].meta
          BY <2>3, <2>5, <4>2, LoadPlace, Zenon DEF Filled, File
        <5>2. QED
          BY <2>3, <4>2, <5>1 DEF Stage, Loadable, CanGet
      <4>3. QED
        BY <2>9, <4>1, <4>2
    <3>2. On(c, v)' => Stage(c, v)'
      BY <2>4, <2>9, <3>1 DEF Stage
    <3>3. QED
      BY <2>6, <3>1, <3>2, Zenon DEF Once
  <2>10. QED
    BY <2>3, <2>7, <2>8, <2>9
<1>4. CASE ReadsOn(c) \/ TruncatesCurrent(c) \/ WritesCurrent(c)
  <2>1. UNCHANGED files
    BY <1>4, Zenon DEF ReadsOn, TruncatesCurrent, WritesCurrent
  <2>2. Loadable(v)' <=> Loadable(v)
    BY <2>1, Zenon DEF Loadable, CanGet
  <2>3. Step(c) = "current" => Loadable(v)
    BY <1>1, LoadPlace, RollbackPlace, Zenon DEF Once, AtCurrent
  <2>4. current' = v => Loadable(v)
    BY <1>4, <2>3, StoreAssumption, Zenon DEF ReadsOn, TruncatesCurrent, WritesCurrent, Once
  <2>5. On(c, v)' =>
          /\ Goes(c) \/ Halfway(c)
          /\ Step(c) \in {"get", "check", "compiled", "list", "manifest", "current"}
          /\ Step(c) = "check" => CanGet(v)
    BY <1>4, NoCommandTyped, Zenon DEF ReadsOn, TruncatesCurrent, WritesCurrent, Ends, On, Halfway, Goes
  <2>6. ASSUME On(c, v)', ctl[c].op = "load"
        PROVE  /\ Past(c) /\ Stage(c, v)'
               /\ AtCurrent(c)' => Loadable(v)
    <3>1. ctl[c].pc \in 4..8 /\ ctl'[c].op = "load" /\ ctl'[c].pc \in {ctl[c].pc, ctl[c].pc + 1}
      BY <2>5, <2>6, LoadPlace DEF Goes, Halfway
    <3>2. Past(c) /\ Loadable(v)
      BY <1>1, <2>6, <3>1 DEF Past, Once, Stage
    <3>3. QED
      BY <2>2, <3>1, <3>2 DEF Stage
  <2>7. ASSUME On(c, v)', ctl[c].op = "rollback"
        PROVE  /\ ~Past(c)'
               /\ AtCurrent(c)' => Loadable(v)
    <3>1. ~Past(c) /\ ctl[c].pc \in 1..9
      BY <1>1, <2>7, Zenon DEF Once, Stage
    <3>2. ctl[c].pc \in 1..3
      BY <2>5, <2>7, <3>1, RollbackPlace DEF Past
    <3>3. /\ ctl'[c].op = "rollback"
          /\ \/ ctl'[c].pc = ctl[c].pc
             \/ ctl'[c].pc = ctl[c].pc + 1 /\ ctl'[c].half = FALSE
      BY <2>5, <2>7, Zenon DEF Goes, Halfway
    <3>4. ~Past(c)'
      BY <3>2, <3>3 DEF Past
    <3>5. CanGet(v) => Loadable(v)
      BY Zenon DEF Once, CanGet
    <3>6. AtCurrent(c)' => ctl[c].pc \in {2, 3}
      BY <3>2, <3>3 DEF AtCurrent
    <3>7. QED
      BY <2>3, <2>5, <2>7, <3>4, <3>5, <3>6, RollbackPlace, Zenon
  <2>8. Past(c)' /\ On(c, v)' => Past(c) /\ Stage(c, v)'
    BY <1>1, <2>6, <2>7, Zenon
  <2>9. AtCurrent(c)' /\ On(c, v)' => Loadable(v)
    BY <1>1, <2>6, <2>7, Zenon
  <2>10. \A d \in Ctl : On(d, v)' /\ Past(d)' => On(d, v) /\ Past(d) /\ Stage(d, v)'
    BY <1>1, <2>1, <2>8, DoesOthers DEF Once
  <2>11. \A d \in Ctl : On(d, v)' /\ AtCurrent(d)' => Loadable(v)
    BY <2>9, DoesOthers DEF Once
  <2>12. QED
    BY <2>1, <2>2, <2>4, <2>10, <2>11, Zenon DEF Once
<1>5. QED
  BY <1>2, <1>3, <1>4, Zenon DEF Does

LEMMA OwnPointer ==
  ASSUME Typed, NEW v \in Version, PointerAt(v), NEW c \in Ctl, Does(c), v = ctl[c].version
  PROVE  PointerAt(v)'
<1>1. sessions[v] \in Nat /\ sessions'[v] \in {sessions[v], sessions[v] + 1}
  BY Zenon DEF Typed, Does, ReadsOn, TruncatesFile, WritesFile, TruncatesCurrent, WritesCurrent
<1>2. CASE sessions[v] = 0
  BY <1>2, FreshPointer, Zenon DEF PointerAt
<1>3. CASE sessions[v] = 1 /\ sessions'[v] = 1
  BY <1>3, OncePointer DEF PointerAt
<1>4. QED
  BY <1>1, <1>2, <1>3 DEF PointerAt

\* A version that was written once is loadable whenever the pointer names it,
\* wherever the commands that wrote it, or moved the pointer, were killed.
THEOREM PointerAfterFilesHolds == Spec => []PointerAfterFiles
<1> DEFINE Inv == \A v \in Version : PointerAt(v)
<1>1. Init => Inv
  <2> SUFFICES ASSUME Init, NEW v \in Version PROVE PointerAt(v)
    BY Zenon
  <2>1. sessions[v] = 0 /\ Fresh(v)
    BY NoCommandTyped, StoreAssumption, Zenon DEF Init, Fresh, On, File
  <2>2. QED
    BY <2>1 DEF PointerAt
<1>2. Typed /\ Inv /\ [Next]_vars => Inv'
  <2> SUFFICES ASSUME Typed, Inv, [Next]_vars, NEW v \in Version PROVE PointerAt(v)'
    BY Zenon
  <2>1. CASE UNCHANGED <<files, manifest, current, ctl, sessions, marred, crashes>>
    BY <2>1 DEF PointerAt, Fresh, Once, Stage, On, Past, AtCurrent, Loadable, CanGet
  <2>2. QED
    BY <2>1, Steps, StartPointer, OtherPointer, OwnPointer, Zenon
<1>3. Inv => PointerAfterFiles
  BY Zenon DEF PointerAt, Once, PointerAfterFiles
<1>4. QED
  BY <1>1, <1>2, <1>3, TypedHolds, PTL DEF Spec

-----------------------------------------------------------------------------
(* Versions that are written again.                                            *)

\* How far a command is with the files: it writes the first three, which
\* LoadCurrent needs, in places 4 to 6.
Place(c) == IF ctl[c].op = "load" THEN ctl[c].pc + 3 ELSE ctl[c].pc

\* The files of its version are neither what they were nor complete.
Midway(c) == Place(c) \in 4..6 /\ (Place(c) = 4 => ctl[c].half)

Virgin(v) == files[v].meta = Absent /\ current # v

\* What a command writes fits together, and is there as far as it came.
Writes(c, v) ==
  /\ ctl[c].op = "load" \/ ctl[c].pc > 1 =>
       /\ ctl[c].new.bundle \notin {Absent, Empty} /\ ctl[c].new.sig = ctl[c].new.bundle
       /\ ctl[c].new.meta \in Meta
  /\ ctl[c].op = "rollback" /\ ctl[c].pc > 1 /\ ~Midway(c) => Loadable(v)
  /\ Place(c) > 4 => files[v].bundle = ctl[c].new.bundle
  /\ Place(c) > 5 => files[v].sig = ctl[c].new.bundle
  /\ Place(c) > 6 => Loadable(v)

WholeAt(v) ==
  /\ \A c, d \in Ctl : On(c, v) /\ On(d, v) => c = d
  /\ \A c \in Ctl : On(c, v) => Writes(c, v)
  /\ (\A c \in Ctl : On(c, v) => ~Midway(c)) => Loadable(v) \/ Virgin(v)

Unmarred(v) == v \in marred \/ WholeAt(v)

LEMMA StartWhole ==
  ASSUME Typed, NEW v \in Version, Unmarred(v), NEW c \in Ctl, Starts(c)
  PROVE  Unmarred(v)'
<1>1. PICK op \in {"load", "rollback"}, w \in Version, new \in FilesType :
        /\ Begun(c, op, w, new)
        /\ op = "load" => new.bundle \in Signed /\ new.bundle.version = w /\ new.sig = new.bundle /\ new.meta \in Meta
  BY Zenon DEF Starts
<1>2. /\ ctl'[c].op = op /\ ctl'[c].version = w /\ ctl'[c].new = new /\ ctl'[c].pc = 1 /\ ctl'[c].half = FALSE
      /\ \A d \in Ctl \ {c} :
           /\ ctl'[d].op = ctl[d].op /\ ctl'[d].version = ctl[d].version /\ ctl'[d].new = ctl[d].new
           /\ ctl'[d].pc = ctl[d].pc /\ ctl'[d].half = ctl[d].half
      /\ ctl[c].op = "none" /\ marred \subseteq marred'
      /\ \A d \in Ctl \ {c} : ctl[d].op # "none" /\ ctl[d].version = w => w \in marred'
      /\ UNCHANGED <<files, current>>
  BY <1>1, Zenon DEF Begun
<1> SUFFICES ASSUME v \notin marred', WholeAt(v) PROVE WholeAt(v)'
  BY <1>2, Zenon DEF Unmarred
<1>3. (Loadable(v)' <=> Loadable(v)) /\ (Virgin(v)' <=> Virgin(v))
  BY <1>2, Zenon DEF Loadable, CanGet, Virgin
<1>4. \A d \in Ctl \ {c} : /\ On(d, v)' <=> On(d, v)
                           /\ Midway(d)' <=> Midway(d)
                           /\ Writes(d, v)' <=> Writes(d, v)
  BY <1>2, <1>3 DEF On, Midway, Place, Writes
<1>5. ~On(c, v) /\ ~Midway(c)'
  BY <1>1, <1>2 DEF On, Midway, Place
<1>6. Writes(c, v)'
  <2>1. CASE op = "load"
    BY <1>1, <1>2, <2>1, StoreAssumption DEF Writes, Place
  <2>2. CASE op = "rollback"
    BY <1>1, <1>2, <2>2 DEF Writes, Place
  <2>3. QED
    BY <2>1, <2>2, Zenon
<1>7. On(c, v)' => \A d \in Ctl \ {c} : ~On(d, v)'
  BY <1>2, <1>4, Zenon DEF On
<1>8. QED
  BY <1>3, <1>4, <1>5, <1>6, <1>7, Zenon DEF WholeAt

LEMMA OtherWhole ==
  ASSUME Typed, NEW v \in Version, Unmarred(v), NEW c \in Ctl, Does(c), ctl[c].version # v
  PROVE  Unmarred(v)'
<1>1. ~On(c, v) /\ ~On(c, v)' /\ marred \subseteq marred' /\ \A d \in Ctl \ {c} : ctl'[d] = ctl[d]
  BY DoesOthers, Zenon DEF On, Does
<1>2. files'[v] = files[v] /\ (current' = v => current = v)
  BY StoreAssumption, Zenon
     DEF Does, ReadsOn, TruncatesFile, WritesFile, TruncatesCurrent, WritesCurrent, Filled, Typed
<1> SUFFICES ASSUME WholeAt(v) PROVE WholeAt(v)'
  BY <1>1, Zenon DEF Unmarred
<1>3. (Loadable(v)' <=> Loadable(v)) /\ (Virgin(v) => Virgin(v)')
  BY <1>2, Zenon DEF Loadable, CanGet, Virgin
<1>4. \A d \in Ctl \ {c} : /\ On(d, v)' <=> On(d, v)
                           /\ Midway(d)' <=> Midway(d)
                           /\ Writes(d, v)' <=> Writes(d, v)
  BY <1>1, <1>2, <1>3 DEF On, Midway, Place, Writes
<1>5. QED
  BY <1>1, <1>3, <1>4, Zenon DEF WholeAt

\* A step of the only command on v keeps WholeAt if it keeps the following.
LEMMA OnlyOne ==
  ASSUME Typed, NEW c \in Ctl, Does(c), NEW v \in Version, v = ctl[c].version, WholeAt(v),
         On(c, v)' => Writes(c, v)',
         ~(On(c, v)' /\ Midway(c)') => Loadable(v)' \/ Virgin(v)'
  PROVE  WholeAt(v)'
<1>1. On(c, v) /\ \A d \in Ctl \ {c} : ~On(d, v)'
  BY DoesOthers, Zenon DEF On, Does, WholeAt
<1>2. QED
  BY <1>1, Zenon DEF WholeAt

LEMMA OwnWhole ==
  ASSUME Typed, Typed', NEW v \in Version, Unmarred(v), NEW c \in Ctl, Does(c), v = ctl[c].version
  PROVE  Unmarred(v)'
<1>1. /\ ctl[c].op \in {"load", "rollback"} /\ ctl[c].op # "none" /\ On(c, v)
      /\ marred \subseteq marred' /\ (Ends(c) /\ Step(c) \in File => v \in marred')
      /\ ctl[c] \in CommandType /\ ctl[c].pc \in 1..9
  BY Zenon DEF Does, On, Typed, CommandType
<1> SUFFICES ASSUME v \notin marred', WholeAt(v) PROVE WholeAt(v)'
  BY <1>1, Zenon DEF Unmarred
<1>2. Writes(c, v) /\ (~Midway(c) => Loadable(v) \/ Virgin(v))
  BY <1>1, Zenon DEF WholeAt
<1>3. /\ Place(c) = 4 <=> Step(c) = "bundle"
      /\ Place(c) = 5 <=> Step(c) = "sig"
      /\ Place(c) = 6 <=> Step(c) = "meta"
      /\ Place(c) = 7 <=> Step(c) = "compiled"
      /\ Place(c) \in 1..11
  BY <1>1, LoadPlace, RollbackPlace DEF Place
<1>4. CASE TruncatesFile(c)
  <2>1. /\ Step(c) \in File /\ Filled(v, Step(c), Empty) /\ UNCHANGED current
        /\ ctl'[c].op = ctl[c].op /\ ctl'[c].pc = ctl[c].pc /\ ctl'[c].half = TRUE /\ ctl'[c].new = ctl[c].new
        /\ ctl'[c].version = v
    BY <1>4, Zenon DEF TruncatesFile, Halfway
  <2>2. Place(c)' = Place(c) /\ Place(c) \in 4..7 /\ On(c, v)'
    BY <1>1, <1>3, <2>1 DEF Place, On, File
  <2>3. CASE Place(c) \in 4..6
    <3>1. Midway(c)'
      BY <2>1, <2>2, <2>3 DEF Midway
    <3>2. /\ Place(c) > 4 => files'[v].bundle = files[v].bundle
          /\ Place(c) > 5 => files'[v].sig = files[v].sig
      BY <1>3, <2>1, <2>3 DEF Filled, File
    <3>3. Writes(c, v)'
      BY <1>2, <2>1, <2>2, <2>3, <3>1, <3>2 DEF Writes
    <3>4. QED
      BY <2>2, <3>1, <3>3, OnlyOne, Zenon
  <2>4. CASE Place(c) = 7
    <3>1. files'[v].bundle = files[v].bundle /\ files'[v].sig = files[v].sig /\ files'[v].meta = files[v].meta
      BY <1>3, <2>1, <2>4, Zenon DEF Filled, File
    <3>2. Loadable(v)'
      BY <1>2, <2>4, <3>1 DEF Writes, Loadable, CanGet
    <3>3. Writes(c, v)'
      BY <1>2, <2>1, <2>2, <3>1, <3>2 DEF Writes
    <3>4. QED
      BY <3>2, <3>3, OnlyOne, Zenon
  <2>5. QED
    BY <2>2, <2>3, <2>4
<1>5. CASE WritesFile(c)
  <2>1. /\ Step(c) \in File /\ Filled(v, Step(c), ctl[c].new[Step(c)]) /\ UNCHANGED current /\ ctl[c].half
        /\ ctl'[c].op = ctl[c].op /\ ctl'[c].pc = ctl[c].pc + 1 /\ ctl'[c].half = FALSE
        /\ ctl'[c].new = ctl[c].new /\ ctl'[c].version = v
    BY <1>5, Zenon DEF WritesFile, Goes, File
  <2>2. Place(c)' = Place(c) + 1 /\ Place(c) \in 4..7 /\ On(c, v)'
    BY <1>1, <1>3, <2>1 DEF Place, On, File
  <2>3. /\ ctl[c].op = "load" \/ ctl[c].pc > 1
        /\ ctl[c].new.bundle \notin {Absent, Empty} /\ ctl[c].new.sig = ctl[c].new.bundle
        /\ ctl[c].new.meta \in Meta
    BY <1>1, <1>2, <2>2 DEF Writes, Place
  <2>4. CASE Place(c) \in 4..5
    <3>1. Midway(c)'
      BY <2>1, <2>2, <2>4 DEF Midway
    <3>2. files'[v].bundle = ctl[c].new.bundle /\ (Place(c) = 5 => files'[v].sig = ctl[c].new.bundle)
      BY <1>2, <1>3, <2>1, <2>3, <2>4 DEF Filled, File, Writes
    <3>3. Writes(c, v)'
      BY <2>1, <2>2, <2>3, <2>4, <3>1, <3>2 DEF Writes
    <3>4. QED
      BY <2>2, <3>1, <3>3, OnlyOne, Zenon
  <2>5. CASE Place(c) \in 6..7
    <3>1. /\ files'[v].bundle = ctl[c].new.bundle /\ files'[v].sig = ctl[c].new.bundle
          /\ files'[v].meta = IF Place(c) = 6 THEN ctl[c].new.meta ELSE files[v].meta
      BY <1>2, <1>3, <2>1, <2>5 DEF Filled, File, Writes
    <3>2. Loadable(v)'
      <4>1. CASE Place(c) = 6
        BY <2>3, <3>1, <4>1, StoreAssumption, Zenon DEF Loadable, CanGet
      <4>2. CASE Place(c) = 7
        <5>1. Loadable(v)
          BY <1>2, <4>2 DEF Writes
        <5>2. QED
          BY <2>3, <3>1, <4>2, <5>1 DEF Loadable, CanGet
      <4>3. QED
        BY <2>5, <4>1, <4>2
    <3>3. Writes(c, v)'
      BY <2>1, <2>2, <2>3, <2>5, <3>1, <3>2 DEF Writes
    <3>4. QED
      BY <3>2, <3>3, OnlyOne, Zenon
  <2>6. QED
    BY <2>2, <2>4, <2>5
<1>6. CASE ReadsOn(c) \/ TruncatesCurrent(c) \/ WritesCurrent(c)
  <2>1. UNCHANGED files /\ (Loadable(v)' <=> Loadable(v))
    BY <1>6, Zenon DEF ReadsOn, TruncatesCurrent, WritesCurrent, Loadable, CanGet
  <2>2. Step(c) \in {"bundle", "sig", "meta"} => v \in marred'
    BY <1>1, <1>6, Zenon DEF ReadsOn, TruncatesCurrent, WritesCurrent, File
  <2>3. Place(c) \notin 4..6 /\ ~Midway(c)
    BY <1>3, <2>2 DEF Midway
  <2>4. Step(c) = "current" => Loadable(v)
    <3>1. Step(c) = "current" => Place(c) > 6 \/ (ctl[c].op = "rollback" /\ ctl[c].pc > 1)
      BY <1>1, LoadPlace, RollbackPlace DEF Place
    <3>2. QED
      BY <1>2, <2>3, <3>1, Zenon DEF Writes
  <2>5. Loadable(v)' \/ Virgin(v)'
    <3>1. current' = v => current = v \/ Step(c) = "current"
      BY <1>6, StoreAssumption, Zenon DEF ReadsOn, TruncatesCurrent, WritesCurrent
    <3>2. QED
      BY <1>2, <2>1, <2>3, <2>4, <3>1, Zenon DEF Virgin
  <2>6. ASSUME On(c, v)' PROVE Writes(c, v)'
    <3>1. ~Ends(c)
      BY <2>6, NoCommandTyped, Zenon DEF On, Ends
    <3>2. /\ ctl'[c].op = ctl[c].op /\ ctl'[c].pc \in {ctl[c].pc, ctl[c].pc + 1}
          /\ ctl'[c].pc # ctl[c].pc => ctl'[c].half = FALSE
          /\ Step(c) # "get" => ctl'[c].new = ctl[c].new
      BY <1>6, <3>1, Zenon DEF ReadsOn, TruncatesCurrent, WritesCurrent, Goes, Halfway
    <3>3. CASE Step(c) = "get"
      <4>1. /\ CanGet(v) /\ ctl'[c].new.bundle = files[v].bundle /\ ctl'[c].new.sig = files[v].sig
            /\ ctl'[c].pc = ctl[c].pc + 1
        BY <1>6, <3>1, <3>3, Zenon DEF ReadsOn, TruncatesCurrent, WritesCurrent, Goes, Halfway
      <4>2. ctl[c].op = "rollback" /\ ctl[c].pc = 1
        BY <1>1, <3>3, LoadPlace, RollbackPlace, Zenon
      <4>3. Loadable(v)
        BY <1>2, <2>3, <4>1, Zenon DEF Virgin, CanGet
      <4>4. ctl'[c].op = "rollback" /\ ctl'[c].pc = 2 /\ Place(c)' = 2
        BY <3>2, <4>1, <4>2 DEF Place
      <4>5. ctl'[c].new.meta \in Meta
        <5>1. CommandOK(ctl'[c])
          BY Zenon DEF Typed
        <5>2. QED
          BY <4>4, <5>1 DEF CommandOK
      <4>6. QED
        BY <2>1, <4>1, <4>3, <4>4, <4>5 DEF Writes, Loadable, CanGet
    <3>4. CASE Step(c) # "get"
      <4>1. ctl[c].op = "rollback" => ctl[c].pc > 1
        BY <1>1, <3>4, RollbackPlace
      <4>2. Place(c)' \in {Place(c), Place(c) + 1}
        BY <1>1, <3>2 DEF Place
      <4>3. Place(c) > 6 \/ (Place(c) <= 3 /\ ctl[c].op = "rollback")
        BY <1>1, <1>3, <2>3 DEF Place
      <4>4. Loadable(v)
        BY <1>2, <2>3, <4>1, <4>3, Zenon DEF Writes
      <4>5. /\ Place(c)' > 4 => Place(c) > 4
            /\ Place(c)' > 5 => Place(c) > 5
        BY <1>3, <4>2, <4>3
      <4>6. QED
        BY <1>1, <1>2, <2>1, <3>2, <3>4, <4>1, <4>4, <4>5, Zenon DEF Writes
    <3>5. QED
      BY <3>3, <3>4, Zenon
  <2>7. QED
    BY <2>5, <2>6, OnlyOne, Zenon
<1>7. QED
  BY <1>4, <1>5, <1>6, Zenon DEF Does

\* However often it is loaded again and rolled back to, a version that current
\* names is loadable while no command writes its files, unless two commands ran
\* on it at once or one was killed on its files (Put, Rollback).
THEOREM RewrittenWholeHolds == Spec => []RewrittenWhole
<1> DEFINE Inv == \A v \in Version : Unmarred(v)
<1>1. Init => Inv
  <2> SUFFICES ASSUME Init, NEW v \in Version PROVE WholeAt(v)
    BY Zenon DEF Unmarred
  <2>1. \A c \in Ctl : ~On(c, v)
    BY NoCommandTyped, Zenon DEF Init, On
  <2>2. Virgin(v)
    BY StoreAssumption, Zenon DEF Init, Virgin, File
  <2>3. QED
    BY <2>1, <2>2, Zenon DEF WholeAt
<1>2. Typed /\ Inv /\ [Next]_vars => Inv'
  <2> SUFFICES ASSUME Typed, Inv, [Next]_vars, NEW v \in Version PROVE Unmarred(v)'
    BY Zenon
  <2>1. CASE UNCHANGED <<files, manifest, current, ctl, sessions, marred, crashes>>
    BY <2>1 DEF Unmarred, WholeAt, Writes, Midway, Place, Virgin, On, Loadable, CanGet
  <2>2. QED
    BY <2>1, Steps, StartWhole, OtherWhole, OwnWhole, Zenon
<1>3. Typed /\ Inv => RewrittenWhole
  <2> SUFFICES ASSUME Typed, Inv, current \in Version, current \notin marred,
                      \A c \in Ctl : ctl[c].version = current => Step(c) \notin File
               PROVE  Loadable(current)
    BY Zenon DEF RewrittenWhole
  <2>1. WholeAt(current) /\ ~Virgin(current)
    BY Zenon DEF Unmarred, Virgin
  <2>2. ASSUME NEW c \in Ctl, On(c, current) PROVE ~Midway(c)
    <3>1. Step(c) \notin {"bundle", "sig", "meta"} /\ ctl[c].op \in {"load", "rollback"}
      BY <2>2, Zenon DEF On, File, Typed, CommandType
    <3>2. QED
      BY <3>1, LoadPlace, RollbackPlace DEF Midway, Place
  <2>3. QED
    BY <2>1, <2>2, Zenon DEF WholeAt
<1>4. QED
  BY <1>1, <1>2, <1>3, TypedHolds, PTL DEF Spec
=============================================================================
