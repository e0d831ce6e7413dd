# A TLA+ verification of ai-agent-validator

The agent finds AI agents among the processes of a host, follows their
descendants, and has eBPF programs deny what a signed policy forbids them. This
directory holds TLA+ models of the parts where that can go wrong between two
steps, the TLC configurations that check them on small instances, and TLAPS
proofs about each of them. Paths below are relative to `src/agent/`.

`PROJECT.json` maps definitions to source lines and lists runs, mutants,
findings, hazards and theorems. To repeat a run, `tlc -config X.cfg M`; to check
the proofs, `tlapm M.tla` for each `M` that ends in `Proofs`.

## The system and its parts

| Part | State | Operations | Model |
|------|-------|------------|-------|
| Live policy (`cmd/agent/main.go`, `policy/mapload.go`, `ebpfloader`) | `policy_ctrl`, eight rule maps, pins, `Holder` | startup, reload tick, deactivate, clear, load, activate, restore, swap | `LivePolicy` |
| Hooks (`bpf/enforcer.bpf.c`) | none of their own | gate, live check, lookups, verdict | `LivePolicy`, `SyscallStaging`, `PathRules`, `ConnectRules`, `DenyConsumer` |
| Enrolment (`enroll`, `proctable`, `bpf/enroll.bpf.c`) | `tagged_pids`, event ring, process table | fork, exec, move, exit, action, bootstrap, re-sync, prune | `TagTracking` |
| Staging (`bpf/enroll.bpf.c`, `enforcer.bpf.c`) | pending maps by process, slots by CPU | tracepoint, hook | `SyscallStaging` |
| Version store (`policy/store.go`, `loader.go`) | version files, manifest, `current` | load, rollback, `LoadCurrent` | `PolicyStore` |
| Path rules (`policy/compile.go`, `eval.go`, `mapload.go`) | `path_deny`, `path_allow`, `inode_deny`, `inode_allow` | load a rule, evaluate | `PathRules` |
| Connect rules (same files) | address tries, port tables | load a rule, evaluate | `ConnectRules` |
| Deny consumer (`deny`) | deny ring, connect cache | read a record, report it | `DenyConsumer` |
| Feedback (`feedback`, `debugsrv`, `cmd/shim`) | decisions by agent and recent, file | record, ask, poll, show | `FeedbackShim` |

How they interact: `policyctl` writes the store; the agent reads it and replaces
the kernel's policy; tracepoints tag processes, stage system call arguments and
report events; the engine handles the events and tags more processes; hooks read
tags, staged arguments and policy; a denial is sent to the deny consumer, which
names policy, rule and target; the hub keeps the decision, and the shim that ran
the command looks it up. What each model takes from the others is a
nondeterministic input: `LivePolicy` lets the store change at any time and its
hooks belong to tagged processes, `SyscallStaging` tags processes at any time and
has a fixed policy, `PathRules` and `ConnectRules` start from parsed rules.
`DenyConsumer` is composed with the loader through the loader's abstract
specification `PolicySwap`, which `LivePolicy` is proved to implement;
`FeedbackShim` takes decided denials as a queue.

The behaviours that are hard to test: hooks running on other CPUs in the middle
of a reload; a reload whose restore fails too; a crash that leaves pinned maps;
forks that overtake the events about their parents; pids reused; full rings and
maps; threads that share a staging key; entries that outlive their call; commands
that interleave file by file; rules that overwrite or hide each other's entries;
files and homes that change while rules on them are loaded; records reported after
the policy was replaced; decisions found by a pid that belonged to another process.

## The modules

**LivePolicy.** One agent, a store that changes at will, and hook executions.
The steps of `applyLivePolicy` are actions (`Deactivate`, `Clear` one entry at a
time, `LoadRule`, `Activate`), `SwapHolder` is `holder.Swap`, `ReloadFails` and
`RestoreFails` are the error paths of `reloadPolicy`. A hook is a sequence of
single reads: `Gate`, `Regime`, `ReadClosed`, `ReadLive`, `ReadDeny`, `ReadAllow`.
`Exit` is a crash or `os.Exit`; the maps survive it when all are pinned. A rule
stands for the map entries it becomes. The hook fields `basis` and `overlapped`
are history. **PolicySwap** is what the loader promises: policies are put in
force and withdrawn as a whole, with a gap in between.

**TagTracking.** Processes with pids and start times; `Fork`, `Exec`, `Exit` and
actions run the tracepoints and queue events in a ring that may be full. The
engine's handlers take them in order. Bootstrap and re-sync are another
goroutine: a listing, a snapshot, and writes that come later. A process is enrolled
in one of two ways (`TryEnroll`). Mode B looks at the program; whether it matches a
fingerprint is an input of `Exec` and travels in the record. Mode A looks at the
cgroup, which `matchCgroup` reads from `/proc` when the record is handled: `Move`
changes a process's cgroup at any time, and by then the pid may be free or another
process's. `PromptReuse` says whether a pid may be reused while records about it are
queued.

The field `agent` of a process is the truth the code tries to track, and history. A
process is `seen` to belong to an agent if it called exec on an agent program, was in
an agent's cgroup when an exec of its was handled, ran such a program or was in such a
cgroup when the bootstrap came by, or was forked by a seen process. It is `claimed` if
it called exec in an agent's cgroup and that is not handled yet; one that leaves the
cgroup before is claimed no more, since the code cannot know. It is `found` if it is
older than the tracepoints and was below an agent's process when the bootstrap came
by. What a found process forks is seen once the process is in the table (`ChildSeen`).
When a process becomes seen, so does what it forked before, as far as the records of
those forks are queued (`See`, `SeeForks`). A visit of the bootstrap to one pid is one
step.

**SyscallStaging.** Threads of processes enter a system call on one CPU, where
the tracepoint stages the argument, and reach the hook on the same or another.
Arguments may be unreadable; the pending maps have a capacity.

**PolicyStore.** Each command is the sequence of its file writes, and a write is
a truncation followed by a fill. Commands crash between any two. A signature is
the bundle it signs.

**PathRules, ConnectRules.** `Init` picks a bundle that `Compile` accepts, each step
of `PathRules` puts an entry of a rule and each step of `ConnectRules` a rule, the
way `mapload.go` does; what a refused rule has put before it is refused stays. The
kernel's lookups and cascade of verdicts are operators,
and so is `EvaluateActions`, the reference they are compared with on every input. In
`PathRules` exact paths are also put under inode and device, `/home/*/.ssh/*` is
expanded to the homes there are, and files and homes change at any time (`Change`,
`ChangeHome`). `StatDev` and `SDev` are the two encodings of a device number.

**DenyConsumer.** It begins with the hooks attached, to empty maps or to pinned maps
of an earlier agent, and no policy in the holder: calls may be denied and the ring
fill before the consumer runs. `Deny` is a denial under a rule, `emit_deny_ex`;
`DenyUnrecorded` is one of the returns of a hook that deny without a rule and send no
record: fail direction closed, or an unlink or rename without a known path.
`Withdraw`, `Apply`, `ApplyFails` and `Swap` are the steps of a reload as far as the
consumer can tell them apart, and change the kernel's policy by steps of `PolicySwap`;
`RecordConnectDest` and `Forget` change the connect cache; `Read` and `Emit` are the
consumer. `installs`, `log` and the fields `n`, `to`, `nth` and `calm` of a record are
history.

**FeedbackShim.** A file is the decisions that parse, whether its last line is open,
and whether two decisions are glued on it. `made` is history: what the running agent
decided, from which `Askable` says what the hub owes the shim. So are `log` and `cut`,
all decisions and the places at which the agent died on an open line, from which
`Filed` says what the file owes, without reference to how it is read. `Record` and
`EndLine` are the two writes of `Hub.Record`; `Crash` and `Restart` lose the hub and
may leave a line open. The shim reads the clock, starts its command, and after a
failure polls: the file, the hub over HTTP (either may fail), a match by pid.
Processes take and free pids meanwhile.

## What the runs check

Runs that pass:

| Run | Shows |
|-----|-------|
| `live_policy` | A set `enforcement_active` always stands over one whole policy; at rest it is the holder's; a hook no policy change overlaps returns that policy's verdict; the loader implements `PolicySwap`; a bundle with another version than the holder's reaches the kernel if it stays current |
| `tag_tracking` | Caught up and with nothing lost, every live process seen to belong to an agent is tagged in the kernel and known to userspace, enrolled by program or by cgroup, prompt pid reuse included; at every moment before that it is tagged or the record that gets it tagged is queued; only the late exit record of an earlier process with its pid takes a tag from a live process |
| `tag_bootstrap` | The same tags for processes that ran before the agent, pids reused promptly: those that run an agent program or are in an agent's cgroup when the bootstrap comes by, the older ones below them, and what they forked since the tracepoints or fork later; each is tagged in the end, unless it exits, leaves the cgroup before its exec is handled, or something was lost; nothing is said of what a process found below an agent forks before it is in the table itself |
| `staging` | A call whose argument was stored and not overwritten by a sibling thread is judged on its own argument; a process with an entry is never judged on another's (unlinks excepted); no unlink or rename passes unjudged |
| `store` | `current` names complete files while a version was written once; a version written again, by loads or by rollbacks, is complete whenever nobody writes it, unless two commands ran on it at once or one was killed on its files; a load that reports success and that nothing overlapped took effect, whatever crashes came before |
| `path_rules` | For rules without exact paths and `path_not_in` the kernel denies nothing `EvaluateActions` does not deny, and names a rule that matches; of deny rules for one action it misses nothing but a pattern's own directory and homes that were not there; a rule on a file follows the file through renames |
| `connect_rules` | For rules of one predicate, of the destination's family, that neither deny port 0 nor allow ports, a denial is reported under a rule that matches; rules of that kind miss nothing, away from the addresses of allow rules, if there is no `dest_ip_not_in` and at most one `dest_port_not_in`; a single deny rule is exact on every port but 0, unless it pairs addresses with `dest_port_in` or gives a list both ways |
| `deny_consumer` | A decision names the policy and the rule that denied, unless the start or a reload came between, and never a policy older than the one just replaced; its target is the denied call's; each denial is reported once and in order, except those without a rule or without room in the ring, and each record in the end |
| `feedback_shim` | The shim shows its own command's decision, or one of another process with its pid in the cases the property names; it shows one if one was made before the command ended and can still be had; it ends |

Three runs find the code and a document apart; each checks one property that states
the quoted sentence, and `PROJECT.json` has the quotations.

| Run | What the code does |
|-----|--------------------|
| `live_policy_fail_closed` | A hook past its live check reads maps that are being emptied, and allows |
| `tag_reuse` | An entry without start time hands its tag to the next process with the pid |
| `connect_deny_allow` | Of a deny and an allow rule on one network the allow rule wins, where `policy.md:74`, `../architecture.md:518` and `EvaluateActions` have the deny rule win |

`../architecture.md:505` calls an allow rule a carve-out from a broader deny, and
`packs/README.md:57-58` asks for one that is more specific; so `DenyBeatsAllow` of
`ConnectRules` asks nothing of allow rules that are narrower than the deny rule.
`AllowAlwaysBeatsDeny` of `ConnectRulesProofs` states what the kernel does instead.

Modelling met more such places. The modules state each sentence as a property, in
the section at their end. TLC refutes it under the configuration named here;
these are kept to be repeated by hand and are not among the runs of `PROJECT.json`.

| Property | Sentence | Config | What the code does |
|----------|----------|----------|--------------------|
| `OpenAllowsUntilLive` | `config.md:143-145` | `LivePolicyFailOpen.cfg` | A hook past its gate is denied by the second look at the flag |
| `FailedReloadKeepsPolicy` | `config.md:160-161` | `LivePolicyKeep.cfg` | After a failed restore and a rollback to the holder's version nothing repairs the kernel |
| `ExitDeletesTag` | `bpf/enroll.bpf.c:105` | `TagExit.cfg` | A re-sync tags a pid again after its exit was handled |
| `UnresolvedDenied` | `config.md:132-134` | `StagingUnresolved.cfg` | An unreadable rename is judged on what another call of the process staged |
| `ManifestListsAll` | `policy.md:96` | `StoreManifest.cfg` | Of two overlapping loads one is missing in the manifest |
| `DenyBeatsAllow` (`PathRules`) | `policy.md:74` | `PathDenyAllow.cfg` | A more specific allow suppresses a deny |
| `VerbsMerged` | `config.md:136-138` | `PathVerbs.cfg` | Verbs of rules with a common prefix are not merged if their specificities differ |
| `ExcludedNotDenied` | `policy.md:58` | `PathNotIn.cfg` | `path_not_in` has no effect in the kernel |
| `EntryMatched` | `policy.md:57` | `PathExact.cfg` | An exact path also matches what continues it |
| `InodeKeyMirrors` | `policy/mapload.go:197` | `PathInode.cfg` | `stat` and the kernel encode device numbers differently; a rule on a file that is on a block device never applies |
| `EachDenyExplained` | `config.md:186-187` | `FeedbackExplained.cfg` | No record of a denial without a rule or when the ring is full, no rationale when a reload removed the rule |
| `WouldHaveBlocked` | `../README.md:46-47` | `ConnectPaired.cfg` | `dest_ip_in` with `dest_port_in` blocks the ports everywhere |
| `ExceptedNotDenied` | `policy/mapload.go:299` | `ConnectExcept.cfg` | `dest_ip_not_in` with `dest_port_in` blocks the excepted networks too |
| `V6NotMatched` | `packs/generic-agent.yaml:27-28` | `ConnectV6.cfg` | A rule on IPv4 exceptions matches IPv6 |
| `NoTies` | `../architecture.md:520-521` | `ConnectTies.cfg` | The order of two accepted rules decides |

`policy.md:59-62` calls `dest_ip_in` and `dest_port_in` lists of what is allowed and
`dest_ip_not_in` and `dest_port_not_in` lists of what is denied. In the code they are
predicates, and the rule's decision says what happens to what they match; the models
follow the code.

Every property of a passing run has a mutant: a definition `Mut...` with a
plausible bug under which TLC finds that property violated.

## Bounds, and why they are enough

- `LivePolicy`: two actions, five rules, three bundles of which two share a
  version, one hook, two faults. Two faults are a failed reload and a failed
  restore. Hooks do not affect each other, and the theorems cover any number of
  them, of faults, rules and bundles.
- `TagTracking`: three pids are a root, a child and a grandchild, or a pid reused
  beside two others; `MaxTime` bounds forks, execs, moves and actions. Ring and tag map
  (`RingCap`, `MaxTags`) are small enough to overflow in `tag_tracking`.
  `WalkDepth` stands for the 16 ancestors of `ensure_tagged_from_ancestor`.
  `tag_bootstrap` starts with any subset of two pids in use, one below the other or
  not, and allows one fork, exec, move or action and any exits while the bootstrap runs
  or after it. Symmetry of pids is used in `tag_tracking` only, which has no liveness
  property. The theorems cover any number of pids, of running processes, of events and
  any bound on the clock.
- `SyscallStaging`: a process with two threads, one with a single thread, two
  CPUs, a denied and an allowed target, three calls: one to leave an entry
  behind, one to be judged and one to interfere. A pending map holds one entry, so
  that the second process finds it full. Calls of different kinds share no map,
  so `staging` explores one kind per behaviour (`MCSpec`), and a call that the
  tracepoint cannot read has one choice of targets (`MCArg`): neither the programs
  nor the properties look at them.
- `PolicyStore`: two versions, one of them signed with two contents; two
  processes that run three commands, one crash.
- `PathRules`: all bundles of up to three rules over nested and unrelated
  directories, of up to two with exact paths or homes, or without `path_in`, and
  single rules with `path_not_in`. Three files share an inode number on different
  devices, two paths name any of them, there are two homes, and names and homes change
  twice.
- `ConnectRules`: all single rules over lists of networks of both families and of
  ports, and all bundles of up to three rules of one predicate, loadable or not; IPv4
  addresses of two bits and IPv6 addresses of three. Port 0, the key of the catch-all,
  is among the ports that rules name and destinations have. The theorems cover all
  bundles, lists, addresses and paths.
- `DenyConsumer`: two policies, one of which lacks one of two rules, so that a rule
  may be missing when its record is reported; a ring of two records and three denials,
  so that records queue up, the order can go wrong and the third may find the ring
  full; two loads are the first and one that fails or replaces it. Some behaviours
  start with the policy an earlier agent left in the pinned maps. The denied calls have
  one target and the cache holds any (`MCNext`): a decision with the other one is
  wrong. The theorems cover any number of each.
- `FeedbackShim`: lists of one decision and two denials, so that each list can
  overflow; two pids and two processes, so that a pid is reused or another process's
  decision displaces the command's; one crash. The grace period is no tick and the
  clock has two: one decision can be too old. The first process gets a fixed pid
  (`MCFeedbackShim`): pids are interchangeable, and symmetry sets are not sound for
  the liveness property. A third decision, made after two were glued on one line, is
  out of these bounds. The theorems cover it, and any limits, pids, agents and counts.

Deadlock checking is off where the system may stop: the rule modules end once the
bundle is loaded, and the clocks of `TagTracking` and `FeedbackShim`, the commands
of `PolicyStore` and the denials of `DenyConsumer` run out.

## Fairness

`LivePolicy!FairSpec` has weak fairness of `AgentStep`: the goroutine of
`backgroundTasks` keeps taking ticks and runs each reload to its end. Failures,
crashes, publications and hooks are not fair. `TagTracking!FairSpec` has weak fairness
of event handling (the consume loop) and of a scan that has begun; when the snapshot
ticker fires is left open. `DenyConsumer!FairSpec` has weak fairness of `Read \/
Emit`, the loop of `Consumer.Run`, and so has the instance `MCSpec`; denials, reloads
and the cache are not fair. `FeedbackShim!FairSpec` has weak fairness of the shim's
polling and of the clock; the agent and the other processes are not fair, so the shim
ends without them.

## What is proved

Each component's theorems are in a module of their own, `LivePolicyProofs`,
`TagTrackingProofs` and so on. They state every invariant and every action property
that a passing run checks, and the refinement of `PolicySwap`, for all values of the
constants that the named assumption of the component's module admits. Those
assumptions say that constants are of the right kind (sets of records, numbers, a
sentinel outside a set), and that the set of pids is finite.

### The live policy

`LivePolicyProofs` proves, for every set of actions, rules, bundles and hooks and
any bound on faults, with or without pinning:

- `InvariantHolds`: the inductive invariant `Inductive`;
- `TypeCorrect`, `NeverTorn`, `HolderAgrees`, `VerdictSound`: the four safety
  invariants of `live_policy`;
- `MapsFrozen`: while the flag stays set, no policy map changes;
- `RefinesPolicySwap`: the detailed loader implements `PolicySwap`.

The assumptions are those of `LivePolicy`: rules and bundles are records of the
right shape, `NoBundle` is not a bundle, there is an action, versions are positive.

`PolicyNotTorn` and `VerdictIsThePolicys` are not inductive. `AgentInv` adds what
the agent's control point says of the maps: the flag is clear while they are
cleared and loaded, they hold only rules of the policy being loaded while it is
loaded, and before `Deactivate` they still hold the holder's policy if the flag
is set. `HookInv` adds what a hook past its live check may rely on until a policy
change begins: the flag is still set, the maps are the ones it saw, and the deny
rules it found are theirs. `Deactivate` is the only step that can take this away,
and it marks the hook as overlapped. The proof has a lemma for each of types,
policy and hooks, with one case per action, for the agent's steps and for the
hooks' steps.

### Staging

`SyscallStagingProofs` proves `TypeCorrect`, `VerdictIsOwn` (`OwnVerdict`),
`UnlinkJudged` (`UnlinkNeverUnjudged`) and `JudgedOnOwn` (`NeverOthersTarget`), for
all processes, threads, CPUs, targets, map capacities and numbers of calls, from
`StagingAssumption`. The invariant `StagingInv` adds to the two state properties
what holds between tracepoint and hook: while a call is `fresh`, its process has an
entry, and it is the one the call staged. A sibling's tracepoint is the only step
that can replace it, and clears `fresh`.

### The deny consumer

`DenyConsumerProofs` proves `TypeCorrect`, `AttributedInForce`, `TargetOwn` and
`OnceInOrder`: the four invariants of `deny_consumer`, for all policies, processes
and targets, any capacity of the ring and any number of denials and loads, from
`ConsumerAssumption`. `AttributedToPolicyInForce` speaks of reports only and is not
inductive. `HolderInv` says where the holder's policy stands among those that came
into force: it is the last, and the last but one between activation and
`Holder.Swap`. `RecordInv` says of a record under way that it is about a policy that
came into force, and that if nothing happened since, this is the holder's.
`ReportedOnceInOrder` is about the concatenation of log, record at hand and ring; its
proof has lemmas on concatenations, and shows that `Read` and `Emit` leave the
sequence as it is, `Deny` adds the largest number at its end, and `DenyUnrecorded`
adds it to the set of those that have no record.

### The version store

`PolicyStoreProofs` proves `TypeCorrect`, `LoadTakesEffectHolds`,
`PointerAfterFilesHolds` and `RewrittenWholeHolds`, the four properties of `store`,
for any signed bundles, any number of policyctl processes, commands and crashes, from
`StoreAssumption`.

The lemma `Steps` says what a step of a command can do, as one of five shapes (`Does`):
it reads on or ends, truncates or fills a file of its version, truncates or fills
`current`. The invariants are shown against these shapes:

- `Typed` holds that the bundle in a version's directory, in a command's hands and in
  the agent's is of that version.
- `AloneInv`: while a command is marked `alone` all others are idle, and the files a
  load has passed hold what it wrote.
- `PointerAt(v)`: as long as no command began to write version `v`, its files are
  absent, `current` is elsewhere and the commands on `v` are at their first step
  (`Fresh`). After the first, only one command is past its first write, it is a load,
  and `Stage` says which files it has completed; metadata that parses means that
  bundle and signature are complete, since `Put` writes them first (`Once`).
  Rollback gets past its `Get` only then. From the second session on nothing is
  claimed.
- `Unmarred(v)` takes over where `PointerAt(v)` ends. Unless two commands ran on `v` at
  once or one was killed on its files, at most one command is on `v`; what it writes
  fits together, and is there as far as it came (`Writes`); and while it is not midway
  through the three files that `LoadCurrent` needs, they are complete, or the version
  has no metadata and is not current. A rollback writes what it read, which was
  complete, since it was alone on the version from its `Get` on.

### Enrolment

`TagTrackingProofs` proves `TypeCorrect`, `AgentsAreTagged` (`LineageTagged`),
`AgentsAreKnown` (`LineageKnown`), `AgentsNotForgotten` (`TaggedOrQueued`) and
`TagsStick` (`TagSticks`), from `TagAssumption`: for any finite set of pids, any
processes running when the agent starts, any capacity of ring and tag map, with prompt
reuse of pids and without.

`LineageTagged` speaks of states in which userspace has caught up; the invariant
`TagInv` (theorem `TagInvariant`) says what holds on the way there. Its part `Base`
always holds: types, and that events carry start times of the past. Its part
`Tracked` holds while nothing was lost:

- `Backed(ring, table, p, n)` says that `p` is known as an agent's process when event
  `n` of the queue is handled: it is known now, or an earlier event makes it known, and
  no exit of `p` comes in between. Every live seen process is backed at the end of the
  queue, and the parent of every queued fork that is seen is backed at that fork.
- Of every live claimed process an exec is queued, with no exit of the pid after it,
  and it is still in the cgroup (`ClaimsQueued`). So the read of the cgroup that
  handles this exec finds it, and it is backed from then on. Handling the exec also
  makes seen what the process forked before; those forks are queued behind the exec,
  and are backed because their parent now is (`SeeHistory`).
- Entries with a start time, queued execs and the process itself agree on the start
  time as long as no exit of the pid comes in between. So `OnExec` discards an entry
  only if its process is gone.
- Userspace's entries are tagged in the kernel.
- A process that the bootstrap found is below the seeds in the listing while the
  passes run, then among the pids to be tagged, then tagged. This needs that no
  process older than the tracepoints has an exit in the queue, and that the listing
  has the parents right for those that still have one.

`HistoryOf` collects the first three, as a predicate of a queue, a table and a set of
processes, so that a step can be taken apart: first the table changes
(`TableHistory`), then processes become seen (`SeeHistory`), then the first event
leaves the queue (`HandlesHistory`). There is one lemma for what any system call does
(`SendsHistory`), and one for each action.

### Connect rules

`ConnectRulesProofs` proves `TypeCorrect`, `DenialsAttributed`, `DenyListsComplete`
and `DenyRulesExact` for all bundles, of any length and with lists of any length, and
all destinations, and `AllowAlwaysBeatsDeny`, which no run checks. `LoadInvariant` says
of each of the four maps that it has the keys of the rules loaded so far, those that a
refused rule put included, and no others, and under each key the entry of some rule
that puts it (`Filled`); which one depends on the order, and none of
the theorems needs to know. The rest is reasoning about the loaded maps: that a trie
lookup returns an entry if any key is a prefix, what a key that is hit says of its
rule, and the returns of `enforce_connect_parsed` in turn.

### Path rules

`PathRulesProofs` proves `DenialsSound`, `DenialsAttributed`, `DenyListsComplete` and
`FileRulesFollowFiles` for all bundles, paths, files and homes and any changes of names
and homes, from `PathAssumption`. The merge in `putMergedPathRule` looks an entry up by
longest prefix and stores the result under the longer key, so the entry of a key may
be that of a broader rule. `TriesBacked` is the invariant that bears this: an entry's
rule, and for each action in its mask some rule, has a pattern at or above the key. It
holds for the longer key if it holds for the shorter. `TriesFilled` says that each
pattern that had its turn has its key, with the homes there were; `Inodes` says that
the inode tables hold the files that were found. Completeness takes an argument about
the longest prefix: what hides the key of a rule is a longer key, whose mask is not
empty, and with one action in the bundle it denies too.

### Feedback and shim

`FeedbackShimProofs` proves `TypeCorrect`, `OwnIsShown` (`ShownIsOwn`) and
`DecisionIsShown` (`RecordedIsShown`), from `ShimAssumption`, for any limits of hub,
file and request, any grace and wait, and any number of processes, denials and
crashes. In the invariant `ShimInv`, `Written` says that the file has, in order, every
decision but those on lines that a crash left open and another decision was glued to;
so the last lines that are read have what is `Filed`. `Stored` says that what file,
hub and shim hold was decided, and that the hub's lists are the newest of what this
agent made; the lemma behind it is that dropping the oldest after each append keeps
the newest. `PidsKnown` says of each denial and decision about the command's pid that
it is the command's, a later process's, foreign, or too old, and of those of the
command that they have its pid and are recent. `Shows` says that what is due is in the
list the shim collected; `MatchPID` finds a decision if the list has one that fits.

## What is only model-checked

Liveness under fairness (`StoreReachesKernel`, `EventuallyTagged`,
`EveryRecordReported`, `ShimEnds`) is out of the prover's reach. So is induction over
data with the library's induction theorems; where a proof needs it (a longest prefix,
the first of the newest decisions), it takes a least counterexample from the
well-foundedness of the numbers instead. `ConnectRules!LoadLive`, a recursive function
that only `NoTies` uses, has no theorem.

Properties with a condition hold under it only: the lineage properties need that
nothing was lost, and leave out what a process found below an agent forks before it is
in the table, and what one in an agent's cgroup forks that exits or leaves it before
its exec is handled; `PointerAfterFiles` speaks of versions written once,
`RewrittenWhole` of versions that no two commands ran on at once and no kill met; the
rule modules' properties name the shapes of rules they cover.

Attempts to prove them changed some of these conditions. An earlier `LineageTagged`
held on the instances and not in general, because it marked the processes it left out
too narrowly; it is now stated with `seen` and `found`, and covers prompt reuse of pids
and queued forks too. The properties of `ConnectRules` held because the
bundles checked had no rules on port 0, no lists, one family of addresses or no allow
rules on ports; the conditions are now in the properties (`Plain`, `SameFamily`) and
the bundles have such rules. `KernelDenySound` and `DenialAttributed` of `PathRules`
had left `path_not_in` to their comment and to the bundles; `Plain` states it.

## What is not modelled

- `bpf/vmlinux.h`: type declarations generated from a kernel, without operations. It
  has 150,327 of the 151,973 lines of C in the repository. The models are about the
  other two C files, of which they cover most, and about the Go packages.
- The LSM programs on `path_unlink` and `path_rename`, which decide nothing, the one
  on `socket_connect`, which judges like `enforce_connect`, and the statistics.
- Uid, binary and cgroup predicates are never loaded into the kernel (`LivePolicy`
  has them as rules with `kernel` FALSE).
- An exec record without a file name, for which `handleExec` reads the program from
  `/proc` as late as the cgroup.
- A write to the feedback file that fails: `Hub.Record` ignores the error.
- The wording of decisions and the process table's columns in reports: formatting.
- A file that grows beyond the tail `RecentFromFile` reads: it would only shorten the
  list further.
- Parsing, signing, promotion, summaries, fingerprints and event decoding: pure
  functions of one input. Their results are inputs of the models.
- Configuration, logging, reporting, diagnostics, program attachment: I/O.
- Threads as entries of `tagged_pids`: the fork tracepoint reports thread ids
  too; `TagTracking` has processes only.

## What could follow

1. Compositions: staging with the live policy (a reload between tracepoint and
   hook), the store with the agent's reload (same version, other content).
2. Threads in `TagTracking`.
3. Properties of bundles with several verbs, and of rules with `path_not_in`, once the
   kernel evaluates them as `EvaluateActions` does.
