----------------------------- MODULE LivePolicy -----------------------------
(***************************************************************************)
(* The live policy in the kernel and the agent that replaces it.           *)
(*                                                                         *)
(* One agent process (cmd/agent/main.go) owns the enforcer's policy maps.  *)
(* At startup and on every reload tick it writes the policy of the store's *)
(* current bundle into them: policy_ctrl is deactivated, the eight rule    *)
(* maps are cleared entry by entry, the rules are put one by one, and      *)
(* policy_ctrl is activated again.  Enforcement hooks run on other CPUs at *)
(* any time in between, and read policy_ctrl and the maps one lookup at a  *)
(* time.  Any put may fail, the process may die between any two steps, and *)
(* the maps survive it when they are pinned.                               *)
(*                                                                         *)
(* What is abstracted: a rule stands for the map entries it is lowered to, *)
(* and the order in which entries are deleted or put is left open.  The    *)
(* hooked process is a tagged one; tags are the subject of TagTracking.    *)
(***************************************************************************)
EXTENDS Naturals

CONSTANTS
  Action,    \* what a tagged process may attempt (an open, a connect, ...)
  Rule,      \* compiled live rules
  Bundle,    \* compiled policies the store may hold as current
  NoBundle,  \* the nil policy
  Hook,      \* hook executions in flight at the same time
  Pinning,   \* TRUE iff bpf.pin_path is set
  MaxFaults  \* bound on failing map operations, for liveness

\* decision and covers of a rule stand for its map, key and action mask;
\* kernel is FALSE for rules with uid, binary or cgroup predicates.
ASSUME RuleAssumption ==
  Rule \subseteq [decision : {"deny", "allow"}, covers : SUBSET Action,
                  specificity : Nat, kernel : BOOLEAN]

ASSUME BundleAssumption ==
  /\ Bundle \subseteq [version : Nat \ {0}, closed : BOOLEAN, live : SUBSET Rule]
  /\ NoBundle \notin Bundle

ASSUME ModelAssumption == Action # {} /\ Pinning \in BOOLEAN /\ MaxFaults \in Nat

VARIABLES
  store,      \* the bundle LoadCurrent returns
  holder,     \* policy.Holder: the policy userspace believes in force
  agent,      \* control point of the agent's policy code
  cp,         \* argument of the applyLivePolicy in progress
  restoring,  \* that call is the restore of reloadPolicy's error path
  ctrl,       \* the policy_ctrl map's only entry
  maps,       \* rules present in the eight rule maps
  pinned,     \* how much of the map set is pinned under bpf.pin_path
  faults,     \* failed map operations so far
  hook        \* hook executions

agentVars == <<holder, agent, cp, restoring>>
kernelVars == <<ctrl, maps>>
vars == <<store, agentVars, kernelVars, pinned, faults, hook>>

-----------------------------------------------------------------------------
(* Policies, and the verdict a hook draws from them.                       *)

\* LoadLive skips rules whose predicates the kernel cannot evaluate.
Loadable(b) == {r \in b.live : r.kernel}

Matching(rules, decision, a) ==
  {r \in rules : r.decision = decision /\ a \in r.covers}

\* A matching allow rule of higher specificity suppresses the deny.  Every
\* matching entry is taken to be found here; what one longest-prefix lookup
\* misses is the subject of PathRules.
Blocked(deny, allow) ==
  /\ deny # {}
  /\ ~ \E e \in allow : \A d \in deny : e.specificity > d.specificity

\* The verdict of a complete rule set on an action.
Denies(rules, a) == Blocked(Matching(rules, "deny", a), Matching(rules, "allow", a))

ZeroCtrl == [active |-> FALSE, closed |-> FALSE, version |-> 0]

CtrlFor(b, active) == [active |-> active, closed |-> b.closed, version |-> b.version]

\* Exactly b is live.
KernelHas(b) == maps = Loadable(b) /\ ctrl = CtrlFor(b, TRUE)

\* Hooks run once the enforcer's links are attached.
Attached == agent \notin {"down", "pin"}

Applying == agent \in {"deactivate", "clear", "load"}

\* basis and overlapped are history: the maps when the hook saw enforcement
\* live, and whether a policy change began after that.
IdleHook == [pc |-> "idle", cgroup |-> FALSE, action |-> CHOOSE a \in Action : TRUE,
             deny |-> {}, denied |-> FALSE, judged |-> FALSE,
             basis |-> {}, overlapped |-> FALSE]

Init ==
  /\ store \in Bundle
  /\ holder = NoBundle
  /\ agent = "down"
  /\ cp = NoBundle
  /\ restoring = FALSE
  /\ ctrl = ZeroCtrl
  /\ maps = {}
  /\ pinned = "none"
  /\ faults = 0
  /\ hook = [h \in Hook |-> IdleHook]

-----------------------------------------------------------------------------
(* policyctl load or rollback makes another bundle current.                *)

Publish(b) ==
  /\ store # b
  /\ store' = b
  /\ UNCHANGED <<agentVars, kernelVars, pinned, faults, hook>>

-----------------------------------------------------------------------------
(* Process lifetime: LoadEnforcer, attach, exit.                           *)

\* A complete set of pinned maps is reused as it was left.
StartReusingPins ==
  /\ agent = "down"
  /\ pinned = "full"
  /\ agent' = "attached"
  /\ UNCHANGED <<store, holder, cp, restoring, kernelVars, pinned, faults, hook>>

\* No pins, partial pins, or pins the collection rejects: fresh zeroed maps.
StartFresh ==
  /\ agent = "down"
  /\ pinned' = "none"
  /\ ctrl' = ZeroCtrl
  /\ maps' = {}
  /\ agent' = IF Pinning THEN "pin" ELSE "attached"
  /\ UNCHANGED <<store, holder, cp, restoring, faults, hook>>

\* PinPolicyMaps pins the maps one after the other, before any attach.
PinMaps ==
  /\ agent = "pin"
  /\ \/ pinned = "none" /\ pinned' = "partial" /\ agent' = agent
     \/ pinned = "partial" /\ pinned' = "full" /\ agent' = "attached"
  /\ UNCHANGED <<store, holder, cp, restoring, kernelVars, faults, hook>>

\* The process dies, or leaves through os.Exit on a startup error.  Its links
\* go with it; a hook in flight ends on maps nobody changes any more.
Exit ==
  /\ agent # "down"
  /\ agent' = "down"
  /\ holder' = NoBundle
  /\ cp' = NoBundle
  /\ restoring' = FALSE
  /\ IF pinned = "full" THEN UNCHANGED kernelVars
                        ELSE ctrl' = ZeroCtrl /\ maps' = {}
  /\ hook' = [h \in Hook |-> IdleHook]
  /\ UNCHANGED <<store, pinned, faults>>

-----------------------------------------------------------------------------
(* applyLivePolicy, from startup, from reloadPolicy and from its restore.  *)

\* main loads the current policy once its hooks are attached.
BeginStartup ==
  /\ agent = "attached"
  /\ cp' = store
  /\ agent' = "deactivate"
  /\ UNCHANGED <<store, holder, restoring, kernelVars, pinned, faults, hook>>

\* Mutation: only higher versions are reloaded, so a rollback is not.
MutBeginReload ==
  /\ agent = "idle"
  /\ store.version > holder.version
  /\ cp' = store
  /\ agent' = "deactivate"
  /\ UNCHANGED <<store, holder, restoring, kernelVars, pinned, faults, hook>>

\* A reload tick; it returns early when only the bundle and not its version
\* changed.
BeginReload ==
  /\ agent = "idle"
  /\ store.version # holder.version
  /\ cp' = store
  /\ agent' = "deactivate"
  /\ UNCHANGED <<store, holder, restoring, kernelVars, pinned, faults, hook>>

\* Mutation: policy_ctrl is rewritten without clearing enforcement_active.
MutDeactivate ==
  /\ agent = "deactivate"
  /\ ctrl' = CtrlFor(cp, ctrl.active)
  /\ agent' = "clear"
  /\ hook' = [h \in Hook |-> [hook[h] EXCEPT !.overlapped = TRUE]]
  /\ UNCHANGED <<store, holder, cp, restoring, maps, pinned, faults>>

\* SetPolicyCtrl with the new policy's fail direction and version.
Deactivate ==
  /\ agent = "deactivate"
  /\ ctrl' = CtrlFor(cp, FALSE)
  /\ agent' = "clear"
  /\ hook' = [h \in Hook |-> [hook[h] EXCEPT !.overlapped = TRUE]]
  /\ UNCHANGED <<store, holder, cp, restoring, maps, pinned, faults>>

\* Mutation: stale entries survive into the next policy.
MutClear ==
  /\ agent = "clear"
  /\ agent' = "load"
  /\ UNCHANGED <<store, holder, cp, restoring, kernelVars, pinned, faults, hook>>

\* clearPolicyMaps deletes entry by entry.
Clear ==
  /\ agent = "clear"
  /\ \/ \E r \in maps : maps' = maps \ {r} /\ agent' = agent
     \/ maps = {} /\ maps' = maps /\ agent' = "load"
  /\ UNCHANGED <<store, holder, cp, restoring, ctrl, pinned, faults, hook>>

LoadRule(r) ==
  /\ agent = "load"
  /\ r \in Loadable(cp) \ maps
  /\ maps' = maps \cup {r}
  /\ UNCHANGED <<store, agentVars, ctrl, pinned, faults, hook>>

\* Mutation: a reload forgets holder.Swap.
MutActivateNoSwap ==
  /\ agent = "load"
  /\ Loadable(cp) \subseteq maps
  /\ ctrl' = CtrlFor(cp, TRUE)
  /\ agent' = IF holder # NoBundle THEN "idle" ELSE "swap"
  /\ restoring' = FALSE
  /\ UNCHANGED <<store, holder, cp, maps, pinned, faults, hook>>

\* Mutation: policy_ctrl is activated before the last rule is in.
MutActivateEarly ==
  /\ agent = "load"
  /\ ctrl' = CtrlFor(cp, TRUE)
  /\ agent' = IF restoring THEN "idle" ELSE "swap"
  /\ restoring' = FALSE
  /\ UNCHANGED <<store, holder, cp, maps, pinned, faults, hook>>

\* writePolicyCtrl, after the last rule.
Activate ==
  /\ agent = "load"
  /\ Loadable(cp) \subseteq maps
  /\ ctrl' = CtrlFor(cp, TRUE)
  /\ agent' = IF restoring THEN "idle" ELSE "swap"
  /\ restoring' = FALSE
  /\ UNCHANGED <<store, holder, cp, maps, pinned, faults, hook>>

\* holder.Swap, after the kernel already enforces the new policy.
SwapHolder ==
  /\ agent = "swap"
  /\ holder' = cp
  /\ agent' = "idle"
  /\ UNCHANGED <<store, cp, restoring, kernelVars, pinned, faults, hook>>

\* Mutation: the restore runs on a nil policy.
MutReloadFails ==
  /\ Applying /\ holder # NoBundle /\ ~restoring
  /\ faults < MaxFaults
  /\ faults' = faults + 1
  /\ cp' = NoBundle
  /\ restoring' = TRUE
  /\ agent' = "deactivate"
  /\ UNCHANGED <<store, holder, kernelVars, pinned, hook>>

\* A map operation of a reload fails: the previous policy is applied again.
ReloadFails ==
  /\ Applying /\ holder # NoBundle /\ ~restoring
  /\ faults < MaxFaults
  /\ faults' = faults + 1
  /\ cp' = holder
  /\ restoring' = TRUE
  /\ agent' = "deactivate"
  /\ UNCHANGED <<store, holder, kernelVars, pinned, hook>>

\* A map operation of the restore fails: reloadPolicy gives up.
RestoreFails ==
  /\ Applying /\ restoring
  /\ faults < MaxFaults
  /\ faults' = faults + 1
  /\ restoring' = FALSE
  /\ agent' = "idle"
  /\ UNCHANGED <<store, holder, cp, kernelVars, pinned, hook>>

-----------------------------------------------------------------------------
(* One execution of an enforcement hook: fmod_ret and LSM programs go      *)
(* through enforce_gate, cgroup/connect programs through                   *)
(* cgroup_should_enforce, and all of them read the flag again before they  *)
(* look rules up.                                                          *)

HookStep(h, from, update) ==
  /\ hook[h].pc = from
  /\ hook' = [hook EXCEPT ![h] = update]
  /\ UNCHANGED <<store, agentVars, kernelVars, pinned, faults>>

GoTo(h, pc) == [hook[h] EXCEPT !.pc = pc]

Finish(h, denied) == [hook[h] EXCEPT !.pc = "done", !.denied = denied]

Enter(h, a, cgroup) ==
  /\ Attached
  /\ HookStep(h, "idle", [IdleHook EXCEPT !.pc = "gate", !.action = a, !.cgroup = cgroup])

\* First look at enforcement_active.
Gate(h) ==
  HookStep(h, "gate", GoTo(h, IF ctrl.active THEN "live"
                              ELSE IF hook[h].cgroup THEN "regime" ELSE "closed"))

\* fail_closed_regime answers no when the flag is set by now.
Regime(h) ==
  HookStep(h, "regime", IF ctrl.active THEN Finish(h, FALSE) ELSE GoTo(h, "closed"))

ReadClosed(h) ==
  HookStep(h, "closed", IF ctrl.closed THEN GoTo(h, "live") ELSE Finish(h, FALSE))

\* Second look at enforcement_active; a clear flag denies here.
ReadLive(h) ==
  HookStep(h, "live", IF ctrl.active
                      THEN [GoTo(h, "deny") EXCEPT !.basis = maps, !.overlapped = FALSE]
                      ELSE Finish(h, TRUE))

\* The deny maps are looked up before the allow maps.
ReadDeny(h) ==
  HookStep(h, "deny", [GoTo(h, "allow") EXCEPT !.deny = Matching(maps, "deny", hook[h].action)])

\* Mutation: any matching allow rule suppresses the deny.
MutReadAllow(h) ==
  HookStep(h, "allow",
    [Finish(h, hook[h].deny # {} /\ Matching(maps, "allow", hook[h].action) = {})
       EXCEPT !.judged = TRUE])

ReadAllow(h) ==
  HookStep(h, "allow",
    [Finish(h, Blocked(hook[h].deny, Matching(maps, "allow", hook[h].action)))
       EXCEPT !.judged = TRUE])

Return(h) == HookStep(h, "done", IdleHook)

RunHook(h) ==
  \/ Gate(h) \/ Regime(h) \/ ReadClosed(h) \/ ReadLive(h)
  \/ ReadDeny(h) \/ ReadAllow(h) \/ Return(h)

-----------------------------------------------------------------------------

\* The steps of one applyLivePolicy and of its callers that need no luck.
AgentStep ==
  \/ BeginStartup \/ BeginReload \/ Deactivate \/ Clear
  \/ \E r \in Rule : LoadRule(r)
  \/ Activate \/ SwapHolder

Next ==
  \/ \E b \in Bundle : Publish(b)
  \/ StartReusingPins \/ StartFresh \/ PinMaps \/ Exit
  \/ AgentStep
  \/ ReloadFails \/ RestoreFails
  \/ \E h \in Hook, a \in Action, cgroup \in BOOLEAN : Enter(h, a, cgroup)
  \/ \E h \in Hook : RunHook(h)

Spec == Init /\ [][Next]_vars

\* The agent's background goroutine keeps running while the process lives.
FairSpec == Spec /\ WF_vars(AgentStep)

-----------------------------------------------------------------------------
HookPC == {"idle", "gate", "regime", "closed", "live", "deny", "allow", "done"}

HookType == [pc : HookPC, cgroup : BOOLEAN, action : Action, deny : SUBSET Rule,
             denied : BOOLEAN, judged : BOOLEAN, basis : SUBSET Rule, overlapped : BOOLEAN]

\* Type invariant: the agent never applies a nil policy, and holds one while it
\* waits for the next reload tick.
TypeOK ==
  /\ store \in Bundle
  /\ holder \in Bundle \cup {NoBundle}
  /\ agent \in {"down", "pin", "attached", "idle", "deactivate", "clear", "load", "swap"}
  /\ cp \in Bundle \cup {NoBundle}
  /\ Applying \/ agent = "swap" => cp # NoBundle
  /\ agent = "idle" => holder # NoBundle
  /\ restoring \in BOOLEAN
  /\ ctrl \in [active : BOOLEAN, closed : BOOLEAN, version : Nat]
  /\ maps \subseteq Rule
  /\ pinned \in {"none", "partial", "full"}
  /\ faults \in 0..MaxFaults
  /\ hook \in [Hook -> HookType]

\* Whenever enforcement_active is set, the rule maps hold exactly the loadable
\* rules of one bundle, whose version and fail direction policy_ctrl carries:
\* neither a failed load, a restore, nor a crash that leaves pinned maps behind
\* ever lets a mixture of two policies go live (applyLivePolicy, LoadLive).
PolicyNotTorn ==
  ctrl.active => \E b \in Bundle : KernelHas(b)

\* Between two policy changes userspace and kernel agree: when reloadPolicy is
\* not running and the kernel enforces anything, it enforces the holder's
\* policy, whatever errors and restores came before (reloadPolicy, Holder).
HolderMatchesKernel ==
  agent = "idle" /\ ctrl.active => KernelHas(holder)

\* A hook that found enforcement live, and during whose lookups no policy
\* change began, returns the verdict of the one complete policy then in the
\* maps (enforce_open_verdict, enforce_connect_parsed under applyLivePolicy).
VerdictIsThePolicys ==
  \A h \in Hook :
    hook[h].pc = "done" /\ hook[h].judged /\ ~hook[h].overlapped =>
      \E b \in Bundle : /\ Loadable(b) = hook[h].basis
                        /\ hook[h].denied <=> Denies(Loadable(b), hook[h].action)

\* As long as enforcement_active stays set, neither policy_ctrl nor any rule map
\* changes: every policy change clears the flag first (applyLivePolicy).
LiveMapsFrozen ==
  [][ctrl.active /\ ctrl'.active => UNCHANGED kernelVars]_vars

\* The policy the kernel enforces, as one value.
WholePolicy(rules, c) == [rules |-> rules, version |-> c.version, closed |-> c.closed]
InForce == IF ctrl.active THEN WholePolicy(maps, ctrl) ELSE NoBundle

Abstract ==
  INSTANCE PolicySwap WITH
    Policy <- {WholePolicy(Loadable(b), b) : b \in Bundle},
    NoPolicy <- NoBundle,
    inForce <- InForce

\* The entry-by-entry reload, with its failures, restores and crashes, is an
\* atomic swap of whole policies with a gap in between: no hook can ever find
\* the flag set over a policy that is not complete, nor one policy replaced by
\* another under a set flag (applyLivePolicy, LoadLive).
SwapsWholePolicies == Abstract!Spec

\* A bundle that becomes current with a version other than the holder's, and
\* stays current, is eventually live in the kernel although map operations fail
\* a bounded number of times, unless the agent exits (backgroundTasks,
\* reloadPolicy).  A rollback is such a bundle.
StoreReachesKernel ==
  \A b \in Bundle :
    (store = b /\ agent = "idle" /\ holder.version # b.version)
      ~> \/ store # b \/ ~Attached
         \/ agent = "idle" /\ KernelHas(b)

-----------------------------------------------------------------------------
(* The inductive invariant behind the theorems of LivePolicyProofs.        *)

\* Where the agent is in applyLivePolicy determines what the maps may hold.
AgentInv ==
  /\ agent \in {"down", "pin", "attached"} => holder = NoBundle /\ ~restoring
  /\ restoring => Applying /\ holder # NoBundle /\ cp = holder
  /\ agent \in {"clear", "load"} => ~ctrl.active
  /\ agent = "load" => maps \subseteq Loadable(cp)
  /\ agent = "swap" => KernelHas(cp)
  /\ agent \in {"idle", "deactivate"} /\ holder # NoBundle /\ ctrl.active => KernelHas(holder)

\* What a hook past its live check knows as long as no policy change began.
HookInv ==
  \A h \in Hook :
    /\ ~Attached => hook[h] = IdleHook
    /\ hook[h].judged => hook[h].pc = "done"
    /\ hook[h].pc \in {"deny", "allow"} /\ ~hook[h].overlapped =>
          ctrl.active /\ hook[h].basis = maps
    /\ hook[h].pc = "allow" /\ ~hook[h].overlapped =>
          hook[h].deny = Matching(hook[h].basis, "deny", hook[h].action)

\* Control points, maps, holder and hooks hang together: the invariant every
\* step of the agent and of the hooks preserves.
Inductive ==
  /\ TypeOK /\ PolicyNotTorn /\ HolderMatchesKernel /\ VerdictIsThePolicys
  /\ AgentInv /\ HookInv

-----------------------------------------------------------------------------
(* What the documentation says and the code does not do.                   *)

\* config.md, fail direction "closed": while enforcement_active is clear,
\* tagged traffic is denied until maps are live again.  So an action that every
\* policy of a fail-closed store denies is denied by every hook that found
\* enforcement live; yet a hook between its live check and its lookups reads
\* the maps clearPolicyMaps is emptying (enforce_path, enforce_connect_parsed).
ClosedDeniesUntilLive ==
  (\A b \in Bundle : b.closed) =>
    \A h \in Hook : hook[h].pc = "done" /\ hook[h].judged /\ ~hook[h].denied =>
      \E b \in Bundle : ~Denies(Loadable(b), hook[h].action)

\* config.md, fail direction "open": while enforcement_active is clear traffic is
\* allowed.  Yet a hook that passed its gate before the flag was cleared is
\* denied by the second look at it (enforcement_live).
OpenAllowsUntilLive ==
  (\A b \in Bundle : ~b.closed) =>
    \A h \in Hook : hook[h].pc = "done" /\ hook[h].denied => hook[h].judged

\* config.md: reload "failures log a warning and keep the previous policy".  Yet
\* when the restore fails too and the store is rolled back to the holder's
\* version, no later tick repairs the kernel (reloadPolicy's version check).
FailedReloadKeepsPolicy ==
  \A b \in Bundle : (store = b /\ agent = "idle" /\ ~ctrl.active)
                      ~> (store # b \/ ctrl.active \/ ~Attached)
=============================================================================
