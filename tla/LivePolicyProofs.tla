-------------------------- MODULE LivePolicyProofs --------------------------
(* Theorems about LivePolicy, for any rules, bundles, hooks and number of   *)
(* faults.  Inductive is the invariant; each lemma shows that one part of   *)
(* it survives every step, one case per action.                             *)
EXTENDS LivePolicy, TLAPS

\* The steps of the agent and of the store, and the steps of one hook.
AgentNext ==
  \/ \E b \in Bundle : Publish(b)
  \/ StartReusingPins \/ StartFresh \/ PinMaps \/ Exit
  \/ AgentStep
  \/ ReloadFails \/ RestoreFails

HookNext(h) ==
  \/ \E a \in Action, cgroup \in BOOLEAN : Enter(h, a, cgroup)
  \/ RunHook(h)

\* A step is the agent's, the store's or one hook's.
LEMMA NextSplit == Next <=> AgentNext \/ \E h \in Hook : HookNext(h)
BY Zenon DEF Next, AgentNext, HookNext

\* What every bundle of the store offers.
LEMMA BundleFields ==
  ASSUME NEW b \in Bundle
  PROVE  /\ b.version \in Nat /\ b.closed \in BOOLEAN /\ b # NoBundle
         /\ Loadable(b) \subseteq Rule
         /\ \A x \in BOOLEAN : CtrlFor(b, x) \in [active : BOOLEAN, closed : BOOLEAN, version : Nat]
BY BundleAssumption, Zenon DEF Loadable, CtrlFor

\* The state of a hook that is not running has the type of a hook.
LEMMA IdleHookTyped == IdleHook \in HookType
<1>1. (CHOOSE a \in Action : TRUE) \in Action
  BY ModelAssumption, Zenon
<1>2. QED
  BY <1>1, Zenon DEF IdleHook, HookType, HookPC

\* A hook step changes the hooks only, and its own entry only.
LEMMA HookFrame ==
  ASSUME TypeOK, NEW h \in Hook, HookNext(h)
  PROVE  /\ UNCHANGED <<store, agentVars, kernelVars, pinned, faults>>
         /\ hook'[h] \in HookType
         /\ hook' = [hook EXCEPT ![h] = hook'[h]]
<1>1. hook[h] \in HookType /\ hook \in [Hook -> HookType]
  BY Zenon DEF TypeOK
<1>2. ASSUME NEW a \in Action, NEW cgroup \in BOOLEAN, Enter(h, a, cgroup)
      PROVE  /\ UNCHANGED <<store, agentVars, kernelVars, pinned, faults>>
             /\ \E v \in HookType : hook' = [hook EXCEPT ![h] = v]
  <2> DEFINE v == [IdleHook EXCEPT !.pc = "gate", !.action = a, !.cgroup = cgroup]
  <2>1. v \in HookType
    BY IdleHookTyped, Zenon DEF HookType, HookPC
  <2>2. QED
    BY <1>2, <2>1, Zenon DEF Enter, HookStep
<1>3. ASSUME RunHook(h)
      PROVE  /\ UNCHANGED <<store, agentVars, kernelVars, pinned, faults>>
             /\ \E v \in HookType : hook' = [hook EXCEPT ![h] = v]
  <2>1. \A pc \in HookPC : GoTo(h, pc) \in HookType
    BY <1>1, Zenon DEF GoTo, HookType
  <2>2. \A d \in BOOLEAN : Finish(h, d) \in HookType
    BY <1>1, Zenon DEF Finish, HookType, HookPC
  <2>3. CASE Gate(h)
    BY <2>1, <2>3, Zenon DEF Gate, HookStep, HookPC
  <2>4. CASE Regime(h)
    BY <2>1, <2>2, <2>4, Zenon DEF Regime, HookStep, HookPC
  <2>5. CASE ReadClosed(h)
    BY <2>1, <2>2, <2>5, Zenon DEF ReadClosed, HookStep, HookPC
  <2>6. CASE ReadLive(h)
    <3>1. [GoTo(h, "deny") EXCEPT !.basis = maps, !.overlapped = FALSE] \in HookType
      BY <2>1, ZenonT(30) DEF HookType, HookPC, TypeOK
    <3>2. QED
      BY <2>1, <2>2, <2>6, <3>1, Zenon DEF ReadLive, HookStep
  <2>7. CASE ReadDeny(h)
    <3>1. [GoTo(h, "allow") EXCEPT !.deny = Matching(maps, "deny", hook[h].action)] \in HookType
      BY <2>1, Zenon DEF HookType, HookPC, TypeOK, Matching
    <3>2. QED
      BY <2>7, <3>1, Zenon DEF ReadDeny, HookStep
  <2>8. CASE ReadAllow(h)
    <3> DEFINE d == Blocked(hook[h].deny, Matching(maps, "allow", hook[h].action))
    <3>1. d \in BOOLEAN
      BY Zenon DEF Blocked
    <3>2. [Finish(h, d) EXCEPT !.judged = TRUE] \in HookType
      BY <2>2, <3>1, Zenon DEF HookType
    <3>3. QED
      BY <2>8, <3>2, Zenon DEF ReadAllow, HookStep
  <2>9. CASE Return(h)
    BY <2>9, IdleHookTyped, Zenon DEF Return, HookStep
  <2>10. QED
    BY <1>3, <2>3, <2>4, <2>5, <2>6, <2>7, <2>8, <2>9, Zenon DEF RunHook
<1>4. /\ UNCHANGED <<store, agentVars, kernelVars, pinned, faults>>
      /\ \E v \in HookType : hook' = [hook EXCEPT ![h] = v]
  BY <1>2, <1>3, Zenon DEF HookNext
<1>5. QED
  BY <1>1, <1>4, Zenon

-----------------------------------------------------------------------------
(* The type invariant.                                                     *)

\* The initial state has its type.
LEMMA InitTyped == Init => TypeOK
<1> SUFFICES ASSUME Init PROVE TypeOK
  BY Zenon
<1>1. hook \in [Hook -> HookType]
  BY IdleHookTyped, Zenon DEF Init
<1>2. ctrl \in [active : BOOLEAN, closed : BOOLEAN, version : Nat]
  BY Zenon DEF Init, ZeroCtrl
<1>3. faults \in 0..MaxFaults
  BY ModelAssumption DEF Init
<1>4. maps \subseteq Rule
  BY Zenon DEF Init
<1>5. QED
  BY <1>1, <1>2, <1>3, <1>4, Zenon DEF Init, TypeOK, Applying

\* The agent keeps the types; no step applies a nil policy.
LEMMA AgentNextTyped ==
  ASSUME TypeOK, AgentInv, AgentNext
  PROVE  TypeOK'
<1> USE DEF TypeOK, Applying, agentVars, kernelVars
<1>1. ASSUME NEW b \in Bundle, Publish(b) PROVE TypeOK'
  BY <1>1 DEF Publish
<1>2. CASE StartReusingPins
  BY <1>2, Zenon DEF StartReusingPins
<1>3. CASE StartFresh
  BY <1>3, Zenon DEF StartFresh, ZeroCtrl
<1>4. CASE PinMaps
  BY <1>4, Zenon DEF PinMaps
<1>5. CASE Exit
  <2>1. hook' \in [Hook -> HookType]
    BY <1>5, IdleHookTyped, Zenon DEF Exit
  <2>2. ctrl' \in [active : BOOLEAN, closed : BOOLEAN, version : Nat] /\ maps' \subseteq Rule
    <3>1. CASE pinned = "full"
      BY <1>5, <3>1, Zenon DEF Exit
    <3>2. CASE pinned # "full"
      <4>1. ctrl' = ZeroCtrl /\ maps' = {}
        BY <1>5, <3>2, Zenon DEF Exit
      <4>2. ZeroCtrl \in [active : BOOLEAN, closed : BOOLEAN, version : Nat]
        BY Zenon DEF ZeroCtrl
      <4>3. QED
        BY <4>1, <4>2, Zenon
    <3>3. QED
      BY <3>1, <3>2, Zenon
  <2>3. QED
    BY <1>5, <2>1, <2>2, Zenon DEF Exit
<1>6. CASE BeginStartup
  BY <1>6, BundleFields, Zenon DEF BeginStartup
<1>7. CASE BeginReload
  BY <1>7, BundleFields, Zenon DEF BeginReload
<1>8. CASE Deactivate
  <2>1. hook' \in [Hook -> HookType]
    BY <1>8, ZenonT(30) DEF Deactivate, HookType
  <2>2. ctrl' \in [active : BOOLEAN, closed : BOOLEAN, version : Nat]
    BY <1>8, BundleFields, Zenon DEF Deactivate
  <2>3. QED
    BY <1>8, <2>1, <2>2, Zenon DEF Deactivate
<1>9. CASE Clear
  BY <1>9, Zenon DEF Clear
<1>10. ASSUME NEW r \in Rule, LoadRule(r) PROVE TypeOK'
  BY <1>10, Zenon DEF LoadRule
<1>11. CASE Activate
  <2>1. ctrl' \in [active : BOOLEAN, closed : BOOLEAN, version : Nat]
    BY <1>11, BundleFields, Zenon DEF Activate
  <2>2. QED
    BY <1>11, <2>1, Zenon DEF Activate, AgentInv
<1>12. CASE SwapHolder
  BY <1>12, Zenon DEF SwapHolder
<1>13. CASE ReloadFails
  BY <1>13, ModelAssumption DEF ReloadFails
<1>14. CASE RestoreFails
  <2>1. faults' \in 0..MaxFaults
    BY <1>14, ModelAssumption DEF RestoreFails
  <2>2. holder' # NoBundle
    BY <1>14, Zenon DEF RestoreFails, AgentInv
  <2>3. QED
    BY <1>14, <2>1, <2>2, Zenon DEF RestoreFails
<1>15. QED
  BY <1>1, <1>2, <1>3, <1>4, <1>5, <1>6, <1>7, <1>8, <1>9, <1>10, <1>11, <1>12, <1>13, <1>14, Zenon
     DEF AgentNext, AgentStep

\* The hooks keep the types.
LEMMA HookNextTyped ==
  ASSUME TypeOK, NEW h \in Hook, HookNext(h)
  PROVE  TypeOK'
<1>1. hook' \in [Hook -> HookType]
  BY HookFrame, Zenon DEF TypeOK
<1>2. QED
  BY HookFrame, <1>1, Zenon DEF TypeOK, agentVars, kernelVars, Applying

-----------------------------------------------------------------------------
(* The agent's control points and the kernel's maps.                       *)

PolicyInv == AgentInv /\ PolicyNotTorn /\ HolderMatchesKernel

\* The agent's control point, the maps and the holder stay in agreement through
\* reloads, failures, restores and crashes.
LEMMA AgentNextPolicy ==
  ASSUME TypeOK, PolicyInv, AgentNext
  PROVE  PolicyInv'
<1> USE DEF PolicyInv, AgentInv, PolicyNotTorn, HolderMatchesKernel, KernelHas, Loadable, CtrlFor,
            Applying, agentVars, kernelVars
<1>1. ASSUME NEW b \in Bundle, Publish(b) PROVE PolicyInv'
  BY <1>1, Zenon DEF Publish
<1>2. CASE StartReusingPins
  BY <1>2, Zenon DEF StartReusingPins
<1>3. CASE StartFresh
  BY <1>3, Zenon DEF StartFresh, ZeroCtrl
<1>4. CASE PinMaps
  BY <1>4, Zenon DEF PinMaps
<1>5. CASE Exit
  BY <1>5 DEF Exit, ZeroCtrl
<1>6. CASE BeginStartup
  BY <1>6, Zenon DEF BeginStartup
<1>7. CASE BeginReload
  BY <1>7, Zenon DEF BeginReload
<1>8. CASE Deactivate
  BY <1>8, Zenon DEF Deactivate
<1>9. CASE Clear
  BY <1>9, Zenon DEF Clear
<1>10. ASSUME NEW r \in Rule, LoadRule(r) PROVE PolicyInv'
  BY <1>10, Zenon DEF LoadRule
<1>11. CASE Activate
  <2>1. maps' = Loadable(cp) /\ cp \in Bundle
    BY <1>11, Zenon DEF Activate, TypeOK
  <2>2. QED
    BY <1>11, <2>1, Zenon DEF Activate, TypeOK
<1>12. CASE SwapHolder
  BY <1>12, Zenon DEF SwapHolder
<1>13. CASE ReloadFails
  BY <1>13, Zenon DEF ReloadFails
<1>14. CASE RestoreFails
  BY <1>14, Zenon DEF RestoreFails
<1>15. QED
  BY <1>1, <1>2, <1>3, <1>4, <1>5, <1>6, <1>7, <1>8, <1>9, <1>10, <1>11, <1>12, <1>13, <1>14, Zenon
     DEF AgentNext, AgentStep

\* Hooks only read the maps.
LEMMA HookNextPolicy ==
  ASSUME TypeOK, PolicyInv, NEW h \in Hook, HookNext(h)
  PROVE  PolicyInv'
BY HookFrame, Zenon DEF PolicyInv, AgentInv, PolicyNotTorn, HolderMatchesKernel, KernelHas,
                 Applying, agentVars, kernelVars

-----------------------------------------------------------------------------
(* The hooks, relative to the agent.                                       *)

\* What HookInv and VerdictIsThePolicys say of one hook.
OneHookInv(h) ==
  /\ ~Attached => hook[h] = IdleHook
  /\ hook[h].judged => hook[h].pc = "done"
  /\ hook[h].pc \in {"deny", "allow"} /\ ~hook[h].overlapped =>
        ctrl.active /\ hook[h].basis = maps
  /\ hook[h].pc = "allow" /\ ~hook[h].overlapped =>
        hook[h].deny = Matching(hook[h].basis, "deny", hook[h].action)
  /\ hook[h].pc = "done" /\ hook[h].judged /\ ~hook[h].overlapped =>
        \E b \in Bundle : /\ Loadable(b) = hook[h].basis
                          /\ hook[h].denied <=> Denies(Loadable(b), hook[h].action)

\* What is said of all hooks is said of each.
LEMMA HookInvSplit == HookInv /\ VerdictIsThePolicys <=> \A h \in Hook : OneHookInv(h)
BY Zenon DEF HookInv, VerdictIsThePolicys, OneHookInv

\* A hook that is not running satisfies its invariant.
LEMMA IdleHookInv ==
  ASSUME NEW h \in Hook, hook[h] = IdleHook
  PROVE  OneHookInv(h)
BY DEF OneHookInv, IdleHook

\* No agent step but Deactivate, Exit and StartFresh touches what a hook past
\* its live check relies on, and those three mark or end the hook.
LEMMA AgentNextHook ==
  ASSUME TypeOK, AgentInv, AgentNext, NEW h \in Hook, OneHookInv(h)
  PROVE  OneHookInv(h)'
<1>1. CASE Deactivate
  <2>1. hook'[h] = [hook[h] EXCEPT !.overlapped = TRUE] /\ hook[h] \in HookType
    BY <1>1, Zenon DEF Deactivate, TypeOK
  <2>2. Attached'
    BY <1>1, Zenon DEF Deactivate, Attached
  <2>3. /\ hook'[h].overlapped
        /\ hook'[h].judged = hook[h].judged
        /\ hook'[h].pc = hook[h].pc
    BY <2>1, Zenon DEF HookType
  <2>4. QED
    BY <2>2, <2>3, Zenon DEF OneHookInv
<1>2. CASE Exit
  BY <1>2, IdleHookInv, Zenon DEF Exit, OneHookInv, IdleHook
<1>3. CASE StartFresh
  <2>1. hook[h] = IdleHook /\ hook' = hook
    BY <1>3, Zenon DEF StartFresh, OneHookInv, Attached
  <2>2. QED
    BY <2>1 DEF OneHookInv, IdleHook
<1>4. CASE Clear \/ \E r \in Rule : LoadRule(r)
  <2>1. ~ctrl.active /\ hook' = hook /\ Attached'
    BY <1>4, Zenon DEF Clear, LoadRule, AgentInv, Attached, agentVars
  <2>2. QED
    BY <2>1, Zenon DEF OneHookInv
<1>5. CASE Activate
  <2>1. ~ctrl.active /\ hook' = hook /\ Attached' /\ maps' = maps
    BY <1>5, Zenon DEF Activate, AgentInv, Attached
  <2>2. QED
    BY <2>1, Zenon DEF OneHookInv
<1>6. ASSUME UNCHANGED <<kernelVars, hook>>, ~Attached' => ~Attached
      PROVE  OneHookInv(h)'
  BY <1>6, Zenon DEF OneHookInv, kernelVars
<1>7. CASE \/ \E b \in Bundle : Publish(b)
           \/ StartReusingPins \/ PinMaps \/ BeginStartup \/ BeginReload
           \/ SwapHolder \/ ReloadFails \/ RestoreFails
  <2>1. UNCHANGED <<kernelVars, hook>>
    BY <1>7, Zenon DEF Publish, StartReusingPins, PinMaps, BeginStartup, BeginReload,
                SwapHolder, ReloadFails, RestoreFails
  <2>2. ~Attached' => ~Attached
    BY <1>7, Zenon DEF Publish, StartReusingPins, PinMaps, BeginStartup, BeginReload,
                SwapHolder, ReloadFails, RestoreFails, Attached, agentVars
  <2>3. QED
    BY <1>6, <2>1, <2>2, Zenon
<1>8. QED
  BY <1>1, <1>2, <1>3, <1>4, <1>5, <1>7, Zenon DEF AgentNext, AgentStep

\* A hook's own step.
LEMMA HookNextOwn ==
  ASSUME TypeOK, PolicyNotTorn, NEW h \in Hook, HookNext(h), OneHookInv(h)
  PROVE  OneHookInv(h)'
<1>1. /\ UNCHANGED <<ctrl, maps, agent>>
      /\ hook \in [Hook -> HookType] /\ hook[h] \in HookType
  BY HookFrame, Zenon DEF TypeOK, kernelVars, agentVars
<1>2. Attached' = Attached
  BY <1>1, Zenon DEF Attached
<1>3. CASE \E a \in Action, cgroup \in BOOLEAN : Enter(h, a, cgroup)
  <2>1. PICK a \in Action, cgroup \in BOOLEAN : Enter(h, a, cgroup)
    BY <1>3, Zenon
  <2>2. hook'[h] = [IdleHook EXCEPT !.pc = "gate", !.action = a, !.cgroup = cgroup]
    BY <1>1, <2>1, Zenon DEF Enter, HookStep
  <2>3. hook'[h].pc = "gate" /\ hook'[h].judged = FALSE /\ Attached
    BY <2>1, <2>2, Zenon DEF IdleHook, Enter
  <2>4. QED
    BY <1>2, <2>3, Zenon DEF OneHookInv
<1>4. CASE Return(h)
  <2>1. hook'[h] = IdleHook
    BY <1>1, <1>4, Zenon DEF Return, HookStep
  <2>2. QED
    BY <2>1 DEF OneHookInv, IdleHook
<1>5. CASE Gate(h) \/ Regime(h) \/ ReadClosed(h) \/ ReadLive(h) \/ ReadDeny(h) \/ ReadAllow(h)
  <2> hook[h].pc # "idle" /\ hook[h].pc # "done"
    BY <1>5, Zenon DEF Gate, Regime, ReadClosed, ReadLive, ReadDeny, ReadAllow, HookStep
  <2>1. Attached /\ Attached'
    BY <1>2 DEF OneHookInv, IdleHook
  <2>2. hook[h].judged = FALSE
    BY <1>1, Zenon DEF OneHookInv, HookType
  <2>3. ASSUME NEW pc \in {"regime", "closed", "live"}, hook'[h] = GoTo(h, pc)
        PROVE  OneHookInv(h)'
    <3>1. hook'[h].pc = pc /\ hook'[h].judged = FALSE
      BY <1>1, <2>2, <2>3, Zenon DEF GoTo, HookType
    <3>2. QED
      BY <2>1, <3>1, Zenon DEF OneHookInv
  <2>4. ASSUME NEW d \in BOOLEAN, hook'[h] = Finish(h, d)
        PROVE  OneHookInv(h)'
    <3>1. hook'[h].pc = "done" /\ hook'[h].judged = FALSE
      BY <1>1, <2>2, <2>4, Zenon DEF Finish, HookType
    <3>2. QED
      BY <2>1, <3>1, Zenon DEF OneHookInv
  <2>5. CASE Gate(h)
    BY <1>1, <2>3, <2>5, Zenon DEF Gate, HookStep
  <2>6. CASE Regime(h)
    BY <1>1, <2>3, <2>4, <2>6, Zenon DEF Regime, HookStep
  <2>7. CASE ReadClosed(h)
    BY <1>1, <2>3, <2>4, <2>7, Zenon DEF ReadClosed, HookStep
  <2>8. CASE ReadLive(h) /\ ~ctrl.active
    BY <1>1, <2>4, <2>8, Zenon DEF ReadLive, HookStep
  <2>9. CASE ReadLive(h) /\ ctrl.active
    <3>1. hook'[h] = [GoTo(h, "deny") EXCEPT !.basis = maps, !.overlapped = FALSE]
      BY <1>1, <2>9, Zenon DEF ReadLive, HookStep
    <3>2. hook'[h].pc = "deny" /\ hook'[h].judged = FALSE /\ hook'[h].basis = maps
      BY <1>1, <2>2, <3>1, Zenon DEF GoTo, HookType
    <3>3. QED
      BY <1>1, <2>1, <2>9, <3>2, Zenon DEF OneHookInv
  <2>10. CASE ReadDeny(h)
    <3>1. hook'[h] = [GoTo(h, "allow") EXCEPT !.deny = Matching(maps, "deny", hook[h].action)]
          /\ hook[h].pc = "deny"
      BY <1>1, <2>10, Zenon DEF ReadDeny, HookStep
    <3>2. /\ hook'[h].pc = "allow" /\ hook'[h].judged = FALSE
          /\ hook'[h].basis = hook[h].basis /\ hook'[h].action = hook[h].action
          /\ hook'[h].overlapped = hook[h].overlapped
          /\ hook'[h].deny = Matching(maps, "deny", hook[h].action)
      BY <1>1, <2>2, <3>1, Zenon DEF GoTo, HookType
    <3>3. QED
      BY <1>1, <2>1, <3>1, <3>2, Zenon DEF OneHookInv
  <2>11. CASE ReadAllow(h)
    <3> DEFINE d == Blocked(hook[h].deny, Matching(maps, "allow", hook[h].action))
    <3>1. hook'[h] = [Finish(h, d) EXCEPT !.judged = TRUE] /\ hook[h].pc = "allow"
      BY <1>1, <2>11, Zenon DEF ReadAllow, HookStep
    <3> HIDE DEF d
    <3>2. /\ hook'[h].pc = "done" /\ hook'[h].denied = d
          /\ hook'[h].basis = hook[h].basis /\ hook'[h].action = hook[h].action
          /\ hook'[h].overlapped = hook[h].overlapped
      BY <1>1, <3>1, Zenon DEF Finish, HookType
    <3>3. ASSUME ~hook[h].overlapped
          PROVE  \E b \in Bundle : Loadable(b) = hook[h].basis /\ d = Denies(Loadable(b), hook[h].action)
      <4>1. PICK b \in Bundle : KernelHas(b)
        BY <3>1, <3>3, Zenon DEF OneHookInv, PolicyNotTorn
      <4>2. Loadable(b) = maps /\ hook[h].basis = maps
            /\ hook[h].deny = Matching(maps, "deny", hook[h].action)
        BY <3>1, <3>3, <4>1, Zenon DEF OneHookInv, KernelHas
      <4>3. d = Denies(maps, hook[h].action)
        BY <4>2, Zenon DEF d, Denies
      <4>4. QED
        BY <4>2, <4>3, Zenon
    <3>4. QED
      BY <2>1, <3>2, <3>3, Zenon DEF OneHookInv
  <2>12. QED
    BY <1>5, <2>5, <2>6, <2>7, <2>8, <2>9, <2>10, <2>11, Zenon
<1>6. QED
  BY <1>3, <1>4, <1>5, Zenon DEF HookNext, RunHook

\* The hooks do not disturb one another.
LEMMA HookNextOther ==
  ASSUME TypeOK, NEW g \in Hook, HookNext(g), NEW h \in Hook, h # g, OneHookInv(h)
  PROVE  OneHookInv(h)'
<1>1. UNCHANGED <<ctrl, maps, agent>> /\ hook'[h] = hook[h]
  BY HookFrame, Zenon DEF TypeOK, kernelVars, agentVars
<1>2. QED
  BY <1>1, Zenon DEF OneHookInv, Attached

-----------------------------------------------------------------------------
(* The theorems.                                                           *)

\* The inductive invariant by parts.
LEMMA InductiveSplit ==
  Inductive <=> TypeOK /\ PolicyInv /\ \A h \in Hook : OneHookInv(h)
BY HookInvSplit, Zenon DEF Inductive, PolicyInv

\* The initial state satisfies the inductive invariant.
LEMMA InitInductive == Init => Inductive
<1> SUFFICES ASSUME Init PROVE Inductive
  BY Zenon
<1>1. TypeOK
  BY InitTyped, Zenon
<1>2. PolicyInv
  BY Zenon DEF Init, PolicyInv, AgentInv, PolicyNotTorn, HolderMatchesKernel, ZeroCtrl, Applying
<1>3. \A h \in Hook : OneHookInv(h)
  BY IdleHookInv, Zenon DEF Init
<1>4. QED
  BY <1>1, <1>2, <1>3, InductiveSplit, Zenon

\* Every step preserves the inductive invariant.
LEMMA NextInductive == Inductive /\ [Next]_vars => Inductive'
<1> SUFFICES ASSUME Inductive, [Next]_vars PROVE Inductive'
  BY Zenon
<1>1. TypeOK /\ PolicyInv /\ \A h \in Hook : OneHookInv(h)
  BY InductiveSplit, Zenon
<1>2. AgentInv /\ PolicyNotTorn
  BY <1>1, Zenon DEF PolicyInv
<1> SUFFICES (TypeOK /\ PolicyInv /\ \A h \in Hook : OneHookInv(h))'
  BY Zenon DEF Inductive, PolicyInv, HookInv, VerdictIsThePolicys, OneHookInv
<1>3. CASE AgentNext
  BY <1>1, <1>2, <1>3, AgentNextTyped, AgentNextPolicy, AgentNextHook, Zenon
<1>4. ASSUME NEW g \in Hook, HookNext(g)
      PROVE  (TypeOK /\ PolicyInv /\ \A h \in Hook : OneHookInv(h))'
  <2>1. TypeOK' /\ PolicyInv'
    BY <1>1, <1>4, HookNextTyped, HookNextPolicy, Zenon
  <2>2. ASSUME NEW h \in Hook PROVE OneHookInv(h)'
    <3>1. CASE h = g
      BY <1>1, <1>2, <1>4, <3>1, HookNextOwn, Zenon
    <3>2. CASE h # g
      BY <1>1, <1>4, <3>2, HookNextOther, Zenon
    <3>3. QED
      BY <3>1, <3>2, Zenon
  <2>3. QED
    BY <2>1, <2>2, Zenon
<1>5. CASE UNCHANGED vars
  BY <1>1, <1>5, ZenonT(30) DEF vars, agentVars, kernelVars, TypeOK, PolicyInv, AgentInv, PolicyNotTorn,
     HolderMatchesKernel, KernelHas, Applying, OneHookInv, Attached
<1>6. QED
  BY <1>3, <1>4, <1>5, NextSplit, Zenon

\* Every reachable state satisfies the inductive invariant (applyLivePolicy,
\* reloadPolicy, LoadEnforcer and the hooks of enforcer.bpf.c).
THEOREM InvariantHolds == Spec => []Inductive
BY InitInductive, NextInductive, PTL DEF Spec

\* The agent never applies a nil policy and every variable keeps its type.
THEOREM TypeCorrect == Spec => []TypeOK
<1>1. Inductive => TypeOK
  BY Zenon DEF Inductive
<1>2. QED
  BY <1>1, InvariantHolds, PTL

\* A set enforcement_active flag always stands over one complete policy.
THEOREM NeverTorn == Spec => []PolicyNotTorn
<1>1. Inductive => PolicyNotTorn
  BY Zenon DEF Inductive
<1>2. QED
  BY <1>1, InvariantHolds, PTL

\* Between reloads the kernel enforces the holder's policy or none.
THEOREM HolderAgrees == Spec => []HolderMatchesKernel
<1>1. Inductive => HolderMatchesKernel
  BY Zenon DEF Inductive
<1>2. QED
  BY <1>1, InvariantHolds, PTL

\* A hook no policy change overlaps returns the verdict of a complete policy.
THEOREM VerdictSound == Spec => []VerdictIsThePolicys
<1>1. Inductive => VerdictIsThePolicys
  BY Zenon DEF Inductive
<1>2. QED
  BY <1>1, InvariantHolds, PTL

\* The only step under a set flag that touches policy_ctrl or the rule maps
\* clears the flag.
LEMMA FrozenStep ==
  ASSUME Inductive, [Next]_vars, ctrl.active, ctrl'.active
  PROVE  UNCHANGED kernelVars
<1>1. CASE AgentNext
  <2>1. AgentInv
    BY Zenon DEF Inductive
  <2>2. CASE StartFresh \/ Exit
    BY <2>2 DEF StartFresh, Exit, ZeroCtrl
  <2>3. CASE Deactivate
    BY <2>3, Zenon DEF Deactivate, CtrlFor
  <2>4. CASE Clear \/ (\E r \in Rule : LoadRule(r)) \/ Activate
    BY <2>1, <2>4, Zenon DEF Clear, LoadRule, Activate, AgentInv
  <2>5. QED
    BY <1>1, <2>2, <2>3, <2>4, Zenon DEF AgentNext, AgentStep, Publish, StartReusingPins, PinMaps,
       BeginStartup, BeginReload, SwapHolder, ReloadFails, RestoreFails
<1>2. ASSUME NEW h \in Hook, HookNext(h) PROVE UNCHANGED kernelVars
  BY <1>2, HookFrame, Zenon DEF Inductive
<1>3. QED
  BY <1>1, <1>2, NextSplit, Zenon DEF vars

\* Policy changes clear enforcement_active before they touch anything else.
THEOREM MapsFrozen == Spec => LiveMapsFrozen
<1>1. Inductive /\ [Next]_vars => [ctrl.active /\ ctrl'.active => UNCHANGED kernelVars]_vars
  BY FrozenStep, Zenon
<1>2. QED
  BY <1>1, InvariantHolds, PTL DEF Spec, LiveMapsFrozen

\* The reload implements the atomic swap of whole policies of PolicySwap.
THEOREM RefinesPolicySwap == Spec => SwapsWholePolicies
<1>1. Init => Abstract!Init
  BY DEF Init, Abstract!Init, InForce, ZeroCtrl
<1>2. Inductive /\ Inductive' /\ [Next]_vars => [Abstract!Next]_InForce
  <2> SUFFICES ASSUME Inductive, Inductive', [Next]_vars
               PROVE  Abstract!Next \/ InForce' = InForce
    BY Zenon DEF Abstract!Next
  <2>1. CASE ~ctrl'.active
    BY <2>1, Zenon DEF Abstract!Next, Abstract!Withdraw, InForce
  <2>2. CASE ctrl.active /\ ctrl'.active
    BY <2>2, FrozenStep, Zenon DEF InForce, kernelVars
  <2>3. CASE ~ctrl.active /\ ctrl'.active
    <3>1. PICK b \in Bundle : KernelHas(b)'
      BY <2>3, Zenon DEF Inductive, PolicyNotTorn
    <3>2. InForce' = WholePolicy(Loadable(b), b) /\ InForce = NoBundle
      BY <2>3, <3>1, Zenon DEF InForce, KernelHas, CtrlFor, WholePolicy
    <3>3. QED
      BY <3>2, Zenon DEF Abstract!Next, Abstract!Install
  <2>4. QED
    BY <2>1, <2>2, <2>3, Zenon
<1>3. QED
  BY <1>1, <1>2, InvariantHolds, PTL DEF Spec, SwapsWholePolicies, Abstract!Spec
=============================================================================
