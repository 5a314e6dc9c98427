--------------------------- MODULE VuCountsProofs ---------------------------
(***************************************************************************)
(* Proofs about VuPool, for every number of VUs and every budget, and      *)
(* about RampingVus, for every number of VUs and every schedule.           *)
(***************************************************************************)
EXTENDS VuPool, RampingVus, FiniteSetTheorems, TLAPS

\* A VU in its claim loop belongs to shared-iterations and holds a non-zero
\* reading of the budget.
ClaimInv ==
  \A v \in VUs : vu[v] = "claiming" => mode = "shared-iterations" /\ cur[v] # 0

States == {"building", "deciding", "claiming", "running", "gone"}

\* The domains of what the VUs' steps change.
VuTypes ==
  /\ vu \in [VUs -> States] /\ n \in [VUs -> Nat] /\ cur \in [VUs -> Nat]
  /\ remaining \in 0..Iterations /\ claims \in Nat
  /\ completed \in Nat /\ errored \in Nat /\ interrupted \in Nat
  /\ degraded \in Nat /\ lost \in Nat

\* The domains of the rest.
RestTypes ==
  /\ mode \in Modes
  /\ expired \in BOOLEAN /\ cancel \in BOOLEAN /\ hard \in BOOLEAN
  /\ watchdog \in {"phase1", "phase2", "exited"} /\ joined \in BOOLEAN
  /\ dropped \in Nat \cup {-1}

\* TypeOK is the conjunction of the two parts.
LEMMA TypeParts == TypeOK <=> VuTypes /\ RestTypes
  BY DEF TypeOK, VuTypes, RestTypes, States

\* What a VU's step leaves alone.
LEMMA VuStepFrame ==
  ASSUME NEW v \in VUs, VuStep(v)
  PROVE  /\ UNCHANGED <<mode, expired, cancel, hard, watchdog, joined, dropped>>
         /\ vu[v] # "gone"
  BY DEF VuStep, Control, BuildFails, Claim, ClaimRetry, EndIteration, ForceUnwind, Panic,
         signals

\* What the other steps leave alone.
LEMMA OtherFrame ==
  ASSUME [Next]_vars, ~ \E v \in VUs : VuStep(v)
  PROVE  UNCHANGED <<mode, vu, n, cur, remaining, claims, tallies>>
  BY DEF Next, DeadlinePasses, Cancel, Abort, WatchdogPhase1, WatchdogPhase2, JoinLoops,
         Summarize, Finished, Others, vars

\* The two answers of the control, and the entry of the claim loop, as effects.
LEMMA ControlKinds ==
  ASSUME NEW v \in VUs, Control(v) \/ ClaimRetry(v), TypeOK
  PROVE  /\ vu[v] \in {"building", "deciding", "claiming"}
         /\ UNCHANGED <<mode, n, completed, errored, interrupted, lost>>
         /\ \/ Run(v) /\ mode # "shared-iterations"
            \/ Leave(v)
            \/ /\ remaining # 0 /\ (mode = "shared-iterations" \/ vu[v] = "claiming")
               /\ cur' = [cur EXCEPT ![v] = remaining]
               /\ vu' = [vu EXCEPT ![v] = "claiming"]
               /\ UNCHANGED <<remaining, claims, degraded>>
  BY PoolAssumption DEF Control, ClaimRetry, LoadBudget, TypeOK

\* Types and claims are preserved together: a claim takes one from a budget that
\* was not empty when it was read and did not change since.
Typed == VuTypes /\ RestTypes /\ ClaimInv

LEMMA VuTypesStep ==
  ASSUME Typed, NEW v \in VUs, VuStep(v)
  PROVE  VuTypes' /\ ClaimInv'
<1>t. VuTypes /\ ClaimInv /\ Iterations \in Nat /\ TypeOK /\ mode' = mode
  BY TypeParts, PoolAssumption, VuStepFrame DEF Typed
<1> USE <1>t DEF VuTypes, ClaimInv, States
<1>2. CASE Control(v) \/ ClaimRetry(v)
  <2>1. /\ vu[v] \in {"building", "deciding", "claiming"}
        /\ UNCHANGED <<mode, n, completed, errored, interrupted, lost>>
    BY <1>2, ControlKinds
  <2>2. CASE Run(v)
    BY <2>1, <2>2 DEF Run
  <2>3. CASE Leave(v)
    BY <2>1, <2>3 DEF Leave
  <2>4. CASE /\ remaining # 0 /\ (mode = "shared-iterations" \/ vu[v] = "claiming")
             /\ cur' = [cur EXCEPT ![v] = remaining]
             /\ vu' = [vu EXCEPT ![v] = "claiming"]
             /\ UNCHANGED <<remaining, claims, degraded>>
    BY <2>1, <2>4
  <2> QED
    BY <1>2, <2>2, <2>3, <2>4, ControlKinds
<1>3. CASE Claim(v)
  <2>1. /\ vu[v] = "claiming" /\ remaining = cur[v] /\ cur[v] # 0
        /\ remaining' = cur[v] - 1 /\ vu' = [vu EXCEPT ![v] = "running"]
        /\ claims' = claims + 1 /\ UNCHANGED <<n, cur, tallies>>
    BY <1>3 DEF Claim
  <2> QED
    BY <2>1 DEF tallies
<1>4. CASE BuildFails(v)
  BY <1>4 DEF BuildFails
<1>5. CASE EndIteration(v)
  <2>1. completed' \in Nat /\ errored' \in Nat /\ interrupted' \in Nat
    BY <1>5 DEF EndIteration, TallyOutcome
  <2> QED
    BY <1>5, <2>1 DEF EndIteration
<1>6. CASE ForceUnwind(v)
  BY <1>6 DEF ForceUnwind
<1>7. CASE Panic(v)
  BY <1>7 DEF Panic
<1> QED
  BY <1>2, <1>3, <1>4, <1>5, <1>6, <1>7 DEF VuStep, VuTypes, ClaimInv

\* The planned number is an integer, also when it is unlimited.
LEMMA PlannedInt == TypeOK => Planned \in Int
<1>1. Cardinality(VUs) \in Nat /\ Iterations \in Nat
  BY PoolAssumption, FS_CardinalityType
<1>2. Iterations * Cardinality(VUs) \in Nat
  BY <1>1
<1> QED
  BY <1>1, <1>2, PoolAssumption DEF TypeOK, Planned, Unlimited

\* Every step preserves the types.
LEMMA TypedStep == Typed /\ [Next]_vars => Typed'
<1> SUFFICES ASSUME Typed, [Next]_vars PROVE Typed'
  OBVIOUS
<1>1. ASSUME NEW v \in VUs, VuStep(v) PROVE Typed'
  <2>1. RestTypes'
    BY <1>1, VuStepFrame DEF Typed, RestTypes
  <2> QED
    BY <1>1, <2>1, VuTypesStep DEF Typed
<1>2. CASE ~ \E v \in VUs : VuStep(v)
  <2>1. VuTypes' /\ ClaimInv'
    BY <1>2, OtherFrame DEF Typed, VuTypes, ClaimInv, tallies
  <2>2. RestTypes'
    <3>1. CASE Summarize
      <4>1. Planned \in Int /\ Ran \in Int
        BY PlannedInt, TypeParts DEF Typed, VuTypes, Ran
      <4>2. dropped' \in Nat
        BY <3>1, <4>1 DEF Summarize
      <4> QED
        BY <3>1, <4>2 DEF Typed, RestTypes, Summarize, signals
    <3>2. CASE UNCHANGED vars
      BY <3>2 DEF vars, signals, Typed, RestTypes
    <3>3. CASE DeadlinePasses \/ Cancel \/ Abort \/ WatchdogPhase1 \/ WatchdogPhase2 \/ JoinLoops
      BY <3>3 DEF DeadlinePasses, Cancel, Abort, WatchdogPhase1, WatchdogPhase2, JoinLoops,
                  Others, signals, Typed, RestTypes
    <3> QED
      BY <1>2, <3>1, <3>2, <3>3 DEF Next, Finished
  <2> QED
    BY <2>1, <2>2 DEF Typed
<1> QED
  BY <1>1, <1>2

\* Initially everything has its type.
LEMMA TypedInit == Init => Typed
<1> SUFFICES ASSUME Init PROVE Typed
  OBVIOUS
<1>1. VuTypes /\ ClaimInv
  BY PoolAssumption DEF Init, VuTypes, ClaimInv, States
<1>2. RestTypes
  BY DEF Init, RestTypes
<1> QED
  BY <1>1, <1>2 DEF Typed

\* Every variable of the VU-count executors stays in its domain; in particular
\* the unsigned shared budget never wraps below zero.
THEOREM PoolTypeCorrect == Spec => []TypeOK
<1>1. Typed => TypeOK
  BY TypeParts DEF Typed
<1> QED
  BY <1>1, TypedInit, TypedStep, PTL DEF Spec

-----------------------------------------------------------------------------
(* Budget and hard stop.                                                   *)

\* "claims == iterations that run": the claim loops of shared-iterations hand
\* out exactly the budget, however many VUs race for it.
THEOREM BudgetSound == Spec => []BudgetExact
<1>1. Init => BudgetExact
  BY PoolAssumption DEF Init, BudgetExact
<1>2. Typed /\ BudgetExact /\ [Next]_vars => BudgetExact'
  <2> SUFFICES ASSUME Typed, BudgetExact, [Next]_vars PROVE BudgetExact'
    OBVIOUS
  <2>t. /\ remaining \in Int /\ claims \in Nat /\ Iterations \in Nat /\ TypeOK
        /\ cur \in [VUs -> Nat]
    BY PoolAssumption, TypeParts DEF Typed, VuTypes
  <2> USE DEF BudgetExact
  <2>1. CASE UNCHANGED <<mode, remaining, claims>>
    BY <2>1
  <2>2. ASSUME NEW v \in VUs, VuStep(v) PROVE BudgetExact'
    <3>1. mode' = mode
      BY <2>2, VuStepFrame
    <3>2. CASE Control(v) \/ ClaimRetry(v)
      <4>1. \/ mode # "shared-iterations"
            \/ UNCHANGED <<remaining, claims>>
        BY <2>t, <3>2, ControlKinds DEF Leave
      <4> QED
        BY <3>1, <4>1
    <3>3. CASE Claim(v)
      BY <2>t, <3>1, <3>3 DEF Claim
    <3>4. CASE BuildFails(v) \/ EndIteration(v) \/ ForceUnwind(v) \/ Panic(v)
      BY <3>1, <3>4 DEF BuildFails, EndIteration, ForceUnwind, Panic
    <3> QED
      BY <2>2, <3>2, <3>3, <3>4 DEF VuStep
  <2>3. CASE ~ \E v \in VUs : VuStep(v)
    BY <2>1, <2>3, OtherFrame
  <2> QED
    BY <2>2, <2>3
<1> QED
  BY <1>1, <1>2, TypedInit, TypedStep, PTL DEF Spec

\* The watchdog's second phase begins with graceful stop.
PhaseInv == HardAfterGraceful /\ (watchdog = "phase2" => cancel \/ expired)

\* The hard token never fires before graceful stop began: no VU is unwound in a
\* run that may still start iterations.
THEOREM HardSound == Spec => []HardAfterGraceful
<1>1. Init => PhaseInv
  BY DEF Init, PhaseInv, HardAfterGraceful
<1>2. Typed /\ PhaseInv /\ [Next]_vars => PhaseInv'
  <2> SUFFICES ASSUME Typed, PhaseInv, [Next]_vars PROVE PhaseInv'
    OBVIOUS
  <2> USE DEF PhaseInv, HardAfterGraceful
  <2>1. CASE UNCHANGED <<expired, cancel, hard, watchdog>>
    BY <2>1
  <2>2. ASSUME NEW v \in VUs, VuStep(v) PROVE PhaseInv'
    BY <2>1, <2>2, VuStepFrame
  <2>3. CASE DeadlinePasses \/ Cancel \/ Abort
    BY <2>3 DEF DeadlinePasses, Cancel, Abort
  <2>4. CASE WatchdogPhase1
    BY <2>4 DEF WatchdogPhase1, signals
  <2>5. CASE WatchdogPhase2
    BY <2>5 DEF WatchdogPhase2
  <2> QED
    BY <2>1, <2>2, <2>3, <2>4, <2>5
       DEF Next, JoinLoops, Summarize, Finished, signals, vars
<1> QED
  BY <1>1, <1>2, TypedInit, TypedStep, PTL DEF Spec, PhaseInv

-----------------------------------------------------------------------------
(* The lanes.                                                              *)

\* Only VUs run iterations.
LEMMA RunningFinite ==
  /\ IsFiniteSet(Running) /\ Cardinality(Running) \in Nat
  /\ IsFiniteSet(Running') /\ Cardinality(Running') \in Nat
<1>1. Running \subseteq VUs /\ Running' \subseteq VUs
  BY DEF Running
<1> QED
  BY <1>1, PoolAssumption, FS_Subset, FS_CardinalityType

sums == <<completed, errored, interrupted, lost>>

\* One iteration leaves through one lane.
OneFinishes ==
  \/ completed' = completed + 1 /\ UNCHANGED <<errored, interrupted, lost>>
  \/ errored' = errored + 1 /\ UNCHANGED <<completed, interrupted, lost>>
  \/ interrupted' = interrupted + 1 /\ UNCHANGED <<completed, errored, lost>>
  \/ lost' = lost + 1 /\ UNCHANGED <<completed, errored, interrupted>>

\* A VU's step starts an iteration, ends one, or does neither.
LEMMA RunningStep ==
  ASSUME Typed, NEW v \in VUs, VuStep(v)
  PROVE  \/ /\ claims' = claims + 1 /\ UNCHANGED sums
            /\ Cardinality(Running)' = Cardinality(Running) + 1
            /\ mode = "shared-iterations" => remaining' = remaining - 1 /\ remaining > 0
         \/ /\ claims' = claims /\ OneFinishes
            /\ Cardinality(Running)' = Cardinality(Running) - 1
         \/ UNCHANGED <<claims, Running>> /\ UNCHANGED sums
<1>t. /\ vu \in [VUs -> States] /\ TypeOK /\ remaining \in Nat
      /\ \A w \in VUs : vu[w] = "claiming" => cur[w] # 0
  BY TypeParts, PoolAssumption DEF Typed, VuTypes, ClaimInv
<1>1. ASSUME vu[v] # "running", vu' = [vu EXCEPT ![v] = "running"]
      PROVE  Cardinality(Running)' = Cardinality(Running) + 1
  <2>1. Running' = Running \cup {v} /\ v \notin Running
    BY <1>t, <1>1 DEF Running
  <2> QED
    BY <2>1, RunningFinite, FS_AddElement
<1>2. ASSUME vu[v] = "running", NEW s \in States \ {"running"}, vu' = [vu EXCEPT ![v] = s]
      PROVE  Cardinality(Running)' = Cardinality(Running) - 1
  <2>1. Running' = Running \ {v} /\ v \in Running
    BY <1>t, <1>2 DEF Running
  <2> QED
    BY <2>1, RunningFinite, FS_RemoveElement
<1>3. ASSUME vu[v] # "running", NEW s \in States \ {"running"}, vu' = [vu EXCEPT ![v] = s]
      PROVE  Running' = Running
  BY <1>t, <1>3 DEF Running
<1>4. CASE Control(v) \/ ClaimRetry(v)
  <2>1. vu[v] # "running" /\ UNCHANGED sums
    BY <1>t, <1>4, ControlKinds DEF sums
  <2>2. CASE Run(v) /\ mode # "shared-iterations"
    BY <1>1, <2>1, <2>2 DEF Run
  <2>3. CASE Leave(v)
    BY <1>3, <2>1, <2>3 DEF Leave, States
  <2>4. CASE vu' = [vu EXCEPT ![v] = "claiming"] /\ UNCHANGED claims
    BY <1>3, <2>1, <2>4 DEF States
  <2> QED
    BY <1>t, <1>4, <2>2, <2>3, <2>4, ControlKinds
<1>5. CASE Claim(v)
  <2>1. vu[v] # "running" /\ remaining > 0 /\ remaining' = remaining - 1
    BY <1>t, <1>5 DEF Claim
  <2> QED
    BY <1>1, <1>5, <2>1 DEF Claim, sums, tallies
<1>6. CASE BuildFails(v)
  BY <1>3, <1>6 DEF BuildFails, sums, States
<1>7. CASE EndIteration(v)
  <2>1. OneFinishes
    BY <1>7 DEF EndIteration, TallyOutcome, OneFinishes
  <2> QED
    BY <1>2, <1>7, <2>1 DEF EndIteration, States
<1>8. CASE ForceUnwind(v) \/ Panic(v)
  <2>1. OneFinishes /\ claims' = claims
    BY <1>8 DEF ForceUnwind, Panic, OneFinishes
  <2> QED
    BY <1>2, <1>8, <2>1 DEF ForceUnwind, Panic, States
<1> QED
  BY <1>4, <1>5, <1>6, <1>7, <1>8 DEF VuStep

\* Every iteration started is in exactly one lane of the summary or still runs.
THEOREM PoolLanesSound == Spec => []LanesConserved
<1>1. Init => LanesConserved
  <2>1. Init => Running = {}
    BY DEF Init, Running
  <2> QED
    BY <2>1, FS_EmptySet DEF Init, LanesConserved
<1>2. Typed /\ LanesConserved /\ [Next]_vars => LanesConserved'
  <2> SUFFICES ASSUME Typed, LanesConserved, [Next]_vars PROVE LanesConserved'
    OBVIOUS
  <2>t. /\ claims \in Nat /\ completed \in Nat /\ errored \in Nat /\ interrupted \in Nat
        /\ lost \in Nat /\ Cardinality(Running) \in Nat
    BY RunningFinite DEF Typed, VuTypes
  <2>1. ASSUME NEW v \in VUs, VuStep(v) PROVE LanesConserved'
    <3>1. CASE /\ claims' = claims + 1 /\ UNCHANGED sums
               /\ Cardinality(Running)' = Cardinality(Running) + 1
      BY <2>t, <3>1 DEF LanesConserved, sums
    <3>2. CASE /\ claims' = claims /\ OneFinishes
               /\ Cardinality(Running)' = Cardinality(Running) - 1
      BY <2>t, <3>2 DEF LanesConserved, OneFinishes
    <3>3. CASE UNCHANGED <<claims, Running>> /\ UNCHANGED sums
      BY <3>3 DEF LanesConserved, sums
    <3> QED
      BY <2>1, <3>1, <3>2, <3>3, RunningStep
  <2>2. CASE ~ \E v \in VUs : VuStep(v)
    BY <2>2, OtherFrame DEF LanesConserved, Running, tallies
  <2> QED
    BY <2>1, <2>2
<1> QED
  BY <1>1, <1>2, TypedInit, TypedStep, PTL DEF Spec

-----------------------------------------------------------------------------
(* The executors implement the abstract budget.                            *)

\* The iterations a VU of per-vu-iterations may no longer start: those it
\* finished, the one it runs, and one more once it is gone.
Slot(v) == n[v] + (IF vu[v] \in {"running", "gone"} THEN 1 ELSE 0)
Slots == {s \in VUs \X (1..Iterations) : s[2] <= Slot(s[1])}

\* per-vu-iterations has no shared budget to count down; what bounds the total is
\* that every iteration started uses up a slot of its VU.
SlotInv == mode = "per-vu-iterations" => claims <= Cardinality(Slots)

\* There are at most as many slots as planned iterations.
LEMMA SlotsFinite ==
  /\ IsFiniteSet(Slots) /\ Cardinality(Slots) \in Nat
  /\ IsFiniteSet(Slots') /\ Cardinality(Slots') \in Nat
  /\ Cardinality(Slots) <= Iterations * Cardinality(VUs)
  /\ Cardinality(Slots') <= Iterations * Cardinality(VUs)
<1>1. /\ IsFiniteSet(1..Iterations) /\ Cardinality(1..Iterations) = Iterations
      /\ IsFiniteSet(VUs) /\ Cardinality(VUs) \in Nat /\ Iterations \in Nat
  <2>1. Iterations \in Nat /\ IsFiniteSet(VUs) /\ Cardinality(VUs) \in Nat
    BY PoolAssumption, FS_CardinalityType
  <2>2. IsFiniteSet(1..Iterations) /\ Cardinality(1..Iterations) = IF 1 > Iterations THEN 0 ELSE Iterations - 1 + 1
    BY <2>1, FS_Interval
  <2> QED
    BY <2>1, <2>2
<1>2. /\ IsFiniteSet(VUs \X (1..Iterations))
      /\ Cardinality(VUs \X (1..Iterations)) = Cardinality(VUs) * Iterations
  BY <1>1, FS_Product
<1>3. Slots \subseteq VUs \X (1..Iterations) /\ Slots' \subseteq VUs \X (1..Iterations)
  BY DEF Slots
<1>4. /\ IsFiniteSet(Slots) /\ IsFiniteSet(Slots')
      /\ Cardinality(Slots) <= Cardinality(VUs) * Iterations
      /\ Cardinality(Slots') <= Cardinality(VUs) * Iterations
  BY <1>2, <1>3, FS_Subset
<1>5. Cardinality(VUs) * Iterations = Iterations * Cardinality(VUs)
  BY <1>1
<1> QED
  BY <1>4, <1>5, FS_CardinalityType

\* A VU that starts an iteration takes a free slot; no step gives one back.
LEMMA SlotStep ==
  ASSUME Typed, mode = "per-vu-iterations", NEW v \in VUs, VuStep(v)
  PROVE  \/ claims' = claims + 1 /\ Cardinality(Slots') = Cardinality(Slots) + 1
         \/ claims' = claims /\ Cardinality(Slots) <= Cardinality(Slots')
<1>t. /\ vu \in [VUs -> States] /\ n \in [VUs -> Nat] /\ TypeOK /\ Iterations \in Nat
      /\ vu[v] # "claiming"
  BY TypeParts, PoolAssumption DEF Typed, VuTypes, ClaimInv
<1>1. ASSUME claims' = claims, \A w \in VUs : Slot(w)' >= Slot(w)
      PROVE  claims' = claims /\ Cardinality(Slots) <= Cardinality(Slots')
  <2>0. \A w \in VUs : Slot(w) \in Int
    BY <1>t DEF Slot
  <2>1. ASSUME NEW s \in Slots PROVE s \in Slots'
    <3>1. s \in VUs \X (1..Iterations) /\ s[2] <= Slot(s[1]) /\ s[1] \in VUs /\ s[2] \in 1..Iterations
      BY DEF Slots
    <3>2. Slot(s[1])' >= Slot(s[1]) /\ Slot(s[1]) \in Int
      BY <1>1, <2>0, <3>1
    <3>3. Slot(s[1])' \in Int => s[2] <= Slot(s[1])'
      BY <3>1, <3>2
    <3>4. Slot(s[1])' \in Int
      <4>1. VuTypes'
        BY VuTypesStep
      <4> QED
        BY <3>1, <4>1 DEF VuTypes, Slot
    <3> QED
      BY <3>1, <3>3, <3>4 DEF Slots
  <2>2. Slots \subseteq Slots'
    BY <2>1
  <2> QED
    BY <1>1, <2>2, SlotsFinite, FS_Subset
<1>2. CASE Control(v)
  <2>1. CASE Run(v)
    <3>0. vu[v] \in {"building", "deciding"}
      BY <1>2 DEF Control
    <3>1. vu' = [vu EXCEPT ![v] = "running"] /\ n' = n /\ claims' = claims + 1 /\ n[v] < Iterations
      <4>1. vu'[v] = "running" /\ ~Leave(v)
        BY <1>t, <2>1 DEF Run, Leave
      <4> QED
        BY <1>2, <2>1, <4>1 DEF Control, Run
    <3>2. <<v, n[v] + 1>> \in VUs \X (1..Iterations) /\ n[v] \in Nat
      BY <1>t, <3>1
    <3>3. /\ \A w \in VUs \ {v} : Slot(w)' = Slot(w)
          /\ Slot(v) = n[v] /\ Slot(v)' = n[v] + 1
      BY <1>t, <3>0, <3>1 DEF Slot
    <3>4. Slots' = Slots \cup {<<v, n[v] + 1>>} /\ <<v, n[v] + 1>> \notin Slots
      <4>1. ASSUME NEW w \in VUs, NEW i \in 1..Iterations
            PROVE  <<w, i>> \in Slots' <=> <<w, i>> \in Slots \/ <<w, i>> = <<v, n[v] + 1>>
        <5>1. CASE w = v
          BY <3>2, <3>3, <5>1 DEF Slots
        <5>2. CASE w # v
          BY <3>3, <5>2 DEF Slots
        <5> QED
          BY <5>1, <5>2
      <4>2. <<v, n[v] + 1>> \notin Slots
        BY <3>2, <3>3 DEF Slots
      <4>3. \A s \in Slots' \cup Slots : \E w \in VUs, i \in 1..Iterations : s = <<w, i>>
        BY DEF Slots
      <4> QED
        BY <3>2, <4>1, <4>2, <4>3
    <3> QED
      BY <3>1, <3>4, SlotsFinite, FS_AddElement
  <2>2. CASE Leave(v)
    <3>1. claims' = claims /\ vu' = [vu EXCEPT ![v] = "gone"] /\ n' = n
      BY <1>2, <2>2 DEF Control, Leave
    <3>2. \A w \in VUs : Slot(w)' >= Slot(w)
      BY <1>t, <3>1 DEF Slot
    <3> QED
      BY <1>1, <3>1, <3>2
  <2> QED
    BY <1>2, <2>1, <2>2 DEF Control
<1>3. CASE BuildFails(v)
  <2>1. claims' = claims /\ vu' = [vu EXCEPT ![v] = "gone"] /\ n' = n
    BY <1>3 DEF BuildFails
  <2>2. \A w \in VUs : Slot(w)' >= Slot(w)
    BY <1>t, <2>1 DEF Slot
  <2> QED
    BY <1>1, <2>1, <2>2
<1>4. CASE EndIteration(v)
  <2>1. /\ claims' = claims /\ vu[v] = "running"
        /\ vu' = [vu EXCEPT ![v] = "deciding"] /\ n' = [n EXCEPT ![v] = @ + 1]
    BY <1>4 DEF EndIteration
  <2>2. \A w \in VUs : Slot(w)' >= Slot(w)
    BY <1>t, <2>1 DEF Slot
  <2> QED
    BY <1>1, <2>1, <2>2
<1>5. CASE ForceUnwind(v) \/ Panic(v)
  <2>1. claims' = claims /\ vu[v] = "running" /\ vu' = [vu EXCEPT ![v] = "gone"] /\ n' = n
    BY <1>5 DEF ForceUnwind, Panic
  <2>2. \A w \in VUs : Slot(w)' >= Slot(w)
    BY <1>t, <2>1 DEF Slot
  <2> QED
    BY <1>1, <2>1, <2>2
<1> QED
  BY <1>t, <1>2, <1>3, <1>4, <1>5 DEF VuStep, Claim, ClaimRetry

\* The loops are joined after every VU is gone, and reported after that.
JoinedInv ==
  /\ joined => \A v \in VUs : vu[v] = "gone"
  /\ dropped # -1 => joined

BudgetInv == Typed /\ BudgetExact /\ SlotInv /\ LanesConserved /\ JoinedInv

\* Every step keeps the order of the joins and the executor.
LEMMA JoinedStep == JoinedInv /\ [Next]_vars => JoinedInv' /\ mode' = mode
<1> SUFFICES ASSUME JoinedInv, [Next]_vars PROVE JoinedInv' /\ mode' = mode
  OBVIOUS
<1> USE DEF JoinedInv
<1>1. ASSUME NEW v \in VUs, VuStep(v) PROVE JoinedInv' /\ mode' = mode
  <2>1. /\ vu[v] # "gone" /\ UNCHANGED <<mode, joined, dropped>>
    BY <1>1, VuStepFrame
  <2> QED
    BY <2>1
<1>2. CASE ~ \E v \in VUs : VuStep(v)
  <2>1. UNCHANGED <<mode, vu>>
    BY <1>2, OtherFrame
  <2>2. CASE JoinLoops
    BY <2>1, <2>2 DEF JoinLoops, Others
  <2>3. CASE Summarize
    BY <2>1, <2>3 DEF Summarize
  <2> QED
    BY <1>2, <2>1, <2>2, <2>3
       DEF Next, DeadlinePasses, Cancel, Abort, WatchdogPhase1, WatchdogPhase2, Finished,
           Others, vars
<1> QED
  BY <1>1, <1>2

\* Every step keeps the started iterations within their slots.
LEMMA SlotInvStep == Typed /\ SlotInv /\ [Next]_vars => SlotInv'
<1> SUFFICES ASSUME Typed, SlotInv, [Next]_vars, mode' = "per-vu-iterations"
             PROVE  claims' <= Cardinality(Slots')
  BY DEF SlotInv
<1>1. ASSUME NEW v \in VUs, VuStep(v) PROVE claims' <= Cardinality(Slots')
  <2>1. mode = "per-vu-iterations" /\ claims \in Nat
    BY <1>1, VuStepFrame DEF Typed, VuTypes
  <2> QED
    BY <1>1, <2>1, SlotStep, SlotsFinite DEF SlotInv
<1>2. CASE ~ \E v \in VUs : VuStep(v)
  <2>1. UNCHANGED <<mode, vu, n, claims>>
    BY <1>2, OtherFrame
  <2>2. Slots' = Slots
    BY <2>1 DEF Slots, Slot
  <2> QED
    BY <2>1, <2>2 DEF SlotInv
<1> QED
  BY <1>1, <1>2

\* Every step of an executor is a step of the budget, or changes nothing of it.
LEMMA BudgetStep ==
  ASSUME BudgetInv, [Next]_vars
  PROVE  [Budget!Next]_<<Planned, claims,
                         [completed |-> completed, errored |-> errored,
                          interrupted |-> interrupted, lost |-> lost], dropped>>
<1> DEFINE fin == [completed |-> completed, errored |-> errored,
                   interrupted |-> interrupted, lost |-> lost]
<1> SUFFICES Budget!Next \/ UNCHANGED <<Planned, claims, fin, dropped>>
  OBVIOUS
<1>t. /\ claims \in Nat /\ completed \in Nat /\ errored \in Nat /\ interrupted \in Nat
      /\ lost \in Nat /\ remaining \in Nat /\ Cardinality(Running) \in Nat
      /\ Cardinality(Running)' \in Nat /\ Iterations \in Nat
  BY RunningFinite, PoolAssumption DEF BudgetInv, Typed, VuTypes
<1>m. mode \in {"constant-vus", "per-vu-iterations", "shared-iterations"}
  BY PoolAssumption DEF BudgetInv, Typed, RestTypes
<1>p. Planned' = Planned /\ Planned \in Nat \cup {-1}
  <2>1. mode' = mode
    BY JoinedStep DEF BudgetInv
  <2>2. Iterations * Cardinality(VUs) \in Nat
    BY <1>t, PoolAssumption, FS_CardinalityType
  <2> QED
    BY <1>t, <1>m, <2>1, <2>2 DEF Planned, Unlimited
<1>l. claims = completed + errored + interrupted + lost + Cardinality(Running)
  BY DEF BudgetInv, LanesConserved
<1>b. Planned = -1 \/ claims <= Planned
  <2>1. CASE mode = "shared-iterations"
    BY <1>t, <2>1 DEF BudgetInv, BudgetExact, Planned
  <2>2. CASE mode = "per-vu-iterations"
    <3>1. claims <= Cardinality(Slots) /\ Cardinality(Slots) \in Nat
      BY <2>2, SlotsFinite DEF BudgetInv, SlotInv
    <3>2. Cardinality(Slots) <= Iterations * Cardinality(VUs)
      BY SlotsFinite
    <3>3. Planned = Iterations * Cardinality(VUs) /\ Planned \in Int
      BY <1>p, <2>2 DEF Planned
    <3> QED
      BY <1>t, <3>1, <3>2, <3>3
  <2> QED
    BY <1>m, <2>1, <2>2 DEF Planned, Unlimited
<1>1. ASSUME NEW v \in VUs, VuStep(v) PROVE Budget!Next \/ UNCHANGED <<Planned, claims, fin, dropped>>
  <2>1. dropped = -1 /\ dropped' = dropped
    BY <1>1, VuStepFrame DEF BudgetInv, JoinedInv
  <2>2. CASE /\ claims' = claims + 1 /\ UNCHANGED sums
             /\ mode = "shared-iterations" => remaining' = remaining - 1 /\ remaining > 0
    <3>1. fin' = fin
      BY <2>2 DEF sums
    <3>2. Planned = Budget!Unlimited \/ claims < Planned
      <4>1. CASE mode = "shared-iterations"
        BY <1>t, <2>2, <4>1 DEF BudgetInv, BudgetExact, Planned
      <4>2. CASE mode = "per-vu-iterations"
        <5>1. Cardinality(Slots') = Cardinality(Slots) + 1 /\ claims <= Cardinality(Slots)
          BY <1>1, <1>t, <2>2, <4>2, SlotStep DEF BudgetInv, SlotInv
        <5>2. Planned = Iterations * Cardinality(VUs) /\ Planned \in Int
          BY <1>p, <4>2 DEF Planned
        <5> QED
          BY <1>t, <5>1, <5>2, SlotsFinite
      <4> QED
        BY <1>m, <4>1, <4>2 DEF Planned, Unlimited, Budget!Unlimited
    <3>3. Budget!Claim
      BY <1>p, <2>1, <2>2, <3>1, <3>2 DEF Budget!Claim
    <3> QED
      BY <3>3 DEF Budget!Next
  <2>3. CASE /\ claims' = claims /\ OneFinishes
             /\ Cardinality(Running)' = Cardinality(Running) - 1
    <3>1. completed + errored + interrupted + lost < claims
      BY <1>t, <1>l, <2>3
    <3>2. \E l \in Budget!Lanes : fin' = [fin EXCEPT ![l] = @ + 1]
      <4>1. CASE completed' = completed + 1 /\ UNCHANGED <<errored, interrupted, lost>>
        <5>1. fin' = [fin EXCEPT !["completed"] = @ + 1]
          BY <4>1
        <5> QED
          BY <5>1 DEF Budget!Lanes
      <4>2. CASE errored' = errored + 1 /\ UNCHANGED <<completed, interrupted, lost>>
        <5>1. fin' = [fin EXCEPT !["errored"] = @ + 1]
          BY <4>2
        <5> QED
          BY <5>1 DEF Budget!Lanes
      <4>3. CASE interrupted' = interrupted + 1 /\ UNCHANGED <<completed, errored, lost>>
        <5>1. fin' = [fin EXCEPT !["interrupted"] = @ + 1]
          BY <4>3
        <5> QED
          BY <5>1 DEF Budget!Lanes
      <4>4. CASE lost' = lost + 1 /\ UNCHANGED <<completed, errored, interrupted>>
        <5>1. fin' = [fin EXCEPT !["lost"] = @ + 1]
          BY <4>4
        <5> QED
          BY <5>1 DEF Budget!Lanes
      <4> QED
        BY <2>3, <4>1, <4>2, <4>3, <4>4 DEF OneFinishes
    <3>3. Budget!Finish
      BY <1>p, <2>1, <2>3, <3>1, <3>2 DEF Budget!Finish, Budget!Reported
    <3> QED
      BY <3>3 DEF Budget!Next
  <2>4. CASE UNCHANGED <<claims, Running>> /\ UNCHANGED sums
    BY <1>p, <2>1, <2>4 DEF sums
  <2> QED
    BY <1>1, <2>2, <2>3, <2>4, RunningStep DEF BudgetInv
<1>2. CASE ~ (\E v \in VUs : VuStep(v)) /\ Summarize
  <2>1. dropped = -1 /\ joined /\ UNCHANGED <<claims, fin>>
    BY <1>2 DEF Summarize, tallies
  <2>2. Running = {}
    BY <2>1 DEF BudgetInv, JoinedInv, Running
  <2>3. Cardinality(Running) = 0
    BY <2>2, FS_EmptySet
  <2>4. dropped' = IF Planned = -1 THEN 0 ELSE Planned - (completed + errored + interrupted)
    <3>1. dropped' = IF Ran < Planned THEN Planned - Ran ELSE 0
      BY <1>2 DEF Summarize
    <3>2. Ran \in Nat /\ Ran + lost = claims /\ Ran = completed + errored + interrupted
      BY <1>t, <1>l, <2>3 DEF Ran
    <3>3. Planned # -1 => Planned \in Nat /\ Ran <= Planned
      BY <1>t, <1>p, <1>b, <3>2
    <3>4. CASE Planned = -1
      BY <3>1, <3>2, <3>4
    <3>5. CASE Planned # -1
      BY <3>1, <3>2, <3>3, <3>5
    <3> QED
      BY <3>4, <3>5
  <2>5. Budget!Report
    BY <1>t, <1>p, <1>l, <2>1, <2>3, <2>4 DEF Budget!Report, Budget!Reported, Budget!Unlimited
  <2> QED
    BY <2>5 DEF Budget!Next
<1>3. CASE ~ (\E v \in VUs : VuStep(v)) /\ ~Summarize
  <2>1. UNCHANGED <<claims, fin>>
    BY <1>3, OtherFrame DEF tallies
  <2>2. dropped' = dropped
    BY <1>3 DEF Next, DeadlinePasses, Cancel, Abort, WatchdogPhase1, WatchdogPhase2, JoinLoops,
                Finished, Others, vars
  <2> QED
    BY <1>p, <2>1, <2>2
<1> QED
  BY <1>1, <1>2, <1>3

\* The three VU-count executors implement the abstract budget for every number of
\* VUs: none hands out more than planned (the shared total, or every VU's own
\* share), every iteration leaves through one lane, and the summary reports the
\* rest as dropped.
THEOREM RefinesBudget == Spec => ImplementsBudget
<1>1. Init => JoinedInv /\ SlotInv /\ BudgetExact
  BY PoolAssumption, SlotsFinite DEF Init, JoinedInv, SlotInv, BudgetExact
<1>2. Init => Budget!Init
  <2> SUFFICES ASSUME Init PROVE Budget!Init
    OBVIOUS
  <2>1. Planned \in Nat \cup {-1}
    <3>1. Iterations * Cardinality(VUs) \in Nat /\ Iterations \in Nat
      BY PoolAssumption, FS_CardinalityType
    <3> QED
      BY <3>1, PoolAssumption DEF Init, Planned, Unlimited
  <2> QED
    BY <2>1 DEF Init, Budget!Init, Budget!Lanes, Budget!Unlimited
<1>3. BudgetInv /\ [Next]_vars
        => [Budget!Next]_<<Planned, claims,
                           [completed |-> completed, errored |-> errored,
                            interrupted |-> interrupted, lost |-> lost], dropped>>
  BY BudgetStep
<1> QED
  BY <1>1, <1>2, <1>3, TypedInit, TypedStep, BudgetSound, PoolLanesSound, JoinedStep, SlotInvStep, PTL
     DEF Spec, BudgetInv, ImplementsBudget, Budget!Spec

-----------------------------------------------------------------------------
(* ramping-vus: the gauge and the watch channel.                            *)

Active == {v \in RampVUs : active[v]}

\* The domains the two arguments rest on; `active` takes both values only for a
\* VU between two decisions.
RampTypes ==
  /\ ramp_vu \in [RampVUs -> {"building", "deciding", "parked", "running", "gone"}]
  /\ active \in [RampVUs -> BOOLEAN]
  /\ seen \in [RampVUs -> Nat] /\ version \in Nat

\* GaugeExact, made inductive: a VU that never decided is not active.
GaugeInv ==
  /\ active_vus = Cardinality(Active)
  /\ \A v \in RampVUs :
       /\ ramp_vu[v] = "running" => active[v]
       /\ ramp_vu[v] \in {"building", "parked", "gone"} => ~active[v]

\* NoLostWakeup, made inductive: no receiver is ahead of the channel, so a new
\* version is unseen by all.
WakeInv ==
  \A v \in RampVUs :
    /\ seen[v] <= version
    /\ (ramp_vu[v] = "parked" /\ v < desired) => version # seen[v]

\* The set of active VUs is finite, whatever the flags are.
LEMMA ActiveFinite == IsFiniteSet(Active) /\ Cardinality(Active) \in Nat
<1>1. IsFiniteSet(RampVUs)
  BY FS_Interval, RampAssumption DEF RampVUs
<1>2. IsFiniteSet(Active)
  BY <1>1, FS_Subset DEF Active
<1> QED
  BY <1>2, FS_CardinalityType

\* RampingControl::active moves the gauge by what the flag moves the set of
\* active VUs.
LEMMA SetActiveCounts ==
  ASSUME NEW v \in RampVUs, NEW a \in BOOLEAN, active \in [RampVUs -> BOOLEAN],
         active_vus = Cardinality(Active), SetActive(v, a)
  PROVE  active_vus' = Cardinality(Active')
<1>1. /\ active' = [active EXCEPT ![v] = a]
      /\ active_vus' = active_vus + (IF a /\ ~active[v] THEN 1
                                     ELSE IF ~a /\ active[v] THEN -1 ELSE 0)
  BY DEF SetActive
<1>2. IsFiniteSet(Active) /\ Cardinality(Active) \in Nat
  BY ActiveFinite
<1>3. CASE a /\ ~active[v]
  <2>1. Active' = Active \cup {v} /\ v \notin Active
    BY <1>1, <1>3 DEF Active
  <2>2. Cardinality(Active \cup {v}) = Cardinality(Active) + 1
    BY <1>2, <2>1, FS_AddElement
  <2> QED
    BY <1>1, <1>3, <2>1, <2>2
<1>4. CASE ~a /\ active[v]
  <2>1. Active' = Active \ {v} /\ v \in Active
    BY <1>1, <1>4 DEF Active
  <2>2. Cardinality(Active \ {v}) = Cardinality(Active) - 1
    BY <1>2, <2>1, FS_RemoveElement
  <2> QED
    BY <1>1, <1>2, <1>4, <2>1, <2>2
<1>5. CASE a = active[v]
  <2>1. Active' = Active
    BY <1>1, <1>5 DEF Active
  <2>2. active_vus' = active_vus
    BY <1>1, <1>2, <1>5
  <2> QED
    BY <2>1, <2>2
<1> QED
  BY <1>3, <1>4, <1>5

\* The steps that leave the VUs alone.
Outside == \/ RampController \/ RampTick \/ RampCancel \/ RampAbort \/ RampPhase1 \/ RampPhase2
           \/ RampJoin \/ RampReturn \/ RampFinished \/ UNCHANGED rampvars

\* They change at most the channel, to a version nobody has seen.
LEMMA OutsideStep ==
  ASSUME Outside
  PROVE  /\ UNCHANGED <<ramp_vu, active, active_vus, seen>>
         /\ UNCHANGED <<desired, version>> \/ version' = version + 1
  BY DEF Outside, RampController, RampCheck, RampSend, RampStop, RampExit, RampTick, RampCancel,
         RampAbort, RampPhase1, RampPhase2, RampJoin, RampReturn, RampFinished, Rest, ramp,
         rampvars

\* What a VU's step does to its own state, its flag and its receiver.
LEMMA VuStepKinds ==
  ASSUME NEW v \in RampVUs, RampVuStep(v)
  PROVE  /\ UNCHANGED <<desired, version>>
         /\ \/ Deactivate(v) /\ UNCHANGED seen
            \/ /\ SetActive(v, v < desired)
               /\ seen' = [seen EXCEPT ![v] = version]
               /\ ramp_vu' = [ramp_vu EXCEPT ![v] = IF v < desired THEN "running" ELSE "parked"]
            \/ /\ ramp_vu[v] \in {"parked", "running"}
               /\ ramp_vu' = [ramp_vu EXCEPT ![v] = "deciding"]
               /\ seen' = [seen EXCEPT ![v] = version] \/ UNCHANGED seen
               /\ UNCHANGED <<active, active_vus>>
            \/ /\ ramp_vu[v] = "building"
               /\ ramp_vu' = [ramp_vu EXCEPT ![v] = "gone"]
               /\ UNCHANGED <<active, active_vus, seen>>
  BY DEF RampVuStep, Decide, Wake, WakeStop, RampBuildFails, RampIterationEnds,
         RampForceUnwind, RampPanic, ramp

RampInv == RampTypes /\ GaugeInv /\ WakeInv

\* The invariant holds at the start.
LEMMA RampInvInit == RampInit => RampInv
<1> SUFFICES ASSUME RampInit PROVE RampInv
  OBVIOUS
<1>1. RampTypes /\ WakeInv
  BY DEF RampInit, RampTypes, WakeInv
<1>2. Active = {}
  BY DEF RampInit, Active
<1>3. GaugeInv
  BY <1>2, FS_EmptySet DEF RampInit, GaugeInv
<1> QED
  BY <1>1, <1>3 DEF RampInv

\* Every step keeps the invariant.
LEMMA RampInvStep == RampInv /\ [RampNext]_rampvars => RampInv'
<1> SUFFICES ASSUME RampInv, [RampNext]_rampvars PROVE RampInv'
  OBVIOUS
<1> USE DEF RampInv
<1>1. CASE Outside
  <2>1. /\ UNCHANGED <<ramp_vu, active, active_vus, seen>>
        /\ UNCHANGED <<desired, version>> \/ version' = version + 1
    BY <1>1, OutsideStep
  <2>2. RampTypes'
    BY <2>1 DEF RampTypes
  <2>3. GaugeInv'
    BY <2>1 DEF GaugeInv, Active
  <2>4. WakeInv'
    BY <2>1 DEF WakeInv, RampTypes
  <2> QED
    BY <2>2, <2>3, <2>4
<1>2. ASSUME NEW v \in RampVUs, RampVuStep(v) PROVE RampInv'
  <2>0. UNCHANGED <<desired, version>>
    BY <1>2, VuStepKinds
  <2>1. CASE Deactivate(v) /\ UNCHANGED seen
    <3>1. /\ ramp_vu' = [ramp_vu EXCEPT ![v] = "gone"] /\ SetActive(v, FALSE)
          /\ active' = [active EXCEPT ![v] = FALSE]
      BY <2>1 DEF Deactivate, SetActive
    <3>2. active_vus' = Cardinality(Active')
      BY <3>1, SetActiveCounts DEF RampTypes, GaugeInv
    <3>3. RampTypes'
      BY <2>0, <2>1, <3>1 DEF RampTypes
    <3>4. GaugeInv'
      BY <3>1, <3>2 DEF GaugeInv, RampTypes
    <3>5. WakeInv'
      BY <2>0, <2>1, <3>1 DEF WakeInv, RampTypes
    <3> QED
      BY <3>3, <3>4, <3>5
  <2>2. CASE /\ SetActive(v, v < desired)
             /\ seen' = [seen EXCEPT ![v] = version]
             /\ ramp_vu' = [ramp_vu EXCEPT ![v] = IF v < desired THEN "running" ELSE "parked"]
    <3> DEFINE a == v < desired
    <3>1. a \in BOOLEAN
      OBVIOUS
    <3>2. SetActive(v, a) /\ active' = [active EXCEPT ![v] = a]
      BY <2>2 DEF SetActive
    <3>3. active_vus' = Cardinality(Active')
      BY <3>1, <3>2, SetActiveCounts DEF RampTypes, GaugeInv
    <3>4. RampTypes'
      BY <2>0, <2>2, <3>1, <3>2 DEF RampTypes
    <3>5. GaugeInv'
      BY <2>2, <3>1, <3>2, <3>3 DEF GaugeInv, RampTypes
    <3>6. WakeInv'
      BY <2>0, <2>2 DEF WakeInv, RampTypes
    <3> QED
      BY <3>4, <3>5, <3>6
  <2>3. CASE /\ ramp_vu[v] \in {"parked", "running"}
             /\ ramp_vu' = [ramp_vu EXCEPT ![v] = "deciding"]
             /\ seen' = [seen EXCEPT ![v] = version] \/ UNCHANGED seen
             /\ UNCHANGED <<active, active_vus>>
    <3>1. RampTypes'
      BY <2>0, <2>3 DEF RampTypes
    <3>2. GaugeInv'
      BY <2>3 DEF GaugeInv, RampTypes, Active
    <3>3. WakeInv'
      BY <2>0, <2>3 DEF WakeInv, RampTypes
    <3> QED
      BY <3>1, <3>2, <3>3
  <2>4. CASE /\ ramp_vu[v] = "building"
             /\ ramp_vu' = [ramp_vu EXCEPT ![v] = "gone"]
             /\ UNCHANGED <<active, active_vus, seen>>
    <3>1. RampTypes'
      BY <2>0, <2>4 DEF RampTypes
    <3>2. GaugeInv'
      BY <2>4 DEF GaugeInv, RampTypes, Active
    <3>3. WakeInv'
      BY <2>0, <2>4 DEF WakeInv, RampTypes
    <3> QED
      BY <3>1, <3>2, <3>3
  <2> QED
    BY <1>2, <2>1, <2>2, <2>3, <2>4, VuStepKinds
<1> QED
  BY <1>1, <1>2 DEF RampNext, Outside

\* The REST gauge of active VUs is exact whatever order VUs decide, park, end,
\* unwind and panic in: it counts the controls that are active, never wraps, and
\* reads zero once every VU is gone.
THEOREM GaugeSound == RampSpec => []GaugeExact
<1>1. RampInv => GaugeExact
  BY DEF RampInv, GaugeInv, GaugeExact, Active
<1> QED
  BY <1>1, RampInvInit, RampInvStep, PTL DEF RampSpec

\* No VU parks through the change that asks for it: parking reads the count and
\* marks its version seen in one step, so a later change is an unseen version.
THEOREM WakeupSound == RampSpec => []NoLostWakeup
<1>1. RampInv => NoLostWakeup
  BY DEF RampInv, WakeInv, NoLostWakeup
<1> QED
  BY <1>1, RampInvInit, RampInvStep, PTL DEF RampSpec
=============================================================================
