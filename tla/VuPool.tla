------------------------------- MODULE VuPool -------------------------------
(***************************************************************************)
(* The VU-count executors of k6-js/src/pool.rs: constant-vus,              *)
(* per-vu-iterations and shared-iterations.  They share the spawn skeleton *)
(* (run_vus_on_loops), the two-phase hard-stop watchdog and the summary,   *)
(* and differ in the control consulted before every iteration.  The VU     *)
(* itself (VuSched) is reduced to building, deciding, running, gone.       *)
(***************************************************************************)
EXTENDS Integers, FiniteSets

CONSTANTS
    VUs,        \* VU ids
    Modes,      \* the executors considered
    Iterations, \* per-vu: iterations_per_vu; shared: total_iterations
    MaxIters    \* bound: iterations a constant-vus VU completes by itself

ASSUME PoolAssumption ==
    /\ IsFiniteSet(VUs)
    /\ Modes \subseteq {"constant-vus", "per-vu-iterations", "shared-iterations"}
    /\ Iterations \in Nat /\ MaxIters \in Nat

VARIABLES
    mode,       \* the executor of this run
    vu,         \* [VUs -> "building" | "deciding" | "claiming" | "running" | "gone"]
    n,          \* [VUs -> iterations this VU has finished]
    cur,        \* [VUs -> the value its claim loop loaded]
    remaining,  \* the shared budget
    claims,     \* (ghost) iterations started
    completed, errored, interrupted, degraded,
    lost,       \* (ghost) iterations whose VU panicked
    expired, cancel, hard,   \* deadline passed; graceful and hard tokens
    watchdog,   \* "phase1" | "phase2" | "exited"
    joined,     \* the watchdog's done flag: every loop thread joined
    dropped     \* the summary's dropped lane, -1 until it is computed

tallies == <<completed, errored, interrupted, degraded, lost>>
signals == <<expired, cancel, hard>>
vars == <<mode, vu, n, cur, remaining, claims, tallies, signals, watchdog, joined, dropped>>

Init ==
    /\ mode \in Modes
    /\ vu = [v \in VUs |-> "building"]
    /\ n = [v \in VUs |-> 0] /\ cur = [v \in VUs |-> 0]
    /\ remaining = Iterations /\ claims = 0
    /\ completed = 0 /\ errored = 0 /\ interrupted = 0 /\ degraded = 0 /\ lost = 0
    /\ expired = FALSE /\ cancel = FALSE /\ hard = FALSE
    /\ watchdog = "phase1" /\ joined = FALSE /\ dropped = -1

Run(v) == /\ vu' = [vu EXCEPT ![v] = "running"]
          /\ claims' = claims + 1
          /\ UNCHANGED <<cur, remaining, degraded>>

\* A VU stopped before its first iteration still bootstraps on that resume, and
\* may panic doing so.
Leave(v) == /\ vu' = [vu EXCEPT ![v] = "gone"]
            /\ \/ UNCHANGED degraded
               \/ n[v] = 0 /\ degraded' = degraded + 1
            /\ UNCHANGED <<cur, remaining, claims>>

\* The claim loop's load: stop on an exhausted budget, else try the exchange.
LoadBudget(v) ==
    IF remaining = 0
    THEN Leave(v)
    ELSE /\ cur' = [cur EXCEPT ![v] = remaining]
         /\ vu' = [vu EXCEPT ![v] = "claiming"]
         /\ UNCHANGED <<remaining, claims, degraded>>

\* The control's answer, before the first iteration and after each: the closures'
\* boolean expression, and for shared-iterations the entry of the claim loop.
Control(v) ==
    /\ vu[v] \in {"building", "deciding"}
    /\ IF cancel \/ expired THEN Leave(v)
       ELSE CASE mode = "constant-vus"      -> Run(v)
              [] mode = "per-vu-iterations" -> IF n[v] < Iterations THEN Run(v) ELSE Leave(v)
              [] mode = "shared-iterations" -> LoadBudget(v)
    /\ UNCHANGED <<mode, n, completed, errored, interrupted, lost, signals, watchdog, joined, dropped>>

\* Its coroutine stack cannot be allocated: skipped, the others run.
BuildFails(v) ==
    /\ vu[v] = "building"
    /\ vu' = [vu EXCEPT ![v] = "gone"]
    /\ degraded' = degraded + 1
    /\ UNCHANGED <<mode, n, cur, remaining, claims, completed, errored, interrupted, lost,
                   signals, watchdog, joined, dropped>>

\* compare_exchange_weak succeeds.
Claim(v) ==
    /\ vu[v] = "claiming" /\ remaining = cur[v]
    /\ remaining' = cur[v] - 1
    /\ vu' = [vu EXCEPT ![v] = "running"]
    /\ claims' = claims + 1
    /\ UNCHANGED <<mode, n, cur, tallies, signals, watchdog, joined, dropped>>

\* It fails, also spuriously: load again.
ClaimRetry(v) ==
    /\ vu[v] = "claiming"
    /\ LoadBudget(v)
    /\ UNCHANGED <<mode, n, completed, errored, interrupted, lost, signals, watchdog, joined, dropped>>

\* tally_outcome: under the hard token nothing lands in the errored lane.
TallyOutcome ==
    \/ completed' = completed + 1 /\ UNCHANGED <<errored, interrupted>>
    \/ ~hard /\ errored' = errored + 1 /\ UNCHANGED <<completed, interrupted>>
    \/ hard /\ interrupted' = interrupted + 1 /\ UNCHANGED <<completed, errored>>

\* An iteration reaches its boundary and is tallied; the control decides next.
EndIteration(v) ==
    /\ vu[v] = "running"
    /\ mode = "constant-vus" => n[v] < MaxIters
    /\ n' = [n EXCEPT ![v] = @ + 1]
    /\ TallyOutcome
    /\ vu' = [vu EXCEPT ![v] = "deciding"]
    /\ UNCHANGED <<mode, cur, remaining, claims, degraded, lost, signals, watchdog, joined, dropped>>

\* Mutant: an unwound iteration is counted nowhere.
UnwindUncounted(v) ==
    /\ vu[v] = "running" /\ hard
    /\ vu' = [vu EXCEPT ![v] = "gone"]
    /\ UNCHANGED <<mode, n, cur, remaining, claims, tallies, signals, watchdog, joined, dropped>>

\* The driver's select sees the hard token.
ForceUnwind(v) ==
    /\ vu[v] = "running" /\ hard
    /\ vu' = [vu EXCEPT ![v] = "gone"]
    /\ interrupted' = interrupted + 1
    /\ UNCHANGED <<mode, n, cur, remaining, claims, completed, errored, degraded, lost,
                   signals, watchdog, joined, dropped>>

\* A panic isolated to its VU by catch_unwind.
Panic(v) ==
    /\ vu[v] = "running"
    /\ vu' = [vu EXCEPT ![v] = "gone"]
    /\ degraded' = degraded + 1 /\ lost' = lost + 1
    /\ UNCHANGED <<mode, n, cur, remaining, claims, completed, errored, interrupted,
                   signals, watchdog, joined, dropped>>

-----------------------------------------------------------------------------
Others == <<mode, vu, n, cur, remaining, claims, tallies, dropped>>

DeadlinePasses ==
    /\ ~expired /\ expired' = TRUE
    /\ UNCHANGED <<Others, cancel, hard, watchdog, joined>>

Cancel ==
    /\ ~cancel /\ cancel' = TRUE
    /\ UNCHANGED <<Others, expired, hard, watchdog, joined>>

\* The REST stop cancels, then aborts; the hard token is abort's child.
Abort ==
    /\ cancel /\ ~hard /\ hard' = TRUE
    /\ UNCHANGED <<Others, expired, cancel, watchdog, joined>>

\* The watchdog polls its flags: graceful stop begins, or everything joined.
WatchdogPhase1 ==
    /\ watchdog = "phase1"
    /\ \/ joined /\ watchdog' = "exited"
       \/ ~joined /\ (cancel \/ expired) /\ watchdog' = "phase2"
    /\ UNCHANGED <<Others, signals, joined>>

\* Mutant: the window ends and nothing is cancelled.
Phase2Silent ==
    /\ watchdog = "phase2"
    /\ watchdog' = "exited"
    /\ UNCHANGED <<Others, signals, joined>>

\* The graceful window ends (any time later): fire unless everything joined.
WatchdogPhase2 ==
    /\ watchdog = "phase2"
    /\ watchdog' = "exited"
    /\ hard' = (hard \/ ~joined)
    /\ UNCHANGED <<Others, expired, cancel, joined>>

\* Every loop thread joined; Watchdog::finish raises the flag.
JoinLoops ==
    /\ ~joined /\ \A v \in VUs : vu[v] = "gone"
    /\ joined' = TRUE
    /\ UNCHANGED <<Others, signals, watchdog>>

Unlimited == -1

Planned == CASE mode = "constant-vus"      -> Unlimited
             [] mode = "per-vu-iterations" -> Iterations * Cardinality(VUs)
             [] mode = "shared-iterations" -> Iterations

\* Mutant: an errored iteration does not use up the budget.
RanWithoutErrored == completed + interrupted

Ran == completed + errored + interrupted

\* The watchdog joined: the summary is computed (saturating_sub).
Summarize ==
    /\ joined /\ watchdog = "exited" /\ dropped = -1
    /\ dropped' = IF Ran < Planned THEN Planned - Ran ELSE 0
    /\ UNCHANGED <<mode, vu, n, cur, remaining, claims, tallies, signals, watchdog, joined>>

Finished == dropped # -1 /\ UNCHANGED vars

VuStep(v) == \/ Control(v) \/ BuildFails(v) \/ Claim(v) \/ ClaimRetry(v)
             \/ EndIteration(v) \/ ForceUnwind(v) \/ Panic(v)

Next == \/ \E v \in VUs : VuStep(v)
        \/ DeadlinePasses \/ Cancel \/ Abort
        \/ WatchdogPhase1 \/ WatchdogPhase2 \/ JoinLoops \/ Summarize
        \/ Finished

Spec == Init /\ [][Next]_vars

-----------------------------------------------------------------------------
(* Properties.                                                              *)

\* Every variable stays in its domain.
TypeOK ==
    /\ mode \in Modes
    /\ vu \in [VUs -> {"building", "deciding", "claiming", "running", "gone"}]
    /\ n \in [VUs -> Nat] /\ cur \in [VUs -> Nat]
    /\ remaining \in 0..Iterations /\ claims \in Nat
    /\ completed \in Nat /\ errored \in Nat /\ interrupted \in Nat
    /\ degraded \in Nat /\ lost \in Nat
    /\ expired \in BOOLEAN /\ cancel \in BOOLEAN /\ hard \in BOOLEAN
    /\ watchdog \in {"phase1", "phase2", "exited"} /\ joined \in BOOLEAN
    /\ dropped \in Nat \cup {-1}

Running == {v \in VUs : vu[v] = "running"}

\* Every iteration started is in exactly one lane or still running.
LanesConserved ==
    claims = completed + errored + interrupted + lost + Cardinality(Running)

\* "claims == iterations that run" (shared-iterations): the budget is never
\* oversubscribed, however the claim loops of the VUs interleave.
BudgetExact ==
    mode = "shared-iterations" => claims + remaining = Iterations

\* The hard tier never fires before graceful stop began.
HardAfterGraceful == hard => cancel \/ expired

\* The three executors implement the abstract budget.
Budget == INSTANCE IterationBudget WITH
    planned <- Planned,
    claimed <- claims,
    finished <- [completed |-> completed, errored |-> errored,
                 interrupted |-> interrupted, lost |-> lost],
    dropped <- dropped

ImplementsBudget == Budget!Spec
=============================================================================
