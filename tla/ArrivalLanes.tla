---------------------------- MODULE ArrivalLanes ----------------------------
(***************************************************************************)
(* What the arrival-rate executor promises, without channels, threads or   *)
(* tokens (RunSummary's contract, k6-core/src/traits.rs).  Every scheduled *)
(* arrival is consumed exactly once: it is dropped on the spot, or it      *)
(* occupies one of Capacity VUs and later leaves through exactly one lane. *)
(* `lost` is the lane of iterations whose VU panicked: the code counts the *)
(* VU (vus_degraded), not the iteration.                                   *)
(***************************************************************************)
EXTENDS Integers

CONSTANTS Capacity,   \* number of VUs of the pool
          Scheduled   \* arrivals the whole curve schedules

VARIABLES dispatched, inflight, completed, errored, interrupted, dropped, lost

vars == <<dispatched, inflight, completed, errored, interrupted, dropped, lost>>

Init ==
    /\ dispatched = 0 /\ inflight = 0
    /\ completed = 0 /\ errored = 0 /\ interrupted = 0
    /\ dropped = 0 /\ lost = 0

\* An arrival finds a free VU.
Start ==
    /\ dispatched < Scheduled /\ inflight < Capacity
    /\ dispatched' = dispatched + 1
    /\ inflight' = inflight + 1
    /\ UNCHANGED <<completed, errored, interrupted, dropped, lost>>

\* An arrival finds none.
Drop ==
    /\ dispatched < Scheduled
    /\ dispatched' = dispatched + 1
    /\ dropped' = dropped + 1
    /\ UNCHANGED <<inflight, completed, errored, interrupted, lost>>

\* An iteration in flight leaves through one lane.
Finish ==
    /\ inflight > 0
    /\ inflight' = inflight - 1
    /\ \/ completed' = completed + 1 /\ UNCHANGED <<errored, interrupted, lost>>
       \/ errored' = errored + 1 /\ UNCHANGED <<completed, interrupted, lost>>
       \/ interrupted' = interrupted + 1 /\ UNCHANGED <<completed, errored, lost>>
       \/ lost' = lost + 1 /\ UNCHANGED <<completed, errored, interrupted>>
    /\ UNCHANGED <<dispatched, dropped>>

Next == Start \/ Drop \/ Finish

Spec == Init /\ [][Next]_vars
=============================================================================
