----------------------------- MODULE RampingVus -----------------------------
(***************************************************************************)
(* The ramping-vus executor (k6-js/src/pool.rs, run_ramping_vus): a        *)
(* controller thread drives the desired VU count along the schedule and    *)
(* broadcasts it on a watch channel; VU number i is active while           *)
(* i < desired, otherwise it parks until the count changes or the run      *)
(* stops.  The control also keeps the REST gauge of active VUs.            *)
(***************************************************************************)
EXTENDS Integers, FiniteSets

CONSTANTS
    MaxVUs,        \* pre-allocated VUs, numbered from 0
    Total,         \* schedule.total_duration(), in clock ticks
    Want,          \* Want[t]: schedule.interpolate at tick t
    RampMaxIters   \* bound: iterations a VU completes by itself

RampVUs == 0..MaxVUs - 1

ASSUME RampAssumption ==
    /\ MaxVUs \in Nat /\ Total \in Nat /\ RampMaxIters \in Nat
    /\ Want \in [0..Total -> 0..MaxVUs]

VARIABLES
    ramp_vu,     \* [RampVUs -> "building" | "deciding" | "parked" | "running" | "gone"]
    iters,       \* [RampVUs -> iterations finished]
    active,      \* [RampVUs -> the control's active flag]
    active_vus,  \* Control.active_vus, the REST gauge
    desired, version,  \* value and version of the watch channel
    seen,        \* [RampVUs -> version its receiver marked seen]
    controller,  \* "check" | "send" | "stopping" | "dropping" | "exited"
    last,        \* the count the controller sent last, -1 for u32::MAX
    stop,        \* the VUs' graceful-stop token
    now, ramp_cancel, ramp_hard, ramp_watchdog, ramp_joined,
    ramp_completed, ramp_errored, ramp_interrupted, ramp_degraded,
    returned     \* run_ramping_vus returned its summary

ramp    == <<desired, version, controller, last, stop>>
ramp_tallies == <<ramp_completed, ramp_errored, ramp_interrupted, ramp_degraded>>
tail    == <<now, ramp_cancel, ramp_hard, ramp_watchdog, ramp_joined, returned>>
rampvars == <<ramp_vu, iters, active, active_vus, seen, ramp, ramp_tallies, tail>>

RampInit ==
    /\ ramp_vu = [v \in RampVUs |-> "building"] /\ iters = [v \in RampVUs |-> 0]
    /\ active = [v \in RampVUs |-> FALSE] /\ active_vus = 0
    /\ desired = 0 /\ version = 0 /\ seen = [v \in RampVUs |-> 0]
    /\ controller = "check" /\ last = -1 /\ stop = FALSE
    /\ now = 0 /\ ramp_cancel = FALSE /\ ramp_hard = FALSE
    /\ ramp_watchdog = "phase1" /\ ramp_joined = FALSE /\ returned = FALSE
    /\ ramp_completed = 0 /\ ramp_errored = 0 /\ ramp_interrupted = 0 /\ ramp_degraded = 0

-----------------------------------------------------------------------------
(* The controller thread.                                                   *)

\* The loop condition; after it the clock is read once more.
RampCheck ==
    /\ controller = "check"
    /\ controller' = IF ~ramp_cancel /\ now < Total THEN "send" ELSE "stopping"
    /\ UNCHANGED <<ramp_vu, iters, active, active_vus, seen, desired, version, last, stop,
                   ramp_tallies, tail>>

\* Broadcast only an actual change, then sleep (any time) and check again.
RampSend ==
    /\ controller = "send"
    /\ controller' = "check"
    /\ IF Want[now] # last
       THEN desired' = Want[now] /\ version' = version + 1 /\ last' = Want[now]
       ELSE UNCHANGED <<desired, version, last>>
    /\ UNCHANGED <<ramp_vu, iters, active, active_vus, seen, stop, ramp_tallies, tail>>

\* Mutant: the controller leaves without raising the stop token.
RampStopSilent ==
    /\ controller = "stopping"
    /\ controller' = "dropping"
    /\ UNCHANGED <<ramp_vu, iters, active, active_vus, seen, desired, version, last, stop, ramp_tallies, tail>>

\* The schedule ended or the run was cancelled.
RampStop ==
    /\ controller = "stopping"
    /\ controller' = "dropping"
    /\ stop' = TRUE
    /\ UNCHANGED <<ramp_vu, iters, active, active_vus, seen, desired, version, last, ramp_tallies, tail>>

\* The closure returns and drops desired_tx.
RampExit ==
    /\ controller = "dropping"
    /\ controller' = "exited"
    /\ UNCHANGED <<ramp_vu, iters, active, active_vus, seen, desired, version, last, stop,
                   ramp_tallies, tail>>

-----------------------------------------------------------------------------
(* A VU and its RampingControl.                                             *)

\* RampingControl::active: the gauge moves only when the flag does.
SetActive(v, a) ==
    /\ active' = [active EXCEPT ![v] = a]
    /\ active_vus' = active_vus + (IF a /\ ~active[v] THEN 1
                                   ELSE IF ~a /\ active[v] THEN -1 ELSE 0)

\* Mutant: dropping the control leaves the VU in the gauge.
DeactivateSilently(v) ==
    /\ ramp_vu' = [ramp_vu EXCEPT ![v] = "gone"]
    /\ UNCHANGED <<active, active_vus>>

\* The VU ends; dropping its control deactivates it.
Deactivate(v) ==
    /\ ramp_vu' = [ramp_vu EXCEPT ![v] = "gone"]
    /\ SetActive(v, FALSE)

\* One pass of next()'s loop: stop, run, or park having marked the version seen.
Decide(v) ==
    /\ ramp_vu[v] \in {"building", "deciding"}
    /\ IF stop
       THEN /\ Deactivate(v)
            /\ UNCHANGED seen
            /\ \/ UNCHANGED ramp_degraded
               \/ iters[v] = 0 /\ ramp_degraded' = ramp_degraded + 1   \* bootstrap at Stop
       ELSE /\ seen' = [seen EXCEPT ![v] = version]
            /\ SetActive(v, v < desired)
            /\ ramp_vu' = [ramp_vu EXCEPT ![v] = IF v < desired THEN "running" ELSE "parked"]
            /\ UNCHANGED ramp_degraded
    /\ UNCHANGED <<iters, ramp, ramp_completed, ramp_errored, ramp_interrupted, tail>>

\* Mutant: the change is marked seen and the VU awaits the next one.
WakeIgnored(v) ==
    /\ ramp_vu[v] = "parked"
    /\ version # seen[v] \/ controller = "exited"
    /\ seen' = [seen EXCEPT ![v] = version]
    /\ UNCHANGED <<ramp_vu, iters, active, active_vus, ramp, ramp_tallies, tail>>

\* changed() resolves: an unseen version, or the sender is gone.
Wake(v) ==
    /\ ramp_vu[v] = "parked"
    /\ version # seen[v] \/ controller = "exited"
    /\ seen' = [seen EXCEPT ![v] = version]
    /\ ramp_vu' = [ramp_vu EXCEPT ![v] = "deciding"]
    /\ UNCHANGED <<iters, active, active_vus, ramp, ramp_tallies, tail>>

\* stop.cancelled() resolves.
WakeStop(v) ==
    /\ ramp_vu[v] = "parked" /\ stop
    /\ Deactivate(v)
    /\ \/ UNCHANGED ramp_degraded
       \/ iters[v] = 0 /\ ramp_degraded' = ramp_degraded + 1
    /\ UNCHANGED <<iters, seen, ramp, ramp_completed, ramp_errored, ramp_interrupted, tail>>

RampBuildFails(v) ==
    /\ ramp_vu[v] = "building"
    /\ ramp_vu' = [ramp_vu EXCEPT ![v] = "gone"]
    /\ ramp_degraded' = ramp_degraded + 1
    /\ UNCHANGED <<iters, active, active_vus, seen, ramp, ramp_completed, ramp_errored, ramp_interrupted, tail>>

\* tally_outcome: under the hard token nothing lands in the errored lane.
RampTally ==
    \/ ramp_completed' = ramp_completed + 1 /\ UNCHANGED <<ramp_errored, ramp_interrupted>>
    \/ ~ramp_hard /\ ramp_errored' = ramp_errored + 1 /\ UNCHANGED <<ramp_completed, ramp_interrupted>>
    \/ ramp_hard /\ ramp_interrupted' = ramp_interrupted + 1 /\ UNCHANGED <<ramp_completed, ramp_errored>>

RampIterationEnds(v) ==
    /\ ramp_vu[v] = "running" /\ iters[v] < RampMaxIters
    /\ iters' = [iters EXCEPT ![v] = @ + 1]
    /\ RampTally
    /\ ramp_vu' = [ramp_vu EXCEPT ![v] = "deciding"]
    /\ UNCHANGED <<active, active_vus, seen, ramp, ramp_degraded, tail>>

RampForceUnwind(v) ==
    /\ ramp_vu[v] = "running" /\ ramp_hard
    /\ Deactivate(v)
    /\ ramp_interrupted' = ramp_interrupted + 1
    /\ UNCHANGED <<iters, seen, ramp, ramp_completed, ramp_errored, ramp_degraded, tail>>

RampPanic(v) ==
    /\ ramp_vu[v] = "running"
    /\ Deactivate(v)
    /\ ramp_degraded' = ramp_degraded + 1
    /\ UNCHANGED <<iters, seen, ramp, ramp_completed, ramp_errored, ramp_interrupted, tail>>

-----------------------------------------------------------------------------
(* Clock, tokens, watchdog and joins.                                       *)

Rest == <<ramp_vu, iters, active, active_vus, seen, ramp, ramp_tallies>>

RampTick ==
    /\ now < Total /\ now' = now + 1
    /\ UNCHANGED <<Rest, ramp_cancel, ramp_hard, ramp_watchdog, ramp_joined, returned>>

RampCancel ==
    /\ ~ramp_cancel /\ ramp_cancel' = TRUE
    /\ UNCHANGED <<Rest, now, ramp_hard, ramp_watchdog, ramp_joined, returned>>

\* The REST stop cancels, then aborts; the hard token is abort's child.
RampAbort ==
    /\ ramp_cancel /\ ~ramp_hard /\ ramp_hard' = TRUE
    /\ UNCHANGED <<Rest, now, ramp_cancel, ramp_watchdog, ramp_joined, returned>>

RampPhase1 ==
    /\ ramp_watchdog = "phase1"
    /\ \/ ramp_joined /\ ramp_watchdog' = "exited"
       \/ ~ramp_joined /\ (ramp_cancel \/ now = Total) /\ ramp_watchdog' = "phase2"
    /\ UNCHANGED <<Rest, now, ramp_cancel, ramp_hard, ramp_joined, returned>>

RampPhase2 ==
    /\ ramp_watchdog = "phase2"
    /\ ramp_watchdog' = "exited"
    /\ ramp_hard' = (ramp_hard \/ ~ramp_joined)
    /\ UNCHANGED <<Rest, now, ramp_cancel, ramp_joined, returned>>

RampJoin ==
    /\ ~ramp_joined /\ \A v \in RampVUs : ramp_vu[v] = "gone"
    /\ ramp_joined' = TRUE
    /\ UNCHANGED <<Rest, now, ramp_cancel, ramp_hard, ramp_watchdog, returned>>

\* Watchdog and controller joined: the summary is read.
RampReturn ==
    /\ ramp_joined /\ ramp_watchdog = "exited" /\ controller = "exited" /\ ~returned
    /\ returned' = TRUE
    /\ UNCHANGED <<Rest, now, ramp_cancel, ramp_hard, ramp_watchdog, ramp_joined>>

RampFinished == returned /\ UNCHANGED rampvars

RampController == RampCheck \/ RampSend \/ RampStop \/ RampExit

RampVuStep(v) == \/ Decide(v) \/ Wake(v) \/ WakeStop(v) \/ RampBuildFails(v)
                 \/ RampIterationEnds(v) \/ RampForceUnwind(v) \/ RampPanic(v)

RampNext == \/ RampController \/ \E v \in RampVUs : RampVuStep(v)
            \/ RampTick \/ RampCancel \/ RampAbort \/ RampPhase1 \/ RampPhase2
            \/ RampJoin \/ RampReturn \/ RampFinished

RampSpec == RampInit /\ [][RampNext]_rampvars

-----------------------------------------------------------------------------
(* Properties.                                                              *)

\* The REST gauge counts the VUs whose control is active, so it never wraps
\* below zero and is back at zero when the executor returns; a running VU is
\* active and a parked one is not.
GaugeExact ==
    /\ active_vus = Cardinality({v \in RampVUs : active[v]})
    /\ \A v \in RampVUs : /\ ramp_vu[v] = "running" => active[v]
                      /\ ramp_vu[v] \in {"parked", "gone"} => ~active[v]

\* No lost wakeup: a VU parked although it is below the desired count has an
\* unseen version waiting for it.
NoLostWakeup ==
    \A v \in RampVUs : (ramp_vu[v] = "parked" /\ v < desired) => version # seen[v]

=============================================================================
