----------------------------- MODULE ArrivalRate -----------------------------
(***************************************************************************)
(* The arrival-rate executor (k6-js/src/pool.rs, run_arrival_rate_on): one *)
(* coordinator thread, the coroutine VUs on their loop threads, the main   *)
(* thread that joins them and the hard-stop watchdog.                      *)
(*                                                                         *)
(* A VU reports its id on the idle channel and parks on its own dispatch   *)
(* channel.  The coordinator alone owns the idle queue; it follows the     *)
(* arrival integral and, for every arrival, wakes the VU at the head of    *)
(* the queue or counts a drop.  Leaving, it drops the dispatch senders:    *)
(* parked VUs stop at once, running ones at their next boundary, and a VU  *)
(* that never reaches a boundary is force-unwound when the hard token      *)
(* fires.                                                                  *)
(***************************************************************************)
EXTENDS Integers, Sequences, FiniteSets

CONSTANTS VUs,        \* the VU ids of the scenario's pool
          Total,      \* curve.total_duration(), in clock ticks
          Expected    \* Expected[t]: whole arrivals due t ticks into the curve

ASSUME ArrivalAssumption ==
    /\ IsFiniteSet(VUs) /\ VUs # {}
    /\ Total \in Nat
    /\ Expected \in [0..Total -> Nat]
    /\ Expected[0] = 0
    /\ \A s, t \in 0..Total : s <= t => Expected[s] <= Expected[t]

VARIABLES
    vu,           \* [VUs -> {"building", "parked", "running", "gone"}]
    booted,       \* VUs whose coroutine ran its bootstrap (first resume)
    idleChan,     \* idle reports sent and not yet received
    idle,         \* the coordinator's VecDeque of idle ids
    runNext,      \* [VUs -> dispatch messages sent and not yet received]
    sendersOpen,  \* the dispatch senders (run_next_tx) are alive
    coord,        \* where the coordinator is
    started,      \* the coordinator started the run clock (the zero window is not reported)
    now,          \* ticks since the coordinator started the clock, capped
    elapsed,      \* the clock reading of the coordinator's current pass
    dispatched, dropped,                 \* arrivals consumed; of them dropped
    completed, errored, interrupted,     \* the lanes the VUs tally
    degraded,     \* VUs that failed to build or panicked
    lost,         \* (ghost) iterations whose VU panicked
    cancel, hard, \* graceful-stop token, hard-stop token
    main          \* what run_arrival_rate_on is joining

coordVars == <<idle, dispatched, dropped, coord, elapsed>>
tallies   == <<completed, errored, interrupted, degraded, lost>>
vars == <<vu, booted, idleChan, idle, runNext, sendersOpen, coord, started, now, elapsed,
          dispatched, dropped, completed, errored, interrupted, degraded, lost,
          cancel, hard, main>>

Init ==
    /\ vu = [v \in VUs |-> "building"] /\ booted = {}
    /\ idleChan = <<>> /\ idle = <<>>
    /\ runNext = [v \in VUs |-> 0] /\ sendersOpen = TRUE
    /\ coord = "startup" /\ started = FALSE /\ now = 0 /\ elapsed = 0
    /\ dispatched = 0 /\ dropped = 0
    /\ completed = 0 /\ errored = 0 /\ interrupted = 0
    /\ degraded = 0 /\ lost = 0
    /\ cancel = FALSE /\ hard = FALSE
    /\ main = "joinCoordinator"

-----------------------------------------------------------------------------
(* The coordinator thread.                                                 *)

\* One idle report moves from the channel to the queue.
TakeReport ==
    /\ idleChan # <<>>
    /\ idle' = Append(idle, Head(idleChan))
    /\ idleChan' = Tail(idleChan)

\* Startup: collect the initial reports before starting the clock.
StartupRecv ==
    /\ coord = "startup" /\ ~cancel
    /\ Len(idle) < Cardinality(VUs)
    /\ TakeReport
    /\ UNCHANGED <<vu, booted, runNext, sendersOpen, coord, started, now, elapsed,
                   dispatched, dropped, tallies, cancel, hard, main>>

\* Startup ends: every VU reported, the run was cancelled, or the channel is
\* empty at the startup deadline (or for good, every sender being dropped).
\* With nobody ready the coordinator leaves without dispatching anything.
StartupEnd ==
    /\ coord = "startup"
    /\ \/ Len(idle) = Cardinality(VUs)
       \/ cancel
       \/ idleChan = <<>>
    /\ coord' = IF idle = <<>> THEN "closing" ELSE "top"
    /\ started' = (idle # <<>>)
    /\ UNCHANGED <<vu, booted, idleChan, idle, runNext, sendersOpen, now, elapsed,
                   dispatched, dropped, tallies, cancel, hard, main>>

\* Top of the pacing loop: the only place cancellation is polled.
PollCancel ==
    /\ coord = "top"
    /\ coord' = IF cancel THEN "closing" ELSE "drain"
    /\ UNCHANGED <<vu, booted, idleChan, idle, runNext, sendersOpen, started, now, elapsed,
                   dispatched, dropped, tallies, cancel, hard, main>>

DrainReport ==
    /\ coord = "drain"
    /\ TakeReport
    /\ UNCHANGED <<vu, booted, runNext, sendersOpen, coord, started, now, elapsed,
                   dispatched, dropped, tallies, cancel, hard, main>>

\* The channel is drained: read the clock for this pass.
ReadClock ==
    /\ coord = "drain" /\ idleChan = <<>>
    /\ elapsed' = now
    /\ coord' = "fire"
    /\ UNCHANGED <<vu, booted, idleChan, idle, runNext, sendersOpen, started, now,
                   dispatched, dropped, tallies, cancel, hard, main>>

Due == dispatched + 1 <= Expected[elapsed]

\* Mutant: the head of the queue is read and not popped.
DispatchWithoutPop ==
    /\ coord = "fire" /\ Due /\ idle # <<>>
    /\ dispatched' = dispatched + 1
    /\ runNext' = [runNext EXCEPT ![Head(idle)] = @ + 1]
    /\ UNCHANGED <<vu, booted, idleChan, idle, sendersOpen, coord, started, now, elapsed,
                   dropped, tallies, cancel, hard, main>>

\* An arrival wakes the head of the idle queue.  A VU whose receiver is gone
\* makes the send fail, which counts as a drop.
Dispatch ==
    /\ coord = "fire" /\ Due /\ idle # <<>>
    /\ dispatched' = dispatched + 1
    /\ idle' = Tail(idle)
    /\ IF vu[Head(idle)] # "gone"
       THEN runNext' = [runNext EXCEPT ![Head(idle)] = @ + 1] /\ UNCHANGED dropped
       ELSE dropped' = dropped + 1 /\ UNCHANGED runNext
    /\ UNCHANGED <<vu, booted, idleChan, sendersOpen, coord, started, now, elapsed,
                   tallies, cancel, hard, main>>

\* Mutant: the arrival is consumed and the drop is not counted.
DropUncounted ==
    /\ coord = "fire" /\ Due /\ idle = <<>>
    /\ dispatched' = dispatched + 1
    /\ UNCHANGED <<vu, booted, idleChan, idle, runNext, sendersOpen, coord, started, now,
                   elapsed, dropped, tallies, cancel, hard, main>>

\* An arrival with no idle VU is dropped: that is the load-test result.
DropArrival ==
    /\ coord = "fire" /\ Due /\ idle = <<>>
    /\ dispatched' = dispatched + 1
    /\ dropped' = dropped + 1
    /\ UNCHANGED <<vu, booted, idleChan, idle, runNext, sendersOpen, coord, started, now,
                   elapsed, tallies, cancel, hard, main>>

\* Every arrival due in this pass was fired: leave at the end of the curve,
\* otherwise sleep (any time) and poll again.
EndPass ==
    /\ coord = "fire" /\ ~Due
    /\ coord' = IF elapsed >= Total THEN "closing" ELSE "top"
    /\ UNCHANGED <<vu, booted, idleChan, idle, runNext, sendersOpen, started, now, elapsed,
                   dispatched, dropped, tallies, cancel, hard, main>>

\* drop(run_next_tx): graceful stop begins.
DropSenders ==
    /\ coord = "closing"
    /\ sendersOpen' = FALSE
    /\ coord' = "returning"
    /\ UNCHANGED <<vu, booted, idleChan, idle, runNext, started, now, elapsed,
                   dispatched, dropped, tallies, cancel, hard, main>>

\* The coordinator returns, which drops the idle receiver.
CoordReturn ==
    /\ coord = "returning"
    /\ coord' = "done"
    /\ UNCHANGED <<vu, booted, idleChan, idle, runNext, sendersOpen, started, now, elapsed,
                   dispatched, dropped, tallies, cancel, hard, main>>

\* The run clock; it starts when the startup phase is over.
Tick ==
    /\ started /\ coord # "done" /\ now < Total
    /\ now' = now + 1
    /\ UNCHANGED <<vu, booted, idleChan, idle, runNext, sendersOpen, started, coord, elapsed,
                   dispatched, dropped, tallies, cancel, hard, main>>

-----------------------------------------------------------------------------
(* The VUs: drive_vu with the ArrivalControl port.                          *)

\* ArrivalControl::next up to its await: report idle and park, or stop when
\* the coordinator (the idle receiver) is gone.
ReportIdle(v) ==
    IF coord # "done"
    THEN /\ idleChan' = Append(idleChan, v)
         /\ vu' = [vu EXCEPT ![v] = "parked"]
    ELSE /\ vu' = [vu EXCEPT ![v] = "gone"]
         /\ UNCHANGED idleChan

\* The VU is built and spawned; its up-front next(0) has nothing to tally.
FirstIdle(v) ==
    /\ vu[v] = "building"
    /\ ReportIdle(v)
    /\ UNCHANGED <<booted, runNext, sendersOpen, started, now, coordVars, tallies,
                   cancel, hard, main>>

\* The coroutine-stack allocation panicked: this VU alone is skipped.
BuildFails(v) ==
    /\ vu[v] = "building"
    /\ vu' = [vu EXCEPT ![v] = "gone"]
    /\ degraded' = degraded + 1
    /\ UNCHANGED <<booted, idleChan, runNext, sendersOpen, started, now, coordVars,
                   completed, errored, interrupted, lost, cancel, hard, main>>

\* recv() delivers a dispatch, also one buffered before the senders dropped.
Receive(v) ==
    /\ vu[v] = "parked" /\ runNext[v] > 0
    /\ runNext' = [runNext EXCEPT ![v] = @ - 1]
    /\ vu' = [vu EXCEPT ![v] = "running"]
    /\ booted' = booted \cup {v}
    /\ UNCHANGED <<idleChan, sendersOpen, started, now, coordVars, tallies, cancel, hard, main>>

\* recv() returns None: the coroutine is resumed with Stop.  A VU that never
\* ran still bootstraps on that first resume, and may panic doing so.
Stop(v) ==
    /\ vu[v] = "parked" /\ runNext[v] = 0 /\ ~sendersOpen
    /\ vu' = [vu EXCEPT ![v] = "gone"]
    /\ booted' = booted \cup {v}
    /\ \/ UNCHANGED degraded
       \/ v \notin booted /\ degraded' = degraded + 1
    /\ UNCHANGED <<idleChan, runNext, sendersOpen, started, now, coordVars, completed,
                   errored, interrupted, lost, cancel, hard, main>>

\* tally_outcome of an iteration that reached its boundary.  Under the hard
\* token a failed or unsettled iteration is interrupted, never errored.
TallyOutcome ==
    \/ completed' = completed + 1 /\ UNCHANGED <<errored, interrupted>>
    \/ ~hard /\ errored' = errored + 1 /\ UNCHANGED <<completed, interrupted>>
    \/ hard /\ interrupted' = interrupted + 1 /\ UNCHANGED <<completed, errored>>

\* The iteration reaches its boundary: tally it, then report idle again.
EndIteration(v) ==
    /\ vu[v] = "running"
    /\ TallyOutcome
    /\ ReportIdle(v)
    /\ UNCHANGED <<booted, runNext, sendersOpen, started, now, coordVars, degraded, lost,
                   cancel, hard, main>>

\* Mutant: an unwound iteration is counted nowhere.
UnwindUncounted(v) ==
    /\ vu[v] = "running" /\ hard
    /\ vu' = [vu EXCEPT ![v] = "gone"]
    /\ UNCHANGED <<booted, idleChan, runNext, sendersOpen, started, now, coordVars,
                   tallies, cancel, hard, main>>

\* on_hard_cancel!: a VU parked mid-op is unwound and never reports again.
ForceUnwind(v) ==
    /\ vu[v] = "running" /\ hard
    /\ vu' = [vu EXCEPT ![v] = "gone"]
    /\ interrupted' = interrupted + 1
    /\ UNCHANGED <<booted, idleChan, runNext, sendersOpen, started, now, coordVars,
                   completed, errored, degraded, lost, cancel, hard, main>>

\* A panic of the VU's driver, isolated at the task boundary.
Panic(v) ==
    /\ vu[v] = "running"
    /\ vu' = [vu EXCEPT ![v] = "gone"]
    /\ degraded' = degraded + 1
    /\ lost' = lost + 1
    /\ UNCHANGED <<booted, idleChan, runNext, sendersOpen, started, now, coordVars,
                   completed, errored, interrupted, cancel, hard, main>>

-----------------------------------------------------------------------------
(* Tokens and joins.                                                        *)

\* Ctrl+C, a threshold abort, a failed scenario or REST stop.
Cancel ==
    /\ ~cancel
    /\ cancel' = TRUE
    /\ UNCHANGED <<vu, booted, idleChan, runNext, sendersOpen, started, now, coordVars,
                   tallies, hard, main>>

\* REST stop cancels first and then aborts; the hard token is abort's child.
Abort ==
    /\ cancel /\ ~hard
    /\ hard' = TRUE
    /\ UNCHANGED <<vu, booted, idleChan, runNext, sendersOpen, started, now, coordVars,
                   tallies, cancel, main>>

JoinCoordinator ==
    /\ main = "joinCoordinator" /\ coord = "done"
    /\ main' = "joinLoops"
    /\ UNCHANGED <<vu, booted, idleChan, runNext, sendersOpen, started, now, coordVars,
                   tallies, cancel, hard>>

\* Mutant: the watchdog only guards a cancelled run.
WatchdogNeedsCancel ==
    /\ main = "joinLoops" /\ ~hard /\ cancel
    /\ hard' = TRUE
    /\ UNCHANGED <<vu, booted, idleChan, runNext, sendersOpen, started, now, coordVars,
                   tallies, cancel, main>>

\* The watchdog, spawned after the coordinator's join, outlives graceful_stop.
WatchdogFires ==
    /\ main = "joinLoops" /\ ~hard
    /\ hard' = TRUE
    /\ UNCHANGED <<vu, booted, idleChan, runNext, sendersOpen, started, now, coordVars,
                   tallies, cancel, main>>

\* Every loop thread joined: the RunSummary is read.
JoinLoops ==
    /\ main = "joinLoops" /\ \A v \in VUs : vu[v] = "gone"
    /\ main' = "finished"
    /\ UNCHANGED <<vu, booted, idleChan, runNext, sendersOpen, started, now, coordVars,
                   tallies, cancel, hard>>

\* The executor returned; nothing happens any more.
Finished == main = "finished" /\ UNCHANGED vars

-----------------------------------------------------------------------------
Coordinator ==
    \/ StartupRecv \/ StartupEnd \/ PollCancel \/ DrainReport \/ ReadClock
    \/ Dispatch \/ DropArrival \/ EndPass \/ DropSenders \/ CoordReturn

VuStep(v) ==
    \/ FirstIdle(v) \/ BuildFails(v) \/ Receive(v) \/ Stop(v)
    \/ EndIteration(v) \/ ForceUnwind(v) \/ Panic(v)

Next ==
    \/ Coordinator \/ Tick
    \/ \E v \in VUs : VuStep(v)
    \/ Cancel \/ Abort \/ JoinCoordinator \/ WatchdogFires \/ JoinLoops
    \/ Finished

Spec == Init /\ [][Next]_vars

\* Threads keep running and time passes.  An iteration need not end by itself
\* (hung I/O, an endless loop); only under the hard token must it: the driver's
\* select and the CPU interrupt handler both watch that token.
Fairness ==
    /\ WF_vars(Coordinator) /\ WF_vars(Tick)
    /\ WF_vars(JoinCoordinator) /\ WF_vars(WatchdogFires) /\ WF_vars(JoinLoops)
    /\ \A v \in VUs :
         /\ WF_vars(FirstIdle(v) \/ BuildFails(v))
         /\ WF_vars(Receive(v)) /\ WF_vars(Stop(v))
         /\ WF_vars(hard /\ (EndIteration(v) \/ ForceUnwind(v)))

FairSpec == Spec /\ Fairness

-----------------------------------------------------------------------------
(* Properties.                                                              *)

\* Every variable stays in its domain.
TypeOK ==
    /\ vu \in [VUs -> {"building", "parked", "running", "gone"}]
    /\ booted \subseteq VUs
    /\ idleChan \in Seq(VUs) /\ idle \in Seq(VUs)
    /\ runNext \in [VUs -> Nat] /\ sendersOpen \in BOOLEAN
    /\ coord \in {"startup", "top", "drain", "fire", "closing", "returning", "done"}
    /\ started \in BOOLEAN /\ now \in 0..Total /\ elapsed \in 0..Total
    /\ dispatched \in Nat /\ dropped \in Nat /\ completed \in Nat
    /\ errored \in Nat /\ interrupted \in Nat /\ degraded \in Nat /\ lost \in Nat
    /\ cancel \in BOOLEAN /\ hard \in BOOLEAN
    /\ main \in {"joinCoordinator", "joinLoops", "finished"}

Queued(v) == \/ \E i \in 1..Len(idleChan) : idleChan[i] = v
             \/ \E i \in 1..Len(idle) : idle[i] = v

Injective(s) == \A i, j \in 1..Len(s) : s[i] = s[j] => i = j

\* The single-writer claim of the coordinator: a VU is at most once on its way
\* to, or in, the idle queue, and then no dispatch is pending for it and, until
\* the senders are dropped, it is parked; a VU with a pending dispatch is parked
\* and has exactly one.  So one arrival never wakes two iterations, no VU is
\* dispatched while it is busy, and no arrival is wasted on a dead VU.
IdleIffParked ==
    /\ Injective(idleChan) /\ Injective(idle)
    /\ \A i \in 1..Len(idleChan), j \in 1..Len(idle) : idleChan[i] # idle[j]
    /\ \A v \in VUs :
         /\ Queued(v) => runNext[v] = 0 /\ (vu[v] = "parked" \/ (vu[v] = "gone" /\ ~sendersOpen))
         /\ runNext[v] > 0 => vu[v] = "parked" /\ runNext[v] = 1

InFlight == {v \in VUs : vu[v] = "running" \/ runNext[v] > 0}

\* Conservation (RunSummary): every consumed arrival is in exactly one lane or
\* still occupies a VU, whatever the interleaving of dispatch, shutdown, force
\* unwind and panics.
LanesConserved ==
    dispatched = dropped + completed + errored + interrupted + lost
                 + Cardinality(InFlight)

\* The summary of a run that was not cancelled and found a ready VU accounts
\* for every arrival the curve schedules, except those whose VU panicked; in
\* particular nothing dispatched just before the senders drop is forgotten.
SummaryComplete ==
    (main = "finished" /\ started /\ ~cancel)
        => completed + dropped + errored + interrupted + lost = Expected[Total]

\* The executor always returns: hung iterations, dead VUs and cancellation at
\* any moment included.
Terminates == <>(main = "finished")

\* The executor implements the abstract lanes.
Lanes == INSTANCE ArrivalLanes WITH
    Capacity <- Cardinality(VUs),
    Scheduled <- Expected[Total],
    inflight <- Cardinality(InFlight)

ImplementsLanes == Lanes!Spec
=============================================================================
