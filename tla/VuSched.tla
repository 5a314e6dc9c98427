------------------------------- MODULE VuSched -------------------------------
(***************************************************************************)
(* One coroutine VU: the async driver (k6-js/src/vu_sched.rs, drive_vu) and *)
(* the long-lived coroutine it resumes (k6-js/src/coroutine_vu.rs).  They   *)
(* share the async-op bookkeeping of VuShared; the driver owns the futures, *)
(* the coroutine owns the JS context.  `pc` says which of the two has the   *)
(* thread and where it is.                                                  *)
(*                                                                          *)
(* The script is arbitrary: between two yields it registers async requests, *)
(* blocks on one op or on a batch, returns, throws, or returns a promise.   *)
(* Its top level runs in the first resume, with the same API installed.     *)
(***************************************************************************)
EXTENDS Integers, FiniteSets

CONSTANTS
    MaxIters,      \* bound: iterations one VU starts
    MaxOps,        \* bound: async requests it registers in all
    MaxBatch,      \* bound: requests of one http.batch
    TopLevelAsync, \* TRUE: the top level of the script may call asyncRequest
    NestedSync,    \* TRUE: jobs (code after an await) may call blocking APIs too
    ScriptsSettle, \* TRUE: an unsettled promise always waits for an async request
    Lagging        \* FALSE: the control's stop condition holds before the hard
                   \* token fires (constant-vus, per-vu, shared-iterations); TRUE:
                   \* it is relayed by a polling thread (ramping-vus, arrival-rate)

ASSUME SchedAssumption ==
    /\ MaxIters \in Nat /\ MaxOps \in Nat /\ MaxBatch \in Nat
    /\ TopLevelAsync \in BOOLEAN /\ NestedSync \in BOOLEAN /\ ScriptsSettle \in BOOLEAN /\ Lagging \in BOOLEAN

VARIABLES
    pc,           \* who runs: see TypeOK
    sig,          \* what the coroutine was last resumed with at a boundary
    task,         \* the JS that runs: top level, exec function or a queued job
    done, failed, \* __done, __failed
    fresh,        \* a job is queued although no async request resolved
    next_op, outstanding, registered, completedOps, async_meta,   \* VuShared
    pending,      \* ids of the driver's FuturesUnordered
    batch,        \* requests of the current http.batch still running
    booted,       \* the coroutine was resumed for the first time
    started,      \* (ghost) iterations started
    result,       \* outcome cell, read and tallied at the boundary
    completed, errored, interrupted, degraded,
    lost,         \* (ghost) iterations that died with a panic
    spurious,     \* (ghost) VUs that were unwound while they had no iteration
    stop, hard    \* the control's stop condition; the hard token

js     == <<sig, task, done, failed, fresh>>
book   == <<next_op, outstanding, registered, completedOps, async_meta>>
lanes  == <<completed, errored, interrupted>>
faults == <<degraded, lost, spurious>>
vars == <<pc, js, book, pending, batch, booted, started, result, lanes, faults, stop, hard>>

Init ==
    /\ pc = "boundary" /\ sig = "RunNext" /\ task = "top"
    /\ done = FALSE /\ failed = FALSE /\ fresh = FALSE
    /\ next_op = 0 /\ outstanding = 0
    /\ registered = {} /\ completedOps = {} /\ async_meta = {}
    /\ pending = {} /\ batch = 0
    /\ booted = FALSE /\ started = 0 /\ result = "none"
    /\ completed = 0 /\ errored = 0 /\ interrupted = 0
    /\ degraded = 0 /\ lost = 0 /\ spurious = 0
    /\ stop = FALSE /\ hard = FALSE

Clean == outstanding = 0 /\ registered = {} /\ completedOps = {} /\ async_meta = {}

\* Mutant: the new futures replace the ones in flight.
PullReplaces == pending' = registered /\ registered' = {}

\* After every yield the driver turns the registered ops into futures.
PullRegistered ==
    /\ pending' = pending \cup registered
    /\ registered' = {}

-----------------------------------------------------------------------------
(* The boundary: control.next(done_iters), and once before the first resume. *)

\* tally_outcome, then empty the cell (the next iteration overwrites it).
Tally ==
    /\ completed' = completed + (IF result = "Completed" THEN 1 ELSE 0)
    /\ errored' = errored + (IF result = "Errored" THEN 1 ELSE 0)
    /\ interrupted' = interrupted + (IF result = "Interrupted" THEN 1 ELSE 0)
    /\ result' = "none"

\* The first resume boots, whichever signal came: it evaluates the top level of
\* the script.
ResumeVu ==
    IF booted THEN pc' = "begin" /\ UNCHANGED <<task, booted>>
    ELSE pc' = "js" /\ task' = "top" /\ booted' = TRUE

RunNext ==
    /\ pc = "boundary" /\ ~stop /\ started < MaxIters
    /\ Tally
    /\ started' = started + 1
    /\ sig' = "RunNext" /\ ResumeVu
    /\ UNCHANGED <<done, failed, fresh, book, pending, batch, faults, stop, hard>>

\* The control declined (its stop condition, or an iteration cap).
StopVu ==
    /\ pc = "boundary"
    /\ Tally
    /\ sig' = "Stop" /\ ResumeVu
    /\ UNCHANGED <<done, failed, fresh, book, pending, batch, started, faults, stop, hard>>

-----------------------------------------------------------------------------
(* The coroutine's loop head.                                                *)

HasIteration == sig = "RunNext"

\* The top level has run or has thrown; jobs it queued wait for the first drain.
TopLevelEnds ==
    /\ pc = "js" /\ task = "top"
    /\ fresh' \in BOOLEAN
    /\ pc' = "begin"
    /\ UNCHANGED <<sig, task, done, failed, book, pending, batch, booted, started, result,
                   lanes, faults, stop, hard>>

\* The bootstrap panics before or after the top level ("bootstrap k6 API",
\* "compile per-iteration driver").
BootPanics ==
    /\ pc = "js" /\ task = "top"
    /\ degraded' = degraded + 1
    /\ lost' = lost + (IF HasIteration THEN 1 ELSE 0)
    /\ pc' = "gone" /\ pending' = {}
    /\ UNCHANGED <<js, book, batch, booted, started, result, lanes, spurious, stop, hard>>

\* The bookkeeping is reset (a debug build asserts Clean first), the driver's
\* futures are not, and the exec function is called.
BeginIteration ==
    /\ pc = "begin" /\ HasIteration
    /\ pc' = "js" /\ task' = "exec"
    /\ done' = FALSE /\ failed' = FALSE
    /\ outstanding' = 0 /\ registered' = {} /\ completedOps' = {} /\ async_meta' = {}
    /\ UNCHANGED <<sig, fresh, next_op, pending, batch, booted, started, result, lanes,
                   faults, stop, hard>>

\* Stop: the coroutine returns, the driver drops its futures.
EndVu ==
    /\ pc = "begin" /\ ~HasIteration
    /\ pc' = "gone" /\ pending' = {}
    /\ UNCHANGED <<js, book, batch, booted, started, result, lanes, faults, stop, hard>>

-----------------------------------------------------------------------------
(* JS running inside the coroutine.                                          *)

\* http.asyncRequest: register_async.
Register ==
    /\ pc = "js" /\ next_op < MaxOps
    /\ task = "top" => TopLevelAsync
    /\ next_op' = next_op + 1
    /\ outstanding' = outstanding + 1
    /\ registered' = registered \cup {next_op}
    /\ async_meta' = async_meta \cup {next_op}
    /\ UNCHANGED <<pc, js, completedOps, pending, batch, booted, started, result,
                   lanes, faults, stop, hard>>

MayBlock == task # "job" \/ NestedSync

\* A blocking op (http.get, sleep, a ws or grpc receive).
YieldOne ==
    /\ pc = "js" /\ MayBlock
    /\ pc' = "one"
    /\ PullRegistered
    /\ UNCHANGED <<js, next_op, outstanding, completedOps, async_meta, batch, booted,
                   started, result, lanes, faults, stop, hard>>

\* http.batch, possibly of no request at all.
YieldAll ==
    /\ pc = "js" /\ MayBlock
    /\ pc' = "batch"
    /\ batch' \in 0..MaxBatch
    /\ PullRegistered
    /\ UNCHANGED <<js, next_op, outstanding, completedOps, async_meta, booted,
                   started, result, lanes, faults, stop, hard>>

\* The exec function returns a value or throws; it may leave jobs behind.
ExecReturns ==
    /\ pc = "js" /\ task = "exec"
    /\ done' = TRUE /\ failed' \in BOOLEAN
    /\ fresh' \in {fresh, TRUE}
    /\ pc' = "drain"
    /\ UNCHANGED <<sig, task, book, pending, batch, booted, started, result,
                   lanes, faults, stop, hard>>

\* It returns a promise: settled already (its job is queued) or not.
ExecReturnsPromise ==
    /\ pc = "js" /\ task = "exec"
    /\ fresh' \in {fresh, TRUE}
    /\ ScriptsSettle => fresh' \/ outstanding > 0
    /\ pc' = "drain"
    /\ UNCHANGED <<sig, task, done, failed, book, pending, batch, booted, started, result,
                   lanes, faults, stop, hard>>

\* The jobs have run: the main promise settled, or still waits.
JobsSettle ==
    /\ pc = "js" /\ task = "job" /\ ~done
    /\ done' = TRUE /\ failed' \in BOOLEAN
    /\ pc' = "check"
    /\ UNCHANGED <<sig, task, fresh, book, pending, batch, booted, started, result,
                   lanes, faults, stop, hard>>

JobsEnd ==
    /\ pc = "js" /\ task = "job"
    /\ (ScriptsSettle /\ ~done) => outstanding > 0
    /\ pc' = "check"
    /\ UNCHANGED <<js, book, pending, batch, booted, started, result,
                   lanes, faults, stop, hard>>

\* The interrupt handler throws an uncatchable error under the hard token; jobs
\* queued by then stay queued.
JsInterrupt ==
    /\ pc = "js" /\ hard
    /\ \/ task = "top" /\ pc' = "begin"
       \/ task = "exec" /\ pc' = "drain"
       \/ task = "job" /\ pc' = "check"
    /\ fresh' \in BOOLEAN
    /\ UNCHANGED <<sig, task, done, failed, book, pending, batch, booted, started, result,
                   lanes, faults, stop, hard>>

-----------------------------------------------------------------------------
(* The coroutine's drain loop.                                               *)

\* Resolve what completed; `async_meta.remove(&op).expect(..)` panics for an op
\* without metadata.  Then run the queued jobs.
Drain ==
    /\ pc = "drain"
    /\ completedOps' = {}
    /\ IF completedOps \subseteq async_meta
       THEN /\ async_meta' = async_meta \ completedOps
            /\ outstanding' = IF Cardinality(completedOps) < outstanding
                              THEN outstanding - Cardinality(completedOps) ELSE 0
            /\ IF fresh \/ completedOps # {}
               THEN pc' = "js" /\ task' = "job" /\ fresh' = FALSE
               ELSE pc' = "check" /\ UNCHANGED <<task, fresh>>
            /\ UNCHANGED <<pending, faults>>
       ELSE /\ pc' = "gone" /\ pending' = {}
            /\ degraded' = degraded + 1 /\ lost' = lost + 1
            /\ UNCHANGED <<async_meta, outstanding, task, fresh, spurious>>
    /\ UNCHANGED <<sig, done, failed, next_op, registered, batch, booted, started, result,
                   lanes, stop, hard>>

\* Mutant: a settled main promise ends the iteration, requests in flight or not.
LeaveWhenSettled ==
    /\ pc = "check"
    /\ done \/ hard
    /\ pc' = "publish"
    /\ UNCHANGED <<js, book, pending, batch, booted, started, result, lanes, faults,
                   stop, hard>>

\* Settled with nothing outstanding, or hard-stopped: leave the loop.
LeaveDrain ==
    /\ pc = "check"
    /\ (done /\ outstanding = 0) \/ hard
    /\ pc' = "publish"
    /\ UNCHANGED <<js, book, pending, batch, booted, started, result, lanes, faults,
                   stop, hard>>

YieldPending ==
    /\ pc = "check"
    /\ ~(done /\ outstanding = 0) /\ ~hard
    /\ pc' = "awaitPending"
    /\ PullRegistered
    /\ UNCHANGED <<js, next_op, outstanding, completedOps, async_meta, batch, booted,
                   started, result, lanes, faults, stop, hard>>

\* Mutant: the outcome ignores the hard token.
OutcomeIgnoresHard == IF failed THEN "Errored" ELSE "Completed"

Outcome == CASE hard /\ (failed \/ ~done) -> "Interrupted"
             [] failed /\ ~hard           -> "Errored"
             [] OTHER                     -> "Completed"

\* Publish the typed outcome and yield IterationBoundary.
Publish ==
    /\ pc = "publish"
    /\ result' = Outcome
    /\ pc' = "boundary"
    /\ PullRegistered
    /\ UNCHANGED <<js, next_op, outstanding, completedOps, async_meta, batch, booted,
                   started, lanes, faults, stop, hard>>

-----------------------------------------------------------------------------
(* The driver, while the coroutine is parked in an op.                       *)

Selecting == pc \in {"one", "awaitPending"} \/ (pc = "batch" /\ batch > 0)

\* The blocking op finished.
ServeOne ==
    /\ pc = "one"
    /\ pc' = "js"
    /\ UNCHANGED <<js, book, pending, batch, booted, started, result, lanes, faults,
                   stop, hard>>

ServeBatch ==
    /\ pc = "batch"
    /\ \/ batch > 0 /\ batch' = batch - 1 /\ UNCHANGED pc
       \/ batch = 0 /\ pc' = "js" /\ UNCHANGED batch
    /\ UNCHANGED <<js, book, pending, booted, started, result, lanes, faults,
                   stop, hard>>

\* An async request completes: it is only queued, and ends an AwaitPending.
AsyncCompletes(op) ==
    /\ Selecting /\ op \in pending
    /\ pending' = pending \ {op}
    /\ completedOps' = completedOps \cup {op}
    /\ pc' = IF pc = "awaitPending" THEN "drain" ELSE pc
    /\ UNCHANGED <<js, next_op, outstanding, registered, async_meta, batch, booted,
                   started, result, lanes, faults, stop, hard>>

\* Mutant: an unwound iteration is counted nowhere.
UnwindUncounted ==
    /\ Selecting /\ hard
    /\ pc' = "gone" /\ pending' = {}
    /\ UNCHANGED <<js, book, batch, booted, started, result, lanes, faults, stop, hard>>

\* Mutant: the AwaitPending arm does not race the hard token.
UnwindNotPending ==
    /\ Selecting /\ hard /\ pc # "awaitPending"
    /\ interrupted' = interrupted + 1
    /\ pc' = "gone" /\ pending' = {}
    /\ UNCHANGED <<js, book, batch, booted, started, result, completed, errored,
                   faults, stop, hard>>

\* on_hard_cancel! counts an interrupted iteration also for a VU that was told to
\* stop and is parked in its top level.
ForceUnwind ==
    /\ Selecting /\ hard
    /\ interrupted' = interrupted + 1
    /\ spurious' = spurious + (IF HasIteration THEN 0 ELSE 1)
    /\ pc' = "gone" /\ pending' = {}
    /\ UNCHANGED <<js, book, batch, booted, started, result, completed, errored,
                   degraded, lost, stop, hard>>

\* A future panics; catch_unwind at the task boundary isolates the VU.
FuturePanics ==
    /\ Selecting
    /\ degraded' = degraded + 1
    /\ lost' = lost + (IF HasIteration THEN 1 ELSE 0)
    /\ pc' = "gone" /\ pending' = {}
    /\ UNCHANGED <<js, book, batch, booted, started, result, lanes, spurious, stop, hard>>

-----------------------------------------------------------------------------
SignalStop ==
    /\ ~stop /\ stop' = TRUE
    /\ UNCHANGED <<pc, js, book, pending, batch, booted, started, result, lanes,
                   faults, hard>>

HardFires ==
    /\ ~hard /\ (stop \/ Lagging)
    /\ hard' = TRUE
    /\ UNCHANGED <<pc, js, book, pending, batch, booted, started, result, lanes,
                   faults, stop>>

\* The task ended.
Gone == pc = "gone" /\ UNCHANGED vars

JsStep == \/ Register \/ YieldOne \/ YieldAll \/ TopLevelEnds
          \/ ExecReturns \/ ExecReturnsPromise \/ JobsSettle \/ JobsEnd

InputOutput == ServeOne \/ ServeBatch \/ \E op \in 0..MaxOps - 1 : AsyncCompletes(op)

Next == \/ RunNext \/ StopVu \/ BootPanics \/ BeginIteration \/ EndVu
        \/ JsStep \/ JsInterrupt
        \/ Drain \/ LeaveDrain \/ YieldPending \/ Publish
        \/ InputOutput \/ ForceUnwind \/ FuturePanics
        \/ SignalStop \/ HardFires \/ Gone

Spec == Init /\ [][Next]_vars

\* The stop condition and then the hard token come (deadline, gracefulStop); the
\* driver and the drain loop run; under the hard token running JS is interrupted
\* and a parked op unwound (strongly fair: the interrupt counter runs down over
\* all the JS that runs, and select! polls its branches in random order).
\* Nothing is assumed of the script or of I/O.
Fairness ==
    /\ WF_vars(SignalStop) /\ WF_vars(HardFires)
    /\ WF_vars(RunNext \/ StopVu) /\ WF_vars(BeginIteration \/ EndVu)
    /\ WF_vars(Drain \/ LeaveDrain \/ YieldPending \/ Publish)
    /\ SF_vars(JsInterrupt \/ ForceUnwind)
    /\ WF_vars(pc = "batch" /\ batch = 0 /\ ServeBatch)

FairSpec == Spec /\ Fairness

-----------------------------------------------------------------------------
(* Properties.                                                               *)

FlagTypes ==
    /\ done \in BOOLEAN /\ failed \in BOOLEAN /\ fresh \in BOOLEAN
    /\ booted \in BOOLEAN /\ stop \in BOOLEAN /\ hard \in BOOLEAN

OpTypes ==
    /\ next_op \in Nat /\ outstanding \in Nat /\ batch \in Nat
    /\ registered \subseteq 0..next_op - 1 /\ completedOps \subseteq 0..next_op - 1
    /\ async_meta \subseteq 0..next_op - 1 /\ pending \subseteq 0..next_op - 1

CountTypes ==
    /\ started \in Nat /\ completed \in Nat /\ errored \in Nat /\ interrupted \in Nat
    /\ degraded \in Nat /\ lost \in Nat /\ spurious \in Nat

\* Every variable stays in its domain, an async op id below the counter.
TypeOK ==
    /\ pc \in {"boundary", "begin", "js", "one", "batch", "drain", "check", "awaitPending",
               "publish", "gone"}
    /\ sig \in {"RunNext", "Stop"} /\ task \in {"top", "exec", "job"}
    /\ result \in {"none", "Completed", "Errored", "Interrupted"}
    /\ FlagTypes /\ OpTypes /\ CountTypes

Alive == pc # "gone"

\* Bookkeeping (I2): an async request of the running iteration is in exactly one
\* of the three places, `outstanding` counts them, and each has its metadata.
\* So no completion is lost between driver and coroutine.
Bookkeeping ==
    (Alive /\ pc \notin {"boundary", "begin"}) =>
        /\ outstanding = Cardinality(registered) + Cardinality(pending)
                         + Cardinality(completedOps)
        /\ async_meta = registered \cup pending \cup completedOps

\* "driver bookkeeping bled across IterationBoundary" (the coroutine's
\* assertion): nothing of an iteration, or of the top level of the script, is
\* left when the next one starts.
CleanStart == (pc = "begin" /\ HasIteration) => Clean

\* `expect("async http meta")`: what the drain loop resolves has its metadata.
MetaFound == pc = "drain" => completedOps \subseteq async_meta

\* "AwaitPending with no in-flight futures" (the driver's assertion).
AwaitPendingServed == pc = "awaitPending" => pending # {}

InIteration == (pc \notin {"boundary", "gone"} /\ HasIteration) \/ result # "none"

\* Every iteration started leaves through exactly one lane (or dies with its
\* VU), across boundaries, force unwind and panics; but for VUs that had none
\* and were unwound in their top level, nothing else is counted.
OneLane == started + spurious = completed + errored + interrupted + lost
                                 + (IF InIteration THEN 1 ELSE 0)

\* A hard-stopped iteration never lands in the errored lane, and one only
\* counts as completed after its main function settled: what the boundary is
\* about to tally agrees with __done and __failed, and an errored outcome was
\* published before the hard token.
TypedOutcome ==
    [][ /\ errored' > errored => failed /\ done
        /\ completed' > completed => done /\ ~failed
        /\ (result' = "Errored" /\ result # "Errored") => ~hard ]_vars

\* The VU task always ends, however its script and its I/O behave: the loop
\* thread's join cannot hang.
TaskEnds == <>(pc = "gone")
=============================================================================
