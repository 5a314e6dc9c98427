----------------------------- MODULE RunLifecycle -----------------------------
(***************************************************************************)
(* The life of one `k6-rs run` with the REST control surface: the main task *)
(* (k6-cli/src/main.rs, run_test), Control (k6-core/src/control.rs), the    *)
(* REST handlers that run concurrently with it and the lifecycle calls they *)
(* share (k6-js/src/lifecycle.rs).                                          *)
(*                                                                          *)
(* lifecycle_lock is tokio's FIFO mutex: lockQ is its queue, whose head     *)
(* holds the lock.  A hook call runs JS on a blocking task of its own, which *)
(* outlives the request that made it.                                       *)
(***************************************************************************)
EXTENDS Integers, Sequences, FiniteSets, Waiters

CONSTANTS
    Requests,     \* REST requests that mutate the lifecycle, one call each
    Scenarios,    \* scenarios of the test
    Paused,       \* --paused
    Disconnects   \* TRUE: a client may hang up, which drops its handler

Main == "main"
Callers == Requests \cup {Main}

ASSUME LifecycleAssumption ==
    /\ IsFiniteSet(Requests) /\ IsFiniteSet(Scenarios) /\ Main \notin Requests
    /\ Paused \in BOOLEAN /\ Disconnects \in BOOLEAN

VARIABLES
    main,         \* where run_test is: "starting" | "parked" | "setup" | "inSetup" |
                  \* "spawn" | "drain" | "inTeardown" | "close" | "closeWait" |
                  \* "end" | "report" | "shutdown" | "exited"
    status, paused, started, ended, stopped,   \* Execution
    cancel, abort, closing,                    \* tokens
    resume,       \* the permit of Notify
    lockQ,        \* callers holding (head) or awaiting lifecycle_lock
    call,         \* [Callers -> what the caller's request is doing]
    kind,         \* [Callers -> "setup", "teardown" or "put"]
    task,         \* [Callers -> the blocking task of its hook]
    setupData,    \* who wrote setup_data last ("none" at first)
    scn,          \* [Scenarios -> state of its task]
    tornDown,     \* (ghost) teardown ran or was skipped on request
    late,         \* (ghost) close_lifecycle gave up waiting
    failure,      \* (ghost) something failed that no stop caused
    exit          \* exit code; -1 while the process runs

execution == <<status, paused, started, ended, stopped>>
tokens    == <<cancel, abort, closing>>
calls     == <<lockQ, call, kind, task, setupData>>
ghosts    == <<tornDown, late, failure>>
vars == <<main, execution, tokens, resume, calls, scn, ghosts, exit>>

Init ==
    /\ main = "starting"
    /\ status = (IF Paused THEN 4 ELSE 3) /\ paused = Paused
    /\ started = FALSE /\ ended = FALSE /\ stopped = FALSE
    /\ cancel = FALSE /\ abort = FALSE /\ closing = FALSE
    /\ resume = FALSE
    /\ lockQ = <<>> /\ call = [c \in Callers |-> "none"]
    /\ kind = [c \in Callers |-> "setup"] /\ task = [c \in Callers |-> "none"]
    /\ setupData = "none"
    /\ scn = [s \in Scenarios |-> "waiting"]
    /\ tornDown = FALSE /\ late = FALSE /\ failure = FALSE
    /\ exit = -1

Running == exit = -1

-----------------------------------------------------------------------------
(* Control::hook and put_setup, called by main and by the REST handlers.     *)

\* Mutant: the lock excludes nobody.
HoldsUnlocked(c) == \E i \in DOMAIN lockQ : lockQ[i] = c

Holds(c) == lockQ # <<>> /\ Head(lockQ) = c

\* The guard, or the future that waits for it, is dropped.
Leave(c) == lockQ' = Without(lockQ, c)

\* lifecycle_lock.lock().await
Enqueue(c, k) ==
    /\ lockQ' = Append(lockQ, c)
    /\ call' = [call EXCEPT ![c] = "queued"]
    /\ kind' = [kind EXCEPT ![c] = k]
    /\ UNCHANGED <<task, setupData>>

Answer(c, r) ==
    /\ call' = [call EXCEPT ![c] = r]
    /\ Leave(c)

\* The guard is ours: refuse when closing, else start the JS (or, for a PUT,
\* go straight to the write).
Enter(c) ==
    /\ Running /\ call[c] = "queued" /\ Holds(c)
    /\ \/ closing /\ Answer(c, "err") /\ UNCHANGED task
       \/ /\ ~closing
          /\ call' = [call EXCEPT ![c] = IF kind[c] = "put" THEN "writing" ELSE "calling"]
          /\ task' = [task EXCEPT ![c] = IF kind[c] = "put" THEN "none" ELSE "running"]
          /\ UNCHANGED lockQ
    /\ UNCHANGED <<main, execution, tokens, resume, kind, setupData, scn, ghosts, exit>>

\* The child token of the call is cancelled: by close_lifecycle or shutdown, or
\* by a REST stop while setup runs, or because the request is gone.
Interrupted(c) ==
    closing \/ (abort /\ kind[c] = "setup") \/ call[c] = "gone"

\* The JS of a hook ends: it returns, or it fails (it throws, is interrupted
\* or runs into its timeout).
TaskEnds(c, r) ==
    /\ Running /\ task[c] = "running" /\ r \in {"ok", "err"}
    /\ task' = [task EXCEPT ![c] = r]
    /\ failure' = (failure \/ (c = Main /\ r = "err" /\ ~Interrupted(c)))
    /\ UNCHANGED <<main, execution, tokens, resume, lockQ, call, kind, setupData, scn,
                   tornDown, late, exit>>

\* Mutant: closing is not looked at again after the call.
HookReturnsUnchecked(c) ==
    /\ Running /\ call[c] = "calling" /\ task[c] \in {"ok", "err"}
    /\ task' = [task EXCEPT ![c] = "none"]
    /\ IF task[c] = "err" THEN Answer(c, "err")
       ELSE IF kind[c] = "setup" THEN call' = [call EXCEPT ![c] = "writing"] /\ UNCHANGED lockQ
       ELSE Answer(c, "ok")
    /\ UNCHANGED <<main, execution, tokens, resume, kind, setupData, scn, ghosts, exit>>

\* hook sees the result: an error or closing fails the call; setup's data is
\* written a step later.
HookReturns(c) ==
    /\ Running /\ call[c] = "calling" /\ task[c] \in {"ok", "err"}
    /\ task' = [task EXCEPT ![c] = "none"]
    /\ IF task[c] = "err" \/ closing THEN Answer(c, "err")
       ELSE IF kind[c] = "setup" THEN call' = [call EXCEPT ![c] = "writing"] /\ UNCHANGED lockQ
       ELSE Answer(c, "ok")
    /\ UNCHANGED <<main, execution, tokens, resume, kind, setupData, scn, ghosts, exit>>

WriteSetup(c) ==
    /\ Running /\ call[c] = "writing"
    /\ setupData' = c
    /\ Answer(c, "ok")
    /\ UNCHANGED <<main, execution, tokens, resume, kind, task, scn, ghosts, exit>>

\* A REST client asks for setup, teardown or a PUT of setup data.
Request(c) ==
    /\ Running /\ call[c] = "none"
    /\ \E k \in {"setup", "teardown", "put"} : Enqueue(c, k)
    /\ UNCHANGED <<main, execution, tokens, resume, scn, ghosts, exit>>

\* The client hangs up: its handler is dropped, which releases the lock and
\* cancels the call's token; the blocking task runs on until it notices.
Disconnect(c) ==
    /\ Disconnects /\ Running /\ call[c] \in {"queued", "calling"}
    /\ Answer(c, "gone")
    /\ UNCHANGED <<main, execution, tokens, resume, kind, task, setupData, scn, ghosts, exit>>

-----------------------------------------------------------------------------
(* PATCH /v1/status, atomic under the execution lock.                        *)

PatchStop ==
    /\ Running
    /\ stopped' = TRUE /\ cancel' = TRUE /\ abort' = TRUE
    /\ resume' = TRUE
    /\ UNCHANGED <<main, status, paused, started, ended, closing, calls, scn, ghosts, exit>>

\* Mutant: the waiting task is not notified.
ResumeUnnotified ==
    /\ Running /\ paused /\ ~started
    /\ paused' = FALSE
    /\ UNCHANGED <<main, status, started, ended, stopped, tokens, resume, calls, scn, ghosts, exit>>

\* A resume; a scaling field in the same request is refused afterwards.
PatchResume ==
    /\ Running /\ paused /\ ~started
    /\ paused' = FALSE
    /\ resume' = TRUE
    /\ UNCHANGED <<main, status, started, ended, stopped, tokens, calls, scn, ghosts, exit>>

-----------------------------------------------------------------------------
(* Signals.                                                                  *)

\* The first Ctrl+C, or a failing abortOnFail threshold while scenarios run.
CancelRun ==
    /\ Running /\ ~cancel
    /\ cancel' = TRUE
    /\ UNCHANGED <<main, execution, abort, closing, resume, calls, scn, ghosts, exit>>

\* The second Ctrl+C.
ForceExit ==
    /\ Running /\ cancel
    /\ exit' = 130
    /\ UNCHANGED <<main, execution, tokens, resume, calls, scn, ghosts>>

-----------------------------------------------------------------------------
(* run_test.                                                                 *)

\* Mutant: the pause is looked at before the cancellation.
CheckPauseFirst ==
    /\ Running /\ main = "starting"
    /\ IF ~paused THEN main' = "setup" /\ started' = TRUE /\ status' = 5
       ELSE main' = (IF cancel THEN "spawn" ELSE "parked") /\ UNCHANGED <<started, status>>
    /\ UNCHANGED <<paused, ended, stopped, tokens, resume, calls, scn, ghosts, exit>>

\* wait_for_start under the lock: cancellation first, then the pause.
CheckStart ==
    /\ Running /\ main = "starting"
    /\ IF cancel THEN main' = "spawn" /\ UNCHANGED <<started, status>>
       ELSE IF ~paused THEN main' = "setup" /\ started' = TRUE /\ status' = 5
       ELSE main' = "parked" /\ UNCHANGED <<started, status>>
    /\ UNCHANGED <<paused, ended, stopped, tokens, resume, calls, scn, ghosts, exit>>

\* Its select: the permit of a notification, or the cancel token.
WakeStart ==
    /\ Running /\ main = "parked"
    /\ \/ resume /\ resume' = FALSE /\ main' = "starting"
       \/ cancel /\ main' = "spawn" /\ UNCHANGED resume
    /\ UNCHANGED <<execution, tokens, calls, scn, ghosts, exit>>

\* --no-setup, or phase(6) and hook(true).
BeginSetup ==
    /\ Running /\ main = "setup"
    /\ \/ main' = "spawn" /\ UNCHANGED <<status, calls>>
       \/ main' = "inSetup" /\ status' = 6 /\ Enqueue(Main, "setup")
    /\ UNCHANGED <<paused, started, ended, stopped, tokens, resume, scn, ghosts, exit>>

\* `return Err`: Server's Drop closes the lifecycle and main exits with 1.
Fail ==
    /\ main' = "exited" /\ exit' = 1
    /\ closing' = TRUE

\* Mutant: a setup that a REST stop interrupted is an error of the run.
SetupStopIsError ==
    /\ Running /\ main = "inSetup" /\ call[Main] \in {"ok", "err"}
    /\ IF call[Main] = "err" THEN Fail
       ELSE main' = "spawn" /\ UNCHANGED <<exit, closing>>
    /\ UNCHANGED <<execution, cancel, abort, resume, calls, scn, ghosts>>

\* A failed setup is an error of the run unless a REST stop is in force.
SetupDone ==
    /\ Running /\ main = "inSetup" /\ call[Main] \in {"ok", "err"}
    /\ IF call[Main] = "err" /\ ~stopped THEN Fail
       ELSE main' = "spawn" /\ UNCHANGED <<exit, closing>>
    /\ UNCHANGED <<execution, cancel, abort, resume, calls, scn, ghosts>>

SpawnScenarios ==
    /\ Running /\ main = "spawn"
    /\ status' = 7
    /\ main' = "drain"
    /\ UNCHANGED <<paused, started, ended, stopped, tokens, resume, calls, scn, ghosts, exit>>

\* A scenario's start time comes; cancellation wins.
StartScenario(s) ==
    /\ Running /\ main = "drain" /\ scn[s] = "waiting" /\ ~cancel
    /\ scn' = [scn EXCEPT ![s] = "running"]
    /\ UNCHANGED <<main, execution, tokens, resume, calls, ghosts, exit>>

SkipScenario(s) ==
    /\ Running /\ main = "drain" /\ scn[s] = "waiting" /\ cancel
    /\ scn' = [scn EXCEPT ![s] = "ok"]
    /\ UNCHANGED <<main, execution, tokens, resume, calls, ghosts, exit>>

\* Its executor returns a summary, or its task fails.
EndScenario(s) ==
    /\ Running /\ scn[s] = "running"
    /\ \E r \in {"ok", "err"} :
          /\ scn' = [scn EXCEPT ![s] = r]
          /\ failure' = (failure \/ r = "err")
    /\ UNCHANGED <<main, execution, tokens, resume, calls, tornDown, late, exit>>

\* join_next: an error cancels the others and is kept; the drain goes on.
JoinScenario(s) ==
    /\ Running /\ main = "drain" /\ scn[s] \in {"ok", "err"}
    /\ scn' = [scn EXCEPT ![s] = IF @ = "ok" THEN "joined" ELSE "joinedErr"]
    /\ cancel' = (cancel \/ scn[s] = "err")
    /\ UNCHANGED <<main, execution, abort, closing, resume, calls, ghosts, exit>>

\* Everything joined: a scenario error ends the run here; otherwise phase(8)
\* and hook(false) if the run had started, unless --no-teardown.
Drained ==
    /\ Running /\ main = "drain" /\ \A s \in Scenarios : scn[s] \in {"joined", "joinedErr"}
    /\ IF \E s \in Scenarios : scn[s] = "joinedErr"
       THEN Fail /\ UNCHANGED <<status, calls, tornDown>>
       ELSE \/ /\ main' = "close" /\ tornDown' = started
               /\ UNCHANGED <<status, calls, exit, closing>>
            \/ /\ started
               /\ main' = "inTeardown" /\ status' = 8
               /\ Enqueue(Main, "teardown")
               /\ UNCHANGED <<tornDown, exit, closing>>
    /\ UNCHANGED <<paused, started, ended, stopped, cancel, abort, resume, scn, late, failure>>

TeardownDone ==
    /\ Running /\ main = "inTeardown" /\ call[Main] \in {"ok", "err"}
    /\ IF call[Main] = "err" THEN Fail /\ UNCHANGED tornDown
       ELSE main' = "close" /\ tornDown' = TRUE /\ UNCHANGED <<exit, closing>>
    /\ UNCHANGED <<execution, cancel, abort, resume, calls, scn, late, failure>>

\* close_lifecycle: raise the flag, then queue for the lock ...
CloseLifecycle ==
    /\ Running /\ main = "close"
    /\ closing' = TRUE
    /\ lockQ' = Append(lockQ, Main)
    /\ main' = "closeWait"
    /\ UNCHANGED <<execution, cancel, abort, resume, call, kind, task, setupData, scn, ghosts, exit>>

\* Mutant: close_lifecycle does not wait for the lock.
ClosedUnwaited ==
    /\ Running /\ main = "closeWait"
    /\ Leave(Main)
    /\ main' = "end"
    /\ UNCHANGED <<execution, tokens, resume, call, kind, task, setupData, scn, ghosts, exit>>

\* ... and get it, or give up after two seconds.  A holder that has passed its
\* last check of the flag writes in far less than that.
Closed ==
    /\ Running /\ main = "closeWait"
    /\ \/ Holds(Main) /\ UNCHANGED late
       \/ ~Holds(Main) /\ (\A c \in Callers : call[c] # "writing") /\ late' = TRUE
    /\ Leave(Main)
    /\ main' = "end"
    /\ UNCHANGED <<execution, tokens, resume, call, kind, task, setupData, scn, tornDown, failure, exit>>

EndRun ==
    /\ Running /\ main = "end"
    /\ ended' = TRUE
    /\ status' = IF stopped THEN 10 ELSE 9
    /\ main' = "report"
    /\ UNCHANGED <<paused, started, stopped, tokens, resume, calls, scn, ghosts, exit>>

\* Final snapshot, thresholds, summary (an export may fail), console and output
\* shutdown.
Report ==
    /\ Running /\ main = "report"
    /\ \/ main' = "shutdown" /\ UNCHANGED <<exit, closing, failure>>
       \/ Fail /\ failure' = TRUE
    /\ UNCHANGED <<execution, cancel, abort, resume, calls, scn, tornDown, late>>

\* server.shutdown, then the exit code: stop, failed thresholds, success.
Shutdown ==
    /\ Running /\ main = "shutdown"
    /\ main' = "exited"
    /\ exit' \in IF stopped THEN {103} ELSE {0, 99}
    /\ UNCHANGED <<execution, tokens, resume, calls, scn, ghosts>>

Exited == ~Running /\ UNCHANGED vars

-----------------------------------------------------------------------------
MainStep ==
    \/ CheckStart \/ WakeStart \/ BeginSetup \/ SetupDone \/ SpawnScenarios
    \/ Drained \/ TeardownDone \/ CloseLifecycle \/ Closed \/ EndRun \/ Report \/ Shutdown
    \/ \E s \in Scenarios : SkipScenario(s) \/ JoinScenario(s)

CallStep(c) == Enter(c) \/ HookReturns(c) \/ WriteSetup(c)

Next ==
    \/ MainStep
    \/ \E s \in Scenarios : StartScenario(s) \/ EndScenario(s)
    \/ \E c \in Callers : CallStep(c) \/ \E r \in {"ok", "err"} : TaskEnds(c, r)
    \/ \E c \in Requests : Request(c) \/ Disconnect(c)
    \/ PatchStop \/ PatchResume \/ CancelRun \/ ForceExit \/ Exited

Spec == Init /\ [][Next]_vars

-----------------------------------------------------------------------------
(* Properties.                                                               *)

\* Lifecycle mutations are refused once the run is closed: after end() nobody
\* changes the setup data any more, also not a handler that was inside hook or
\* put_setup when the flag went up.
SetupSealed == [][ended => setupData' = setupData]_vars

\* "let an in-progress hook observe cancellation before the caller takes its
\* final metrics/console snapshot": unless close_lifecycle gave up after two
\* seconds, no hook runs JS from end() on whose client did not hang up.
SnapshotQuiet ==
    (ended /\ ~late) => \A c \in Callers : task[c] = "running" => call[c] = "gone"

\* "Stopping before the initial resume skips setup and teardown", whichever of
\* stop and resume the waiting task sees first.
StopBeatsResume == [][stopped /\ ~started => ~started']_vars

\* "REST stop returns HTTP 200 and the CLI exits with code 103 ... Once
\* execution has started, stopping during setup still runs teardown": so it is,
\* unless something failed by itself or the process was killed.
StopDocumented ==
    (~Running /\ stopped /\ exit # 130 /\ ~failure)
        => exit = 103 /\ (started <=> tornDown)

\* The lifecycle lock: of the calls whose handler is alive at most one runs JS.
LiveHooksSerialized ==
    Cardinality({c \in Callers : task[c] = "running" /\ call[c] # "gone"}) <= 1

\* "calls are serialized by the control surface": one lifecycle context at a
\* time runs JS, also when clients hang up.
HooksSerialized == Cardinality({c \in Callers : task[c] = "running"}) <= 1

\* A run that is not paused, was resumed, or was stopped ends.
RunEnds == (~paused \/ cancel) ~> ~Running
=============================================================================
