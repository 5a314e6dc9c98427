------------------------------- MODULE Console -------------------------------
(***************************************************************************)
(* The bounded console (k6-core/src/console.rs): VU and lifecycle contexts *)
(* emit records without ever waiting, one worker thread writes them, and   *)
(* the owner shuts it down with a bounded drain.                           *)
(***************************************************************************)
EXTENDS Integers, Sequences, FiniteSets

CONSTANTS
    Emitters,          \* contexts that own a sink
    CONSOLE_CAPACITY,  \* records the queue holds
    MaxEmits           \* bound: records emitted in all

ASSUME ConsoleAssumption ==
    /\ IsFiniteSet(Emitters) /\ CONSOLE_CAPACITY \in Nat \ {0}
    /\ MaxEmits \in Nat

VARIABLES
    quiescent,  \* finish() is called after the emitters stopped, as its doc
                \* asks; otherwise a context may outlive it
    emitter,    \* [Emitters -> "idle" | "sending"]: it passed the closed check
    emits,      \* (ghost) records emitted
    queue,      \* the sync_channel: "record" | "wake"
    closed, dropped, write_errors,
    written,    \* (ghost) records written out
    worker,     \* "load" | "recv" | "tryRecv" | "write" | "exiting" | "done"
    owner,      \* shutdown: "running" | "closed" | "waiting" | "reported"
    timedOut,   \* drain_timed_out
    reported    \* dropped + write_errors as ConsoleStats reports them

consolevars == <<quiescent, emitter, emits, queue, closed, dropped, write_errors, written, worker,
          owner, timedOut, reported>>

ConsoleInit ==
    /\ quiescent \in BOOLEAN
    /\ emitter = [e \in Emitters |-> "idle"] /\ emits = 0
    /\ queue = <<>> /\ closed = FALSE /\ dropped = 0 /\ write_errors = 0
    /\ written = 0 /\ worker = "load"
    /\ owner = "running" /\ timedOut = FALSE /\ reported = -1

-----------------------------------------------------------------------------
(* ConsoleSink::emit.                                                       *)

\* The closed check; a record emitted after it is counted as dropped.
EmitCheck(e) ==
    /\ emitter[e] = "idle" /\ emits < MaxEmits
    /\ quiescent => owner = "running"
    /\ emits' = emits + 1
    /\ IF closed
       THEN dropped' = dropped + 1 /\ UNCHANGED emitter
       ELSE emitter' = [emitter EXCEPT ![e] = "sending"] /\ UNCHANGED dropped
    /\ UNCHANGED <<quiescent, queue, closed, write_errors, written, worker, owner, timedOut, reported>>

\* Mutant: the error of try_send is ignored.
SendUncounted(e) ==
    /\ emitter[e] = "sending"
    /\ emitter' = [emitter EXCEPT ![e] = "idle"]
    /\ queue' = IF Len(queue) < CONSOLE_CAPACITY THEN Append(queue, "record") ELSE queue
    /\ UNCHANGED <<quiescent, emits, closed, dropped, write_errors, written, worker, owner, timedOut, reported>>

\* try_send: fails on a full queue or once the receiver is dropped.
EmitSend(e) ==
    /\ emitter[e] = "sending"
    /\ emitter' = [emitter EXCEPT ![e] = "idle"]
    /\ IF Len(queue) < CONSOLE_CAPACITY /\ worker # "done"
       THEN queue' = Append(queue, "record") /\ UNCHANGED dropped
       ELSE dropped' = dropped + 1 /\ UNCHANGED queue
    /\ UNCHANGED <<quiescent, emits, closed, write_errors, written, worker, owner, timedOut, reported>>

-----------------------------------------------------------------------------
(* The worker thread.                                                       *)

LoadClosed ==
    /\ worker = "load"
    /\ worker' = IF closed THEN "tryRecv" ELSE "recv"
    /\ UNCHANGED <<quiescent, emitter, emits, queue, closed, dropped, write_errors, written,
                   owner, timedOut, reported>>

\* recv blocks on an empty queue; try_recv finds it empty and ends the loop.
Receive ==
    /\ worker \in {"recv", "tryRecv"}
    /\ IF queue = <<>>
       THEN worker = "tryRecv" /\ worker' = "exiting" /\ UNCHANGED queue
       ELSE /\ queue' = Tail(queue)
            /\ worker' = IF Head(queue) = "record" THEN "write" ELSE "load"
    /\ UNCHANGED <<quiescent, emitter, emits, closed, dropped, write_errors, written, owner,
                   timedOut, reported>>

WriteRecord ==
    /\ worker = "write"
    /\ worker' = "load"
    /\ \/ written' = written + 1 /\ UNCHANGED write_errors
       \/ write_errors' = write_errors + 1 /\ UNCHANGED written
    /\ UNCHANGED <<quiescent, emitter, emits, queue, closed, dropped, owner, timedOut, reported>>

\* The closure signals done and returns, dropping the receiver and its queue.
WorkerExit ==
    /\ worker = "exiting"
    /\ worker' = "done" /\ queue' = <<>>
    /\ UNCHANGED <<quiescent, emitter, emits, closed, dropped, write_errors, written, owner,
                   timedOut, reported>>

-----------------------------------------------------------------------------
(* ConsoleWriter::shutdown.                                                 *)

Close ==
    /\ owner = "running"
    /\ quiescent => \A e \in Emitters : emitter[e] = "idle"
    /\ owner' = "closed" /\ closed' = TRUE
    /\ UNCHANGED <<quiescent, emitter, emits, queue, dropped, write_errors, written, worker,
                   timedOut, reported>>

\* Mutant: the idle receiver is not woken.
SendNoWake ==
    /\ owner = "closed"
    /\ owner' = "waiting"
    /\ UNCHANGED <<quiescent, emitter, emits, queue, closed, dropped, write_errors, written, worker,
                   timedOut, reported>>

\* Wake an idle receiver; a full queue has work that wakes it anyway.
SendWake ==
    /\ owner = "closed"
    /\ owner' = "waiting"
    /\ queue' = IF Len(queue) < CONSOLE_CAPACITY /\ worker # "done"
                THEN Append(queue, "wake") ELSE queue
    /\ UNCHANGED <<quiescent, emitter, emits, closed, dropped, write_errors, written, worker,
                   timedOut, reported>>

\* The worker is done within the timeout, or the drain is abandoned; then the
\* counters are read.
Report ==
    /\ owner = "waiting"
    /\ owner' = "reported"
    /\ timedOut' \in BOOLEAN /\ (~timedOut' => worker = "done")
    /\ timedOut' => worker # "done"
    /\ reported' = dropped + write_errors
    /\ UNCHANGED <<quiescent, emitter, emits, queue, closed, dropped, write_errors, written, worker>>

\* The process ends; an abandoned worker ends with it.
ConsoleFinished == owner = "reported" /\ UNCHANGED consolevars

Worker == LoadClosed \/ Receive \/ WorkerExit

ConsoleNext == \/ \E e \in Emitters : EmitCheck(e) \/ EmitSend(e)
        \/ Worker \/ WriteRecord \/ Close \/ SendWake \/ Report
        \/ ConsoleFinished

ConsoleSpec == ConsoleInit /\ [][ConsoleNext]_consolevars

-----------------------------------------------------------------------------
(* Properties.                                                              *)

InQueue == Cardinality({i \in 1..Len(queue) : queue[i] = "record"})
InHand == (IF worker = "write" THEN 1 ELSE 0)
          + Cardinality({e \in Emitters : emitter[e] = "sending"})

\* With a quiescent shutdown every record is written, counted as a loss, or
\* still on its way: the wake-up message, a full queue and the worker's exit
\* never swallow one; after a completed drain ConsoleStats reports every loss.
Accounted ==
    quiescent => /\ emits = written + write_errors + dropped + InQueue + InHand
                 /\ owner = "reported" /\ ~timedOut => emits = written + reported
=============================================================================
