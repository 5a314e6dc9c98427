----------------------------- MODULE WsSessions -----------------------------
(***************************************************************************)
(* k6/ws: the connect loop of ws_shim.js on one VU, the session registry   *)
(* and the read and write task of each session (k6-js/src/api/ws.rs).      *)
(*                                                                         *)
(* A coroutine VU shares its thread with the tasks: they run only while    *)
(* the script is suspended, in __ws_open, __ws_recv, a blocking call of a  *)
(* handler, or between iterations.  A blocking VU (setup, teardown) leaves *)
(* them to other threads.                                                  *)
(***************************************************************************)
EXTENDS Integers, Sequences, SequencesExt

CONSTANTS
    WsSessionIds,  \* 1..n: the connects a VU makes
    WsFrames,      \* frames a peer sends: of "message", "binaryMessage", "ping", "pong"
    MaxPeerFrames, \* bound: session -> frames its peer sends
    MaxCommands,   \* bound: commands waiting on one session
    WsVus          \* of "coroutine", "blocking"

LastFrames == {"close", "error", "eof"}   \* after one of these the peer is gone

ASSUME WsAssumption ==
    /\ WsSessionIds \subseteq Nat \ {0}
    /\ WsFrames \cap LastFrames = {}

VARIABLES
    ws_vu,      \* the kind of this VU
    stage,      \* where the script is: "idle" | "opening" | "callback" | "open" | "timers" |
                \* "recv" | "handler" | "errhandler" | "onclose" | "dropped"
    nested,     \* the running handler is in a blocking call of its own
    cur,        \* the session of the connect in progress, or of the last one
    shim_closed,\* the shim's flag of that connect
    place,      \* session -> "none" | "op" (opened, not yet handed over) | "registry" | "gone"
    read_task, write_task,   \* session -> "none" | "running" | "done" | "aborted"
    cmds, evts, inbox,\* session -> command channel, event channel, frames on the socket
    peer,             \* (ghost) session -> frames the peer sent
    dispatched,       \* (ghost) session -> events given to handlers
    ended             \* (ghost) session -> "" | "script" | "peer" | "throw" | "drop"

ws_script == <<stage, nested, cur, shim_closed>>
ws_tasks  == <<place, read_task, write_task, cmds, evts, inbox>>
ws_ghosts == <<peer, dispatched, ended>>
wsvars == <<ws_vu, ws_script, ws_tasks, ws_ghosts>>

PerSession(x) == [s \in WsSessionIds |-> x]

WsInit ==
    /\ ws_vu \in WsVus
    /\ stage = "idle" /\ nested = FALSE /\ cur = 0 /\ shim_closed = FALSE
    /\ place = PerSession("none") /\ read_task = PerSession("none") /\ write_task = PerSession("none")
    /\ cmds = PerSession(<<>>) /\ evts = PerSession(<<>>) /\ inbox = PerSession(<<>>)
    /\ peer = PerSession(<<>>) /\ dispatched = PerSession(<<>>) /\ ended = PerSession("")

Suspended == nested \/ stage \in {"idle", "opening", "recv"}
ScriptRuns == ~nested /\ stage \in {"callback", "open", "timers", "handler", "errhandler", "onclose"}
TasksRun == ws_vu = "blocking" \/ Suspended

-----------------------------------------------------------------------------
(* ws.connect.                                                             *)

\* __ws_open: the connect attempt, which may fail or time out and then throws.
WsOpen ==
    /\ stage = "idle" /\ cur + 1 \in WsSessionIds
    /\ cur' = cur + 1 /\ stage' = "opening" /\ shim_closed' = FALSE
    /\ UNCHANGED <<ws_vu, nested, ws_tasks, ws_ghosts>>

ConnectFails ==
    /\ stage = "opening" /\ place[cur] = "none"
    /\ stage' = "idle"
    /\ ended' = [ended EXCEPT ![cur] = "throw"]
    /\ UNCHANGED <<ws_vu, nested, cur, shim_closed, ws_tasks, peer, dispatched>>

\* ws_connect_coro: connected, both tasks spawned; the session travels in the
\* result of the operation.
Connected ==
    /\ stage = "opening" /\ place[cur] = "none"
    /\ place' = [place EXCEPT ![cur] = "op"]
    /\ read_task' = [read_task EXCEPT ![cur] = "running"]
    /\ write_task' = [write_task EXCEPT ![cur] = "running"]
    /\ UNCHANGED <<ws_vu, ws_script, cmds, evts, inbox, ws_ghosts>>

\* The script resumes, stores the session and calls the user's callback.
Opened ==
    /\ stage = "opening" /\ place[cur] = "op"
    /\ place' = [place EXCEPT ![cur] = "registry"]
    /\ stage' = "callback"
    /\ UNCHANGED <<ws_vu, nested, cur, shim_closed, read_task, write_task, cmds, evts, inbox, ws_ghosts>>

\* A command goes to the channel while its receiver, the write task, lives.
Push(c) == cmds' = [cmds EXCEPT ![cur] = IF write_task[cur] = "running" THEN Append(@, c) ELSE @]

\* socket.send and socket.ping in a handler; nothing once the socket is closed.
SocketSend ==
    /\ ScriptRuns /\ ~shim_closed /\ Len(cmds[cur]) < MaxCommands
    /\ Push("frame")
    /\ UNCHANGED <<ws_vu, ws_script, place, read_task, write_task, evts, inbox, peer, dispatched, ended>>

SocketClose ==
    /\ ScriptRuns /\ ~shim_closed
    /\ shim_closed' = TRUE
    /\ Push("close")
    /\ UNCHANGED <<ws_vu, stage, nested, cur, place, read_task, write_task, evts, inbox, peer,
                   dispatched, ended>>

\* A handler throws: the exception leaves connect, past __ws_cleanup.
HandlerThrows ==
    /\ ScriptRuns
    /\ stage' = "idle"
    /\ ended' = [ended EXCEPT ![cur] = "throw"]
    /\ UNCHANGED <<ws_vu, nested, cur, shim_closed, ws_tasks, peer, dispatched>>

\* A handler makes a blocking call (http.get, sleep): the coroutine yields.
HandlerBlocks ==
    /\ ScriptRuns /\ nested' = TRUE
    /\ UNCHANGED <<ws_vu, stage, cur, shim_closed, ws_tasks, ws_ghosts>>
HandlerResumes ==
    /\ nested /\ nested' = FALSE
    /\ UNCHANGED <<ws_vu, stage, cur, shim_closed, ws_tasks, ws_ghosts>>

\* Mutant: the session is dropped without aborting its tasks.
DropSessionsKeepTasks(S) ==
    /\ place' = [s \in WsSessionIds |-> IF s \in S THEN "gone" ELSE place[s]]
    /\ UNCHANGED <<read_task, write_task>>

Aborted(task, S) ==
    [s \in WsSessionIds |-> IF s \in S /\ task[s] = "running" THEN "aborted" ELSE task[s]]

\* Drop for WsSession: both tasks are aborted where they are.
DropSessions(S) ==
    /\ place' = [s \in WsSessionIds |-> IF s \in S THEN "gone" ELSE place[s]]
    /\ read_task' = Aborted(read_task, S) /\ write_task' = Aborted(write_task, S)

\* The handlers of a stage are through.  The flag is read before the timers,
\* again after them, and once more after a message; then come the close
\* handlers and __ws_cleanup.
StageEnds ==
    /\ ScriptRuns /\ stage # "onclose"
    /\ shim_closed' = (shim_closed \/ stage = "errhandler")
    /\ stage' = IF shim_closed' THEN "onclose"
                ELSE CASE stage = "callback" -> "open" [] stage = "timers" -> "recv" [] OTHER -> "timers"
    /\ ended' = [ended EXCEPT ![cur] = IF shim_closed THEN "script" ELSE IF shim_closed' THEN "peer" ELSE @]
    /\ UNCHANGED <<ws_vu, nested, cur, ws_tasks, peer, dispatched>>

Cleanup ==
    /\ ScriptRuns /\ stage = "onclose"
    /\ DropSessions({cur})
    /\ stage' = "idle"
    /\ UNCHANGED <<ws_vu, nested, cur, shim_closed, cmds, evts, inbox, ws_ghosts>>

-----------------------------------------------------------------------------
(* __ws_recv: an event, the end of the channel, or the poll timeout, which *)
(* loses to either of them.                                                *)

RecvEvent ==
    /\ stage = "recv" /\ evts[cur] # <<>>
    /\ LET e == Head(evts[cur]) IN
         /\ stage' = CASE e = "close" -> "onclose" [] e = "error" -> "errhandler" [] OTHER -> "handler"
         /\ shim_closed' = (e = "close")
         /\ ended' = [ended EXCEPT ![cur] = IF e = "close" THEN "peer" ELSE @]
         /\ dispatched' = [dispatched EXCEPT ![cur] = Append(@, e)]
    /\ evts' = [evts EXCEPT ![cur] = Tail(@)]
    /\ UNCHANGED <<ws_vu, nested, cur, place, read_task, write_task, cmds, inbox, peer>>

\* Mutant: a finished read task counts as closed although events are queued.
RecvClosedEarly ==
    /\ stage = "recv" /\ read_task[cur] # "running"
    /\ shim_closed' = TRUE /\ stage' = "onclose"
    /\ ended' = [ended EXCEPT ![cur] = "peer"]
    /\ UNCHANGED <<ws_vu, nested, cur, ws_tasks, peer, dispatched>>

\* Mutant: a second sender keeps the channel open.
RecvClosedNever ==
    /\ stage = "recv" /\ read_task[cur] = "none"
    /\ UNCHANGED wsvars

RecvClosed ==
    /\ stage = "recv" /\ evts[cur] = <<>> /\ read_task[cur] # "running"
    /\ shim_closed' = TRUE /\ stage' = "onclose"
    /\ ended' = [ended EXCEPT ![cur] = "peer"]
    /\ UNCHANGED <<ws_vu, nested, cur, ws_tasks, peer, dispatched>>

RecvTimeout ==
    /\ stage = "recv" /\ evts[cur] = <<>> /\ read_task[cur] = "running"
    /\ stage' = "timers"
    /\ UNCHANGED <<ws_vu, nested, cur, shim_closed, ws_tasks, ws_ghosts>>

-----------------------------------------------------------------------------
(* The tasks and the peer.                                                 *)

\* The read task moves one frame; a close or an error is its last event, and
\* the end of the stream ends it without one.
ReadTask(s) ==
    /\ TasksRun /\ read_task[s] = "running" /\ inbox[s] # <<>>
    /\ LET f == Head(inbox[s]) IN
         /\ evts' = [evts EXCEPT ![s] = IF f = "eof" THEN @ ELSE Append(@, f)]
         /\ read_task' = [read_task EXCEPT ![s] = IF f \in LastFrames THEN "done" ELSE @]
    /\ inbox' = [inbox EXCEPT ![s] = Tail(@)]
    /\ UNCHANGED <<ws_vu, ws_script, place, write_task, cmds, ws_ghosts>>

PeerDone(s) == peer[s] # <<>> /\ Last(peer[s]) \in LastFrames

\* The write task sends one command; a close is its last, a failed send (the
\* peer is gone) ends it as well.
WriteTask(s) ==
    /\ TasksRun /\ write_task[s] = "running" /\ cmds[s] # <<>>
    /\ \/ /\ write_task' = [write_task EXCEPT ![s] = IF Head(cmds[s]) = "close" THEN "done" ELSE @]
          /\ cmds' = [cmds EXCEPT ![s] = Tail(@)]
       \/ /\ PeerDone(s)
          /\ write_task' = [write_task EXCEPT ![s] = "done"]
          /\ cmds' = [cmds EXCEPT ![s] = <<>>]
    /\ UNCHANGED <<ws_vu, ws_script, place, read_task, evts, inbox, peer, dispatched, ended>>

PeerSends(s, f) ==
    /\ read_task[s] = "running" /\ ~PeerDone(s)
    /\ f \in LastFrames \/ Len(peer[s]) < MaxPeerFrames[s]
    /\ peer' = [peer EXCEPT ![s] = Append(@, f)]
    /\ inbox' = [inbox EXCEPT ![s] = Append(@, f)]
    /\ UNCHANGED <<ws_vu, ws_script, place, read_task, write_task, cmds, evts, dispatched, ended>>

\* The VU goes: force-unwound where it is suspended, or at the end of its life.
\* Its context, the registry and the operation in flight go with it.
VuDropped ==
    /\ Suspended /\ stage # "dropped" /\ (ws_vu = "blocking" => stage = "idle")
    /\ DropSessions({s \in WsSessionIds : place[s] \in {"op", "registry"}})
    /\ stage' = "dropped" /\ nested' = FALSE
    /\ ended' = [s \in WsSessionIds |-> IF ended[s] = "" /\ place[s] # "none" THEN "drop" ELSE ended[s]]
    /\ UNCHANGED <<ws_vu, cur, shim_closed, cmds, evts, inbox, peer, dispatched>>

-----------------------------------------------------------------------------
WsScriptStep ==
    \/ ConnectFails \/ Connected \/ Opened \/ HandlerResumes \/ StageEnds \/ Cleanup
    \/ RecvEvent \/ RecvClosed \/ RecvTimeout

WsNext ==
    \/ WsScriptStep
    \/ WsOpen \/ SocketSend \/ SocketClose \/ HandlerThrows \/ HandlerBlocks \/ VuDropped
    \/ \E s \in WsSessionIds :
         \/ ReadTask(s) \/ WriteTask(s)
         \/ \E f \in WsFrames \cup LastFrames : PeerSends(s, f)

WsSpec == WsInit /\ [][WsNext]_wsvars

-----------------------------------------------------------------------------
(* Properties.                                                             *)

(***************************************************************************)
(* No frame is lost, repeated or reordered between the socket and the      *)
(* handlers, however poll timeouts and handlers interleave with the read   *)
(* task; a connect that the peer ends has handled all that the peer sent.  *)
(***************************************************************************)
WsLossless ==
    \A s \in WsSessionIds :
        /\ Len(dispatched[s]) <= Len(peer[s])
        /\ \A i \in 1..Len(dispatched[s]) : dispatched[s][i] = peer[s][i]
        /\ ended[s] = "peer" =>
             \A i \in 1..Len(peer[s]) : peer[s][i] \in WsFrames => i <= Len(dispatched[s])

(***************************************************************************)
(* Drop for WsSession, "without an explicit abort they'd orphan on the     *)
(* loop thread": a connect that returned and a VU that was dropped, also   *)
(* between the connect and its hand-over, leave no running task behind.    *)
(***************************************************************************)
WsReleased ==
    \A s \in WsSessionIds :
        (\/ stage = "dropped"
         \/ ended[s] \in {"script", "peer"} /\ (s # cur \/ stage = "idle")) =>
            read_task[s] # "running" /\ write_task[s] # "running"

(***************************************************************************)
(* Once the peer is gone (close frame, error or end of stream) the connect *)
(* that talks to it returns or throws.                                     *)
(***************************************************************************)
WsConnectEnds ==
    \A s \in WsSessionIds :
        (s = cur /\ stage = "recv" /\ PeerDone(s)) ~> (s # cur \/ stage \in {"idle", "dropped"})

(***************************************************************************)
(* "abort() on an already-finished task (the graceful-close path, and      *)
(* __ws_cleanup's removed session) is a no-op": when a connect that the    *)
(* script closed has returned, nothing it sent was still to be written.    *)
(***************************************************************************)
WsCloseFlushed ==
    \A s \in WsSessionIds :
        (ended[s] = "script" /\ place[s] = "gone") => cmds[s] = <<>>
=============================================================================
