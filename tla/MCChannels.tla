----------------------------- MODULE MCChannels -----------------------------
(* The channels between a VU, its helpers and the outside for TLC.  A          *)
(* behaviour exercises one of them, the others keep their initial state: they  *)
(* share none.  The console's queue holds two records and the event channel    *)
(* one, so that both fill up; there are twice as many requests as permits; the *)
(* peer of the one WebSocket session sends two frames before it goes (sessions *)
(* share only the script that opened them); two gRPC clients open up to three  *)
(* connections, so that one of them connects again.                            *)
EXTENDS Console, EventStream, Backpressure, WsSessions, Grpc, TLC

VARIABLE part   \* the channel this behaviour exercises

MCMaxSamples == [m \in Metrics |-> IF m = "a" THEN 2 ELSE 1]
MCMaxPeerFrames == <<2>>
MCMetadatas == {[k \in {} |-> ""], "a" :> "w", "bad key" :> "v", "a" :> "v" @@ "b" :> "number"}
MCMessages == {[k |-> "num", n |-> 9, int |-> TRUE],
               [k |-> "tree", items |-> <<[k |-> "str"], [k |-> "num", n |-> -9, int |-> FALSE]>>]}

Parts == {"console", "stream", "gate", "ws", "grpc"}

\* The choices of the initial states of an idle part are fixed.
ChannelsInit ==
    /\ part \in Parts
    /\ ConsoleInit /\ (part # "console" => quiescent)
    /\ StreamInit /\ (part # "stream" => ioErrors)
    /\ Init
    /\ WsInit /\ (part # "ws" => ws_vu = "coroutine")
    /\ GrpcInit

Only(p, A) == part = p /\ A /\ part' = part

ChannelsNext ==
    \/ Only("console", ConsoleNext) /\ UNCHANGED <<streamvars, vars, wsvars, grpcvars>>
    \/ Only("stream", StreamNext) /\ UNCHANGED <<consolevars, vars, wsvars, grpcvars>>
    \/ Only("gate", Next) /\ UNCHANGED <<consolevars, streamvars, wsvars, grpcvars>>
    \/ Only("ws", WsNext) /\ UNCHANGED <<consolevars, streamvars, vars, grpcvars>>
    \/ Only("grpc", GrpcNext) /\ UNCHANGED <<consolevars, streamvars, vars, wsvars>>

\* The owner shuts the console down some day, threads run and writes end.
ConsoleFairness ==
    /\ WF_consolevars(Only("console", Close)) /\ WF_consolevars(Only("console", SendWake))
    /\ WF_consolevars(Only("console", Report)) /\ WF_consolevars(Only("console", Worker))
    /\ WF_consolevars(Only("console", WriteRecord))
    /\ \A e \in Emitters : WF_consolevars(Only("console", EmitSend(e)))

\* The run ends, tasks are scheduled, and the writer that polls a ready channel
\* receives from it; recv() on a drained channel without senders returns None.
StreamFairness ==
    /\ WF_streamvars(Only("stream", StopPlugin)) /\ WF_streamvars(Only("stream", ClearEventSink))
    /\ WF_streamvars(Only("stream", AwaitWriter)) /\ WF_streamvars(Only("stream", Writer))
    /\ SF_streamvars(Only("stream", Recv)) /\ SF_streamvars(Only("stream", SeeClosed))
    /\ \A p \in Producers : WF_streamvars(Only("stream", TrySend(p)))

\* Granted requests are polled, requests end (their own timeout), drops finish.
GateFairness == \A r \in Requests :
    /\ WF_vars(Only("gate", Count(r) \/ CancelGranted(r)))
    /\ WF_vars(Only("gate", Uncount(r))) /\ WF_vars(Only("gate", Release(r)))

\* Handlers and blocking calls return, and the loop of the VU polls its woken
\* tasks in turn, also when each of them can run only at some of its yields.
WsFairness ==
    /\ SF_wsvars(Only("ws", StageEnds)) /\ SF_wsvars(Only("ws", Cleanup))
    /\ WF_wsvars(Only("ws", WsScriptStep))
    /\ \A s \in WsSessionIds : SF_wsvars(Only("ws", ReadTask(s)))

ChannelsSafety ==
    ChannelsInit /\ [][ChannelsNext]_<<part, consolevars, streamvars, vars, wsvars, grpcvars>>

ChannelsSpec ==
    ChannelsSafety /\ ConsoleFairness /\ StreamFairness /\ GateFairness /\ WsFairness

\* The consumers end: the console's worker is never left blocked in recv after
\* close, also when contexts go on emitting, and run_test never hangs on the
\* stream's writer, since clearing the registry's sender after the plugin's
\* closes the channel.
DrainCompletes ==
    <>(CASE part = "console" -> worker = "done" [] part = "stream" -> main = "joined" [] OTHER -> TRUE)
=============================================================================
