----------------------------- MODULE EventStream -----------------------------
(***************************************************************************)
(* The JSON event stream (k6-core/src/output/event_stream.rs, installed on *)
(* the registry of k6-core/src/metrics.rs and stopped by k6-cli/src/       *)
(* main.rs).  Producers record samples from any thread: a definition goes  *)
(* to an unbounded queue at first sight of a metric, the point to a        *)
(* bounded channel, or it is counted as dropped.  One writer task batches  *)
(* points, writes pending definitions first, and ends with a sidecar file  *)
(* that reports the drops once every sender is gone.                       *)
(***************************************************************************)
EXTENDS Integers, Sequences, FiniteSets

CONSTANTS
    Producers, Metrics,
    Capacity,     \* channel capacity
    BatchLimit,   \* BATCH_LIMIT
    MaxSamples    \* bound: metric -> samples recorded of it

None == "none"

ASSUME StreamAssumption ==
    /\ IsFiniteSet(Producers) /\ None \notin Metrics
    /\ Capacity \in Nat \ {0} /\ BatchLimit \in Nat \ {0} /\ MaxSamples \in [Metrics -> Nat]

VARIABLES
    ioErrors,     \* the stream file may fail (bad path, disk full)
    inSink,       \* [Producers -> metric of the sample inside try_record, or None];
                  \* the producer holds the registry's read lock meanwhile
    samples,      \* (ghost) [Metrics -> samples handed to the sink]
    seen, defs,   \* DefState: names seen, definitions queued
    chan, batch,  \* the channel; the writer's current batch
    drops,        \* DropState: [Metrics -> samples dropped on a full channel]
    out,          \* lines written to the stream
    writer,       \* "create" | "accumulate" | "defs" | "points" | "sidecar" | "exited" | "failed"
    channelClosed,
    sidecar,      \* the drop counts in the sidecar file: <<>> before it is written
    installed,    \* the registry holds a sender
    main          \* "running" | "stopping" | "awaiting" | "joined"

streamvars == <<ioErrors, inSink, samples, seen, defs, chan, batch, drops, out, writer,
          channelClosed, sidecar, installed, main>>

StreamInit ==
    /\ ioErrors \in BOOLEAN
    /\ inSink = [p \in Producers |-> None] /\ samples = [m \in Metrics |-> 0]
    /\ seen = {} /\ defs = <<>> /\ chan = <<>> /\ batch = <<>>
    /\ drops = [m \in Metrics |-> 0]
    /\ out = <<>> /\ writer = "create" /\ channelClosed = FALSE /\ sidecar = <<>>
    /\ installed = TRUE /\ main = "running"

-----------------------------------------------------------------------------
(* Producers: emit_to_sink and try_record.                                  *)

\* Mutant: a definition is queued for every sample.
QueueDefAlways(p, m) ==
    /\ installed /\ inSink[p] = None /\ samples[m] < MaxSamples[m]
    /\ inSink' = [inSink EXCEPT ![p] = m]
    /\ samples' = [samples EXCEPT ![m] = @ + 1]
    /\ seen' = seen \cup {m} /\ defs' = Append(defs, m)
    /\ UNCHANGED <<ioErrors, chan, batch, drops, out, writer, channelClosed, sidecar,
                   installed, main>>

\* Step 1, under the definition mutex.  Without a sink nothing is emitted.
QueueDef(p, m) ==
    /\ installed /\ inSink[p] = None /\ samples[m] < MaxSamples[m]
    /\ inSink' = [inSink EXCEPT ![p] = m]
    /\ samples' = [samples EXCEPT ![m] = @ + 1]
    /\ seen' = seen \cup {m}
    /\ defs' = IF m \in seen THEN defs ELSE Append(defs, m)
    /\ UNCHANGED <<ioErrors, chan, batch, drops, out, writer, channelClosed, sidecar,
                   installed, main>>

\* Step 2: try_send.  Once the receiver is gone the sample is discarded.
TrySend(p) ==
    /\ inSink[p] # None
    /\ inSink' = [inSink EXCEPT ![p] = None]
    /\ CASE writer \in {"exited", "failed"} ->
                UNCHANGED <<chan, drops>>
         [] writer \notin {"exited", "failed"} /\ Len(chan) < Capacity ->
                chan' = Append(chan, inSink[p]) /\ UNCHANGED drops
         [] OTHER ->
                drops' = [drops EXCEPT ![inSink[p]] = @ + 1] /\ UNCHANGED chan
    /\ UNCHANGED <<ioErrors, samples, seen, defs, batch, out, writer, channelClosed, sidecar,
                   installed, main>>

-----------------------------------------------------------------------------
(* The writer task.                                                         *)

CreateFile ==
    /\ writer = "create"
    /\ writer' = "accumulate"
    /\ UNCHANGED <<ioErrors, inSink, samples, seen, defs, chan, batch, drops, out,
                   channelClosed, sidecar, installed, main>>

Recv ==
    /\ writer = "accumulate" /\ chan # <<>> /\ Len(batch) < BatchLimit
    /\ batch' = Append(batch, Head(chan))
    /\ chan' = Tail(chan)
    /\ UNCHANGED <<ioErrors, inSink, samples, seen, defs, drops, out, writer,
                   channelClosed, sidecar, installed, main>>

\* The window ends: the batch is full or the flush interval expired.
EndWindow ==
    /\ writer = "accumulate"
    /\ writer' = "defs"
    /\ UNCHANGED <<ioErrors, inSink, samples, seen, defs, chan, batch, drops, out,
                   channelClosed, sidecar, installed, main>>

\* recv() returns None: drained, and plugin and registry dropped their senders.
SeeClosed ==
    /\ writer = "accumulate" /\ Len(batch) < BatchLimit
    /\ main # "running" /\ ~installed /\ chan = <<>>
    /\ channelClosed' = TRUE
    /\ writer' = "defs"
    /\ UNCHANGED <<ioErrors, inSink, samples, seen, defs, chan, batch, drops, out,
                   sidecar, installed, main>>

Line(kind, m) == <<kind, m>>

\* flush_defs: take the queue under the mutex and write every definition.
FlushDefs ==
    /\ writer = "defs"
    /\ out' = out \o [i \in 1..Len(defs) |-> Line("Metric", defs[i])]
    /\ defs' = <<>>
    /\ writer' = "points"
    /\ UNCHANGED <<ioErrors, inSink, samples, seen, chan, batch, drops, channelClosed,
                   sidecar, installed, main>>

\* Mutant: the last point of a batch is not written.
EmitPointsShort ==
    /\ writer = "points"
    /\ out' = out \o [i \in 1..Len(batch) - 1 |-> Line("Point", batch[i])]
    /\ batch' = <<>>
    /\ writer' = IF channelClosed THEN "sidecar" ELSE "accumulate"
    /\ UNCHANGED <<ioErrors, inSink, samples, seen, defs, chan, drops, channelClosed,
                   sidecar, installed, main>>

EmitPoints ==
    /\ writer = "points"
    /\ out' = out \o [i \in 1..Len(batch) |-> Line("Point", batch[i])]
    /\ batch' = <<>>
    /\ writer' = IF channelClosed THEN "sidecar" ELSE "accumulate"
    /\ UNCHANGED <<ioErrors, inSink, samples, seen, defs, chan, drops, channelClosed,
                   sidecar, installed, main>>

WriteSidecar ==
    /\ writer = "sidecar"
    /\ sidecar' = <<drops>>
    /\ writer' = "exited"
    /\ UNCHANGED <<ioErrors, inSink, samples, seen, defs, chan, batch, drops, out,
                   channelClosed, installed, main>>

\* Any `?` of run_writer: the task ends with Err, and its receiver is dropped.
IoError ==
    /\ ioErrors /\ writer \in {"create", "defs", "points", "sidecar"}
    /\ writer' = "failed"
    /\ chan' = <<>> /\ batch' = <<>>
    /\ UNCHANGED <<ioErrors, inSink, samples, seen, defs, drops, out, channelClosed,
                   sidecar, installed, main>>

-----------------------------------------------------------------------------
(* The end of run_test.                                                     *)

\* plugin.stop() drops the plugin's sender.
StopPlugin ==
    /\ main = "running"
    /\ main' = "stopping"
    /\ UNCHANGED <<ioErrors, inSink, samples, seen, defs, chan, batch, drops, out, writer,
                   channelClosed, sidecar, installed>>

\* Mutant: the registry keeps its sender.
ClearForgotten ==
    /\ main = "stopping" /\ \A p \in Producers : inSink[p] = None
    /\ main' = "awaiting"
    /\ UNCHANGED <<ioErrors, inSink, samples, seen, defs, chan, batch, drops, out, writer,
                   channelClosed, sidecar, installed>>

\* clear_event_sink takes the write lock: no producer is inside try_record.
ClearEventSink ==
    /\ main = "stopping" /\ \A p \in Producers : inSink[p] = None
    /\ installed' = FALSE
    /\ main' = "awaiting"
    /\ UNCHANGED <<ioErrors, inSink, samples, seen, defs, chan, batch, drops, out, writer,
                   channelClosed, sidecar>>

\* The writer's handle is awaited; an Err inside it is not looked at.
AwaitWriter ==
    /\ main = "awaiting" /\ writer \in {"exited", "failed"}
    /\ main' = "joined"
    /\ UNCHANGED <<ioErrors, inSink, samples, seen, defs, chan, batch, drops, out, writer,
                   channelClosed, sidecar, installed>>

StreamFinished == main = "joined" /\ UNCHANGED streamvars

Writer == CreateFile \/ EndWindow \/ SeeClosed \/ FlushDefs \/ EmitPoints \/ WriteSidecar \/ IoError

StreamNext == \/ \E p \in Producers : TrySend(p) \/ \E m \in Metrics : QueueDef(p, m)
        \/ Writer \/ Recv \/ StopPlugin \/ ClearEventSink \/ AwaitWriter
        \/ StreamFinished

StreamSpec == StreamInit /\ [][StreamNext]_streamvars

-----------------------------------------------------------------------------
(* Properties.                                                              *)

\* "def before first point": every metric is defined exactly once in the
\* stream, before its first point, although definitions and points travel on
\* different queues and producers race for the first sight of a metric.
DefBeforePoint ==
    \A i \in 1..Len(out) :
        IF out[i][1] = "Point"
        THEN \E j \in 1..i - 1 : out[j] = Line("Metric", out[i][2])
        ELSE \A j \in 1..i - 1 : out[j] # out[i]

HowMany(q, x) == Cardinality({i \in 1..Len(q) : q[i] = x})
Pending(m) == HowMany(chan, m) + HowMany(batch, m) + Cardinality({p \in Producers : inSink[p] = m})

\* Without I/O errors every sample of a metric is written, counted as dropped for
\* that metric, or on its way: the closing channel loses nothing.  The sidecar,
\* written after the last drop, reports them all.
SamplesAccounted ==
    ~ioErrors =>
        /\ \A m \in Metrics : samples[m] = HowMany(out, Line("Point", m)) + drops[m] + Pending(m)
        /\ main = "joined" => sidecar = <<drops>> /\ \A m \in Metrics : Pending(m) = 0
=============================================================================
