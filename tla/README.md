# Verification of k6-rs

TLA+ models of k6-rs: how a run is configured, the executors, the coroutine VU
scheduler, the run lifecycle with its REST control surface, the HTTP clients and
the script APIs on top of them, the queues between VUs and their outputs, and
what becomes of a recorded sample (registry, thresholds, summary, outputs). TLC
checks every model on small instances; TLAPS proves the most important results
for every instance. `PROJECT.json` names, for every definition, the source lines
it models.

## The system

k6-rs runs a JavaScript load test. `k6-cli` parses options and drives a run
(`run_test`); `k6-core` holds configuration, metrics, thresholds, outputs and
the control surface; `k6-js` runs the scripts. A scenario's executor starts N
event-loop threads; each hosts VUs, one coroutine with its own JS context per
VU, resumed by an async driver. Executors stop in two tiers: a graceful token
(no new iteration) and, after `gracefulStop`, a hard token that force-unwinds
whatever still runs.

| component | state it keeps | operations | talks to | what makes it correct |
|---|---|---|---|---|
| arrival-rate executor (`pool.rs`) | idle queue, dispatch channels, curve clock, tallies | dispatch, drop, report idle, receive, unwind, join | VUs by channels; watchdog by token | one arrival wakes one idle VU; every arrival is in one lane; always returns |
| VU-count executors (`pool.rs`) | shared budget (atomic), tallies, deadline | claim, run, tally, two-phase watchdog, summary | VUs through a control closure | exactly the budget is handed out; hard stop only after graceful stop |
| ramping-vus executor (`pool.rs`) | watch channel, active gauge | ramp change, park, wake, stop | controller to VUs by watch channel; REST gauge | no lost wake-up; the gauge is exact |
| coroutine VU scheduler (`vu_sched.rs`, `coroutine_vu.rs`) | outstanding/registered/completed async ops, futures, outcome cell | bootstrap, resume, yield, register, complete, drain, unwind | executor's control; JS | no op lost, doubled or leaked into the next iteration; a typed outcome |
| console (`console.rs`) | bounded queue, closed flag, counters | emit, write, close, bounded drain | every context; main | nothing vanishes uncounted; the worker ends |
| JSON event stream (`event_stream.rs`) | definition queue, bounded channel, drop counts | record, batch, write, sidecar, stop | registry's sink slot; main | definitions before points; every sample accounted; shutdown does not hang |
| HTTP in-flight limit (`backpressure.rs`) | semaphore, counter | acquire, count, release | every request | permits conserved through cancelled futures |
| run lifecycle and REST control (`control.rs`, `lifecycle.rs`, `main.rs`) | status, pause, tokens, lifecycle lock, setup data | start, pause, resume, stop, hooks, close, end | REST clients, signals, scenarios | the documented stop semantics; setup data sealed at the end |
| configuration (`config.rs`, `env.rs`, `vu.rs`, `main.rs`) | environment, merged options, `TestConfig` | inline imports, resolve env and commands, merge, parse, override | files, script, command line | every option has the value of its highest source |
| schedules (`arrival.rs`, `vu_ramp.rs`) | none | arrival integral, VU count at a time | executors | monotone, from zero, constant after the end |
| HTTP clients (`hyper_client.rs`, `http_client.rs`) | connections, a pool per route, source-address index | resolve, connect, tunnel, handshake, send, drain, redirect, time out | every VU; servers | no connection in two hands, leaked, or pooled half read; bytes are the request's own |
| script http (`api/http.rs`) | cookie jar and response callback per VU | request, batch, asyncRequest, finish | client, registry | one sample per response, judged by its own callback |
| websockets (`api/ws.rs`, `ws_shim.js`) | session registry, command and event channels | connect loop, read and write task, cleanup, drop | VU thread; peer | no frame lost or reordered; no task outlives its session |
| gRPC (`api/grpc.rs`, `grpc_shim.js`) | client ids, the VU's connections | connect, invoke, close | peer, registry | an id names its own open connection |
| metrics registry (`metrics.rs`), selectors (`selector.rs`) | counters, gauges, rates, trends, group tree | recorders, reads, snapshot | every VU; evaluator, reporter | a snapshot shows no effect without its cause |
| thresholds (`thresholds.rs`) | failing-since per threshold | evaluate, tick | run's cancel token | aborts exactly after an unbroken window |
| summary and snapshot outputs (`summary.rs`, `output/`) | rows written, buffers | build, format, start, add_snapshot, stop | final and per-scenario snapshots | what is shown is what was recorded |
| pure script helpers, blocking VU, shared structures, analysis, conformance harness | see *Not modelled* | | | |

What is hard here: a VU may go away (panic, force-unwind, failed build) between
any two messages; two stop tiers race each other and the joins; a VU may miss a
change between reading a value and waiting for the next one; completions are
queued while the coroutine is parked elsewhere; requests' futures are dropped at
every await; bounded queues overflow exactly when shutdown needs them; REST
requests arrive at every point of the run, and clients hang up; pooled
connections go stale; snapshots are taken in the middle of a recorder's writes;
WebSocket tasks share the thread of the script they serve.
`hazards` in `PROJECT.json` lists them line by line with the properties that
cover them.

## Modules

| module | models | state and actions |
|---|---|---|
| `ArrivalRate` | `run_arrival_rate_on`, `ArrivalControl`, the VU task | Coordinator program counter (`startup, top, drain, fire, closing, returning, done`) with one action per step of its loop; per VU `building, parked, running, gone`; the idle channel and the coordinator's deque are sequences, a VU's dispatch channel a counter. `ReportIdle` is `ArrivalControl::next` up to its await, `Receive`/`Stop` the two results of `recv()`. |
| `ArrivalLanes` | abstract: the `RunSummary` contract | Start, Drop, Finish |
| `VuPool` | constant-vus, per-vu-iterations, shared-iterations | `mode` selects the control. `LoadBudget`, `Claim`, `ClaimRetry` are the load, the exchange and its (also spurious) failure; the watchdog has its two phases; `Summarize` is the saturating subtraction. |
| `IterationBudget` | abstract: the budget those three promise | Claim, Finish, Report |
| `RampingVus` | `run_ramping_vus_on`, `RampingControl`, the controller thread | value and version of the watch channel, each receiver's seen version, the gauge |
| `VuSched` | `drive_vu` and the coroutine's iteration loop | `pc` says who has the thread; the bookkeeping of `VuShared` is sets of op ids. The script is arbitrary: it registers, blocks, returns, throws, or returns a promise. The first resume evaluates its top level, whatever the control's signal was; `task` and `sig` keep that signal until the top level is done, which may block and, with `TopLevelAsync`, issue async requests. |
| `Console` | `ConsoleSink::emit`, the worker, `shutdown` | emit is two steps (closed check, `try_send`); the worker's `recv`/`try_recv` modes |
| `EventStream` | `EventSink::try_record`, `run_writer`, the stop order of `main` | definition queue, channel, batch, drop counts, sidecar |
| `Backpressure` | `Backpressure` as `run_op` uses it | a fair semaphore (external, tokio) with its FIFO of waiters, the counter |
| `RunLifecycle` | `run_test` from the control surface on, `Control`, REST mutations, hooks | main's program counter, the callers' lock queue and blocking tasks, tokens, exit code |
| `Config` | `run_test` up to the parsed `TestConfig`, `config.rs`, `env.rs`, `prepare_script_with_dir` | one action per stage (`PrepareScript`, `ResolveEnv`, `ResolveCommands`, `MergeOptions`, `ParseConfig`, `Override`), each with its error exit; JSON values are tagged records; validity and value of an option are separate operators |
| `Schedules` | `ArrivalCurve`, `VuRampSchedule` | pure; fractions are kept exact until the code's own floor or rounding; gives the executors' instances their curves |
| `HttpClients` | the hyper client hop by hop, what the reqwest client adds | `rq[r].pc` is the await a request is in; `conn` and `pool` are the physical connections and the idle stacks per `RouteKey`; `Expire` and `Abandon` drop a future where it is; `ConnTask` is the spawned task of a TLS connection, which moves parts of its own (HTTP/2 control frames, session tickets) through the same counters; servers answer anything and close at any time |
| `HttpApi` | `http.request`, `batch`, `asyncRequest`, callbacks, cookies, samples | extends `HttpClients`; a VU awaits its operations and finishes them on resume |
| `Selectors` | `MetricSelector`, canonical keys, subset matching | pure, over token sequences |
| `Metrics` | `MetricsRegistry`, `BuiltinMetrics`, `check`, `group`, custom metrics | a recorder is the sequence of writes it makes; `Write` performs one of them under its lock, so that a snapshot may fall between two |
| `Thresholds` | parsing, resolution, evaluation, `update_states` | pure, over a snapshot |
| `Summary` | `build_summary_data`, `convert_group`, which lines the text has | pure, over a snapshot |
| `Outputs` | CSV, DuckDB, InfluxDB, Prometheus rows, plugin selection | pure, over a snapshot |
| `Telemetry` | the evaluator and the reporting of `run_test` | composes the five above: VUs record, `EvalTick`, `ScenarioEnds`, `FinalSnapshot`, `SnapshotDone` |
| `WsSessions` | `ws.connect` of the shim, registry, read and write tasks | `stage` is where the script is; tasks run only while it is suspended (coroutine VU) or at any time (blocking VU) |
| `Grpc` | `grpc.Client`, connections, unary calls | operations are split where the script suspends |
| `Waiters` | tokio's fair semaphore and mutex (external): a waiter whose future is dropped leaves the queue | shared by `Backpressure` and `RunLifecycle` |
| `ArrivalRateProofs`, `VuSchedProofs`, `RunLifecycleProofs`, `TelemetryProofs` | theorems about the module they are named for | |
| `VuCountsProofs` | theorems about `VuPool` and `RampingVus` | |
| `ChannelsProofs` | theorems about `Backpressure`, `Console`, `EventStream`, `WsSessions` and `Grpc` | |
| `HttpProofs` | theorems about `HttpClients` and `HttpApi` | |
| `QueueLemmas` | lemmas about queues of distinct ids and how often a queue holds a value, shared by the proof modules | |
| `MCArrivalRate`, `MCVuSched` | instances of one component | |
| `MCVu`, `MCVuCounts`, `MCRun`, `MCRequests`, `MCChannels` | compositions for TLC | `MCRun` is sequential: configuration, then the run. In the others a variable `part` chooses the component a behaviour is about and the rest keeps its initial state: these components share no state, and interleaving them would only multiply it |

Definitions whose comment starts with "Mutant" are wrong variants of the
definition that follows; they are not part of any specification and exist to
show that each property can fail.

Abstractions: the executors take any monotone curve of a discrete clock; sleeps
and poll intervals become "any time later"; script, payloads, log lines and JSON
shapes are left out; byte counts have one unit per message part, and a request is
written in one step; a trend keeps its values instead of a histogram. The executor
modules see a VU as the iterations it runs. A VU that their control stops before
its first iteration ends there; in the code it still evaluates the script's top
level, and one that hangs in a blocking call of it until the hard token adds an
interrupted iteration nobody started. That case is in `VuSched` (`spurious`)
and outside the lane accounting of `ArrivalRate`, `VuPool` and `RampingVus`.

## Runs

| run | question | bounds and why they are enough |
|---|---|---|
| `Arrival` | Does any interleaving double-dispatch a VU, lose an arrival, or keep the executor from returning? Does it implement `ArrivalLanes`? | 2 VUs, 3 arrivals over 2 ticks, two of them due in one pass: drops, re-dispatch, a pass with several arrivals, a dispatch buffered at shutdown all occur. The curve is `Schedules`' ramp from 1 to 2; an `ASSUME` evaluates the curve's monotonicity over 1152 small curves |
| `VuCounts` | Do the iteration-counting executors implement `IterationBudget` and conserve lanes; is the ramp's gauge exact and no wake-up lost; do all return? | three modes, 2 VUs, 2 iterations: two claim loops race for the last one; a ramp 1, 0, 2 that parks a VU in mid-run and wakes two |
| `Vu` | Is the async bookkeeping exact, clean at every boundary, and each iteration in one typed lane; does the task end? Does every request travel on a connection opened for its transport, port, proxy, source address and host, and are the bytes of its response its own? | scheduler: 2 iterations, 3 async requests, batches up to 2, jobs that block, a top level that blocks or throws before a first iteration or before a stop. Connections: 2 requests at once or in turn, a redirect, 2 connections. "routes": 5 URLs that differ in host, port or scheme or are the address another host maps to, one configuration with alternating source addresses, one with proxies, no_proxy and a blacklist: a request meets the connection of any other URL in the pool. "bytes": a URL with and one without TLS, one body frame, a part moved by the connection's task at any moment, servers that close |
| `Lifecycle` | Does configuration follow its precedence, a flag for VUs or duration above all where it has an effect? Do the stop semantics, the sealing of setup data and the serialization of connected clients' hooks hold; does the run end? | 675 inputs (command lines x config files x scripts, environments, import graphs); then 2 REST requests besides main's own hooks, 1 scenario, paused start, clients that hang up. The run does not depend on the configuration beyond its own constants and is followed after one of the inputs; the clients are interchangeable, so a fixed one of them asks first |
| `Requests` | Are pool, cookies and samples sound, and does a stale connection fail one request only? Are snapshots consistent, and do thresholds, summary and rows report what was recorded? | 1 VU with 2 concurrent requests, 2 connections, 2 origins, 4 configurations (proxy and no_proxy, source addresses of both families, host mapping with blacklist, reqwest), 3 kinds of response; 5 runs with their recorders, 2 recording threads, 2 scenarios, up to 4 ticks |
| `Channels` | Is every console record and every sample accounted for, do permits survive dropped futures, do consumers end? Are WebSocket frames delivered once and in order and tasks released? Are gRPC ids and numbers right? | queues of 2 and 1 that fill up, 2 samples of one metric and 1 of another, with and without I/O errors; 4 requests for 2 permits; one session, two frames, both kinds of VU (sessions share nothing but the script that opens one after the other); two gRPC clients, 3 connections, integers of 4 bits |
| `SchedStall`, `SchedBleed`, `SchedTopLevel`, `HooksOverlap`, `ThresholdCount`, `WsClose` | disagreements between code and its own assertions or docs, below | |

`Requests` and `Channels` check no deadlock (in `Vu`, `HttpStops` stands for it): a VU that has used up its requests,
an exited process and a finished channel stop for good.

Fairness. Threads and tasks keep being scheduled (weak fairness of their
steps) and clocks advance. **No** fairness is assumed of scripts or I/O: an
iteration may hang for ever; only under the hard token must it end, because the
driver's `select!` and the JS interrupt handler both watch that token. Strong
fairness is used where the code retries or polls several branches: the weak
compare-exchange (hardware does not fail spuriously for ever), the randomised
`select!` and interrupt counter of the VU, and the writer's receive. In
`RunLifecycle` hooks' tasks are weakly fair: they end or are interrupted.
Console and stream end by the owner's shutdown steps, which `main` always
reaches. For WebSockets handlers return, and the loop thread polls a woken read
task in turn although it can run only at some of the script's yields (strong
fairness); nothing is assumed of the peer. For the composed runs the fairness
formulas stand in the MC modules and are about the part they belong to.

## What the checks found

Six claims of the repository do not hold; each is a `violation` run.

* `SchedStall` - `vu_sched.rs:516` asserts that an AwaitPending has futures in
  flight. Code after an `await` that blocks lets the driver queue the last
  completion first; the coroutine then waits for nothing (debug: panic;
  release: parked until the hard token).
* `SchedBleed` - `coroutine_vu.rs:310` asserts a clean boundary. In ramping-vus
  and arrival-rate the hard token can overtake the relayed graceful stop; the
  next iteration then starts with requests of the last one in flight.
* `SchedTopLevel` - `coroutine_vu.rs:366` expects metadata for every completed
  request. A script whose top level issues an `asyncRequest` and then blocks hands
  it to the driver; the first iteration resets the book (`:312-315`) but not the
  driver's futures, and the late completion panics the VU. (A debug build stops
  at `:310`; without the blocking call the request is never sent.)
* `HooksOverlap` - `lifecycle.rs:2` says calls are serialized. A client that
  hangs up releases the lock while its blocking task still runs JS. For the
  same reason `SnapshotQuiet` and `LiveHooksSerialized` speak of the hooks of
  connected clients only.
* `ThresholdCount` - `thresholds.rs:260` says the subset merge mirrors
  `counter_get`. The snapshot it reads also holds the totals derived from the
  stored series; these match too, so a counter recorded with tags is counted
  more than once by its threshold.
* `WsClose` - `ws.rs:206` says the abort in `Drop for WsSession` is a no-op after
  a graceful close. On a coroutine VU the write task has not run since
  `socket.close()`; the close frame and the messages before it are discarded.

More were met and are part of the models:

* An iteration that started and died with its VU is reported as dropped although
  `pool.rs:388` and `:475` say dropped iterations never started
  (`IterationBudget!Report`).
* A stream file that fails in mid-run ends the writer, after which samples are
  discarded uncounted, although `event_stream.rs:250` says this happens only in
  teardown (hence `~ioErrors` in `SamplesAccounted`).
* A VU whose control declined even its first iteration still evaluates the top
  level; unwound there by the hard token it counts an interrupted iteration that
  never started, although `vu_sched.rs:265` says it is the one in flight
  (`spurious` in `OneLane`).
* A script or config file with `iterations` has become a shared-iterations
  scenario before `--vus` and `--duration` are applied, and these are handed on to
  a constant-vus scenario only, although `main.rs:381` says the command line has
  the highest priority. `Precedence` exempts just these inputs (`FlagsUnused`).
* The pool's key holds the mapped address and not the host, although
  `hyper_client.rs:22` says it holds the host: over TLS, two names mapped to one
  address share the session whose server name was the first one's (the last
  conjunct of `RouteSound` allows for it).

Smaller observations, all visible in the models: option numbers are cut to 32
bits and a scenario's malformed optional duration falls back to its default; a helper imported on two paths is inlined twice (a `const` in it makes
the script unparsable and its options vanish) and an import cycle recurses
without end (`vu.rs:660`, not in the instance); a tag value with a comma makes a
stored key that does not parse back (`CommaFree`); outputs get a snapshot only
when a scenario ends, and InfluxDB and Prometheus buffers are cleared at stop
without being sent; a WebSocket handler that throws skips `__ws_cleanup`, so its
tasks live until the VU goes; a gRPC client that connects again leaves its first
connection open; call metadata with one value that is no string is dropped as a
whole. A REST stop that comes after `end()` (`control.rs:120`) leaves status 9
with exit code 103; no document speaks of that case.

## Proofs

All theorems hold for every value of the constants under the `ASSUME` of the
modules they are about: finite sets of VUs, requests or producers, natural
bounds, a monotone curve that starts at 0, an absent value that is no member of
the sets it is absent from. None assumes fairness. Six have a hypothesis
of their own, named below.

`ArrivalRateProofs`. `TypeCorrect` is inductive by itself. `IdleIffParked` is
inductive with it; the proof works on its membership form (`Membership`:
queues of distinct ids, disjoint, whose VUs are parked without a pending
dispatch), because the lemmas about `Append` and `Tail` speak of membership. The
heart is `LaneStep`: with `Membership`, every step of the executor starts,
drops or finishes exactly one iteration of `ArrivalLanes` or leaves the lanes
alone; a dispatch adds a VU that was not in flight because it was queued.
`RefinesLanes` (refinement) and `LanesSound` (conservation) follow from it.
`SummarySound` adds two invariants: `CurveInv` (the coordinator leaves an
uncancelled run only after the whole curve was consumed: the clock is read once
per pass) and `JoinInv` (the summary is read after every VU is gone).

`VuCountsProofs`, the iteration-counting executors. `TypeOK` alone is not
inductive: a claim stores `cur[v] - 1`. `ClaimInv` adds that a VU in its claim loop read a non-zero budget; then
`remaining` never wraps and `claims + remaining` is constant (`BudgetSound`).
`HardSound` needs that phase 2 of the watchdog is entered with graceful stop
(`PhaseInv`). `PoolLanesSound` counts the running VUs. `RefinesBudget`, the
refinement of `IterationBudget` by all three executors, adds the order of the
joins (`JoinedInv`) and, for per-vu-iterations, that every iteration started uses
up one of the planned slots of its VU (`SlotInv`).

`VuCountsProofs`, ramping-vus. `GaugeExact` is not inductive: a VU that is still
building must be inactive too (`GaugeInv`), or its first decision would count it twice.
`NoLostWakeup` needs that no receiver is ahead of the channel (`WakeInv`): then a
new version is unseen by every parked VU.

`VuSchedProofs`. `OneLane` needs `CellInv`: the outcome cell is empty except at a
boundary after the first resume, so no outcome is tallied twice or overwritten.
`SigInv` ties the signal of the first resume to the place of the top level; a VU
unwound there after a Stop is the one thing counted besides the iterations.
`TypedOutcome` needs `OutcomeInv`: the cell agrees with `__done` and `__failed`,
and the drain loop is left settled or under the hard token. `BookkeepingSound`
and `CleanStartSound` hold under `~Lagging` (the executor raises the VU's stop
condition no later than the hard token, as the VU-count executors do) and
`~TopLevelAsync` (the script's top level issues no `asyncRequest`; it may block,
throw and be unwound); `BookInv` says that the end of the top level and a boundary
without a stop are reached with nothing outstanding (`Idle`), which is what lets
the start of an iteration reset the book without looking at the futures. `SchedBleed`
and `SchedTopLevel` show that both hypotheses are needed. `AwaitPendingSound` is the driver's assertion
for scripts whose jobs do not block (`~NestedSync`) and whose unsettled promise
waits for a request (`ScriptsSettle`): completions are then resolved before the
drain loop looks again (`ServedInv`). `SchedStall` shows what happens otherwise.

`RunLifecycleProofs`. `LockInv`: the lock's queue holds exactly the calls in
progress, a call past the lock is at its head, and a blocking task belongs to a
call that awaits it or to a client that hung up. `LiveHooksSound` follows, and
with `SealInv` (once `closing` is up and the lock was taken or given up, no call
can write) `SnapshotSound` and the action property `SetupSealed`. `StopSound`
needs only that a stop cancels; `StopDocSound` needs `StopInv`, which follows the
exit code and the teardown through main's stages and shows that a failed
teardown failed by itself, because the flag that interrupts hooks goes up behind
it.

`ChannelsProofs`. Permits are conserved because the semaphore's queue holds
exactly the waiting requests, each once (`QueueInv`): a permit that is given back
goes to a request that held none; `InFlightSound` follows as only holders are
counted. `ConsoleSound` is a balance (`Balance`) with `ConsoleInv`: after a
quiescent close nobody sends, and the worker leaves its loop with no record in
the queue. `DefinitionsSound` rests on `DefInv` (a seen metric is defined in the
stream or in the definition queue, never both, and what is on its way was seen);
`StreamSound` on a ledger per metric and `CloseInv` (the channel is seen closed
only after the last producer left). `ReleaseSound` follows every session's place
(`PlaceOf`) through the script's stages; `LosslessSound` splits what the peer sent
into dispatched, queued and unread (`FlowOf`), with the end of the stream as the
last frame. `GrpcSoundness` needs that ids are minted once and that the id of a
connect in flight is nobody's yet (`IdInv`).

`HttpProofs`. One invariant carries all six theorems. `ClientInv` says of a
request which fields its await uses and that its key is the route of its URL
(`RequestOK`), of a connection that its address is one its host or proxy stands
for, that its task moved parts only over TLS, and that it has failed nothing
before it is dropped (`ConnectionOK`), of the two together that they have
the same key and that the wire counters are those at the time of writing plus
what was exchanged since, by the request or by the connection's task (`Carries`), of the pool that what is in it is open,
drained, nobody's and under its own key (`PoolOK`), and that every open
connection is in one place (`HandsOK`). The route is compared through the key,
which is why `RouteSoundness` covers redirects and reuse alike; `SameRoute` says
what two URLs of one key have in common: transport, port, proxy, source, and the
host or the fixed address both stand for. The counters of
`Carries` are claimed before the response head only while the server is there: a
request written to a closed connection leaves no bytes, and gets no response.
The proof has a lemma for each way a step can touch the pool (take, open, use,
put, drop, abandon) and reduces every action to one of them. `Waits` adds
the script's side: who owns a request, that what is awaited has not been
recorded, and that an abandoned request belongs to a VU that is gone.

`TelemetryProofs`. `AbortExact` speaks of the ticks themselves; the code keeps one
time per threshold. `EvalInv` connects them: `failing_since` is None exactly if
the last tick passed the threshold, and otherwise the time of the earliest tick
from which it failed throughout (`WindowOf`). The result of an evaluation is
arbitrary in this proof.

`OrderSound` (`SnapshotOrdered`) is a balance: a cause was counted as often as its
effect, and once more for each call that has made the one write and not yet the
other (`Balance`, where `Owed` counts those calls). `Queues` says why a call owes
one at most: the writes a VU still has to make hold each of the two kinds once and
in the order of the recorder. `Registry` types the maps and the tree, whose groups
have their ancestors. A count of a snapshot is a sum over the stored series that
an untagged name is derived from; a write adds to exactly the names its key leads
to (`FedUpdate`). The hypothesis `Recorders` of this theorem and the next two says
what a script can call: the recorders of `BuiltinMetrics` with any arguments, and
custom metrics under a name the summary has no section for. `KeysAssumption` says of
the strings of a run that the key of a series is read back as it was written, unless
a tag value holds a comma.

`SummarySound` (`SummaryExact`) compares the registry with all writes so far.
`Ledger`: every stored series was written, and the sum over the series that a
selector names is the sum of what was recorded with at least its tags. A snapshot
carries this over to its own maps (`Exported`): to the untagged metric of a name,
which `derive_*` adds up, and to what `merged_*_for_threshold` adds up for a
threshold's selector. The summary and its text read those entries (`SummaryEntry`,
`HasLine`).

`RowsSound` (`RowsCumulative`) needs that the last batch of the file is of a
snapshot that is `Before` every one still to come, which loses no series and lowers
no count (`Grown`); each write preserves this (`WriteGrows`). `Covered` bounds a
snapshot's counters by the `Ledger`. Two rows of a batch differ in their series
because keys that parse are read back, and a key that does not is cut into a name
and tags that no other key of the run gives (`RowsAssumption`).

What the recursive functions behind sums and folds are is proved once (`SumUnfold`,
`SumStep`, `MergeUnfold`) by induction over the subsets of a finite set
(`SetInduction`, from the well-foundedness of `<` on the naturals).

Proved and not part of a run, because the theorem says it for every instance or
another property implies it: the type invariants, `SummaryComplete` (with
`ImplementsLanes`), `BudgetExact` (with `ImplementsBudget`), `HardAfterGraceful`
and `InFlightBounded`.

Only model-checked: all liveness (`Terminates`, `VuEnds`, `ExecutorReturns`,
`DrainCompletes`, `NoStarvation`, `WsConnectEnds`, `RunEnds`: fairness is out of
the prover's reach); `Precedence` of `Config`, whose import inlining and JSON merge
are recursive over data; and the violations, which are traces.

## Not modelled

* Crypto, WebCrypto, HTML, encoding, CSV, fs and secrets: stateless bindings.
* Timers: `setTimeout` and `setInterval` sleep inside the call; streams read whole
  files. Neither keeps state that another step could disturb.
* The blocking VU (`vu.rs`): a call of it is one task of `RunLifecycle`; its host
  functions are those of the coroutine VU without the yields.
* `shared/` (queue, counter, array): not reachable from scripts in this version.
* Static analysis, the banner, text layout, the conformance harness, the read-only
  REST endpoints and all JSON shapes: pure input/output.
* Connections, redirects and proxies of the reqwest client: the library's.
* The rps limiter (`backpressure.rs:102`): `run_test` makes one and hands it to no
  client, and `acquire` gives its permit back at once.
* Floating-point error of curves, rates and histograms.
* A `ws.connect` inside a handler of another session: sessions are opened one
  after the other. gRPC calls of one VU are sequential, so that part is mostly
  bookkeeping. `Requests` has one VU; that cookies stay with their VU is shown for
  several by `RecordedSoundness` only.

## Plan

1. (done) executors, VU scheduler, control, queues; proofs of the arrival-rate
   executor, the iteration budget, the VU's lanes and the in-flight limit.
2. (done) configuration, schedules, HTTP clients and script http, registry,
   selectors, thresholds, summary, outputs, WebSockets, gRPC.
3. (done) proofs of `RampingVus`, the bookkeeping of `VuSched`, `RunLifecycle`,
   the channels, gRPC, WebSockets, the HTTP clients and script http, and of the
   threshold evaluator's window.
4. (done) the iteration budget of all three executors; the order within snapshots,
   the exported summary and the rows of the CSV file.
5. (done) the script's top level in `VuSched`, the effect of `--vus` and
   `--duration`, ports and addresses of routes, the bytes of a TLS connection's
   task; their theorems restated and proved again.
