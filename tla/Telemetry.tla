----------------------------- MODULE Telemetry -----------------------------
(***************************************************************************)
(* What a run reports: VUs record into the registry while the threshold    *)
(* evaluator of run_test (k6-cli/src/main.rs) ticks, a snapshot goes to    *)
(* the outputs each time a scenario ends, and a last one, taken when every *)
(* scenario has ended, becomes the summary and the exit code.              *)
(***************************************************************************)
EXTENDS Outputs

CONSTANTS
    Runs   \* the runs explored: [thresholds, no_thresholds, the --out flags, the
           \*  recorder calls of the script, scenarios, and two bounds: writes
           \*  and seconds of the run]

ASSUME TelemetryAssumption ==
    \A r \in Runs :
        /\ r.no_thresholds \in BOOLEAN
        /\ \A t \in r.thresholds : t.abort_on_fail \in BOOLEAN /\ t.delay_abort_eval \in Nat

VARIABLES
    run,      \* this run, a member of Runs
    now,      \* the clock of Instant::now, in seconds
    states,   \* ThresholdState of each threshold
    log,      \* (ghost) what each tick saw: [at, failed]
    cancelled,\* the evaluator cancelled the run
    live,     \* scenarios still running
    snap,     \* the snapshot being taken: its maps, and `made` then
    sinks,    \* --out flag -> its plugin
    phase,    \* "running" | "reporting" | "exited"
    code      \* exit code, -1 while the process runs

evaluator == <<states, log, cancelled>>
tvars == <<registry, todo, made, run, now, evaluator, live, snap, sinks, phase, code>>

ts == run.thresholds
NoSnap == [final |-> FALSE]

TelemetryInit ==
    /\ MetricsInit
    /\ run \in Runs
    /\ now = 0
    /\ states = [t \in ts |-> NeverFailed] /\ log = << >> /\ cancelled = FALSE
    /\ live = run.scenarios
    /\ snap = NoSnap
    /\ sinks = [f \in run.outs |-> start(f)]
    /\ LET startable == /\ \A f \in run.outs : create_output(f).ok
                        /\ Cardinality({f \in run.outs : f.name = "json"}) <= 1
       IN  /\ phase = IF startable THEN "running" ELSE "exited"
           /\ code = IF startable THEN -1 ELSE 1

\* A VU records: in an iteration, or in setup or teardown.
Recording(v) ==
    /\ phase = "running"
    /\ Record(v, run.calls, run.writes) \/ Write(v)
    /\ UNCHANGED <<run, now, evaluator, live, snap, sinks, phase, code>>

Clock ==
    /\ phase = "running" /\ live > 0 /\ now < run.seconds
    /\ now' = now + 1
    /\ UNCHANGED <<registry, todo, made, run, evaluator, live, snap, sinks, phase, code>>

\* The periodic evaluator, spawned only for an abort_on_fail threshold: a tick
\* per second after the first, late ones in a burst.
EvalTick ==
    /\ phase = "running" /\ live > 0 /\ ~cancelled
    /\ ~run.no_thresholds /\ \E t \in ts : t.abort_on_fail
    /\ Len(log) < now
    /\ \E failing \in {evaluate(ts, SnapshotMaps(now))} :
         /\ states' = update_states(ts, failing, states, now)
         /\ log' = Append(log, [at |-> now, failed |-> failing])
    /\ cancelled' = TickAborts(ts, states', now)
    /\ UNCHANGED <<registry, todo, made, run, now, live, snap, sinks, phase, code>>

\* A scenario ends, with the last one all iterations; the plugins, if there
\* are any, get a snapshot.
ScenarioEnds ==
    /\ phase = "running" /\ live > 0 /\ snap = NoSnap
    /\ live = 1 => \A v \in Vus : todo[v] = << >>
    /\ live' = live - 1
    /\ snap' = IF run.outs = {} THEN NoSnap
               ELSE [of |-> made, final |-> FALSE, maps |-> SnapshotMaps(now)]
    /\ UNCHANGED <<registry, todo, made, run, now, evaluator, sinks, phase, code>>

\* The final snapshot, once scenarios and teardown are over.
FinalSnapshot ==
    /\ phase = "running" /\ live = 0 /\ snap = NoSnap /\ \A v \in Vus : todo[v] = << >>
    /\ phase' = "reporting"
    /\ snap' = [of |-> made, final |-> TRUE, maps |-> SnapshotMaps(now)]
    /\ UNCHANGED <<registry, todo, made, run, now, evaluator, live, sinks, code>>

\* snapshot() locks the tree last; then the outputs get it, or the summary
\* and the exit code are made from it and the outputs stop.
SnapshotDone ==
    /\ snap # NoSnap
    /\ snap' = NoSnap
    /\ phase' = IF snap.final THEN "exited" ELSE phase
    /\ sinks' = [f \in run.outs |-> IF snap.final THEN stop(sinks[f])
                                    ELSE add_snapshot(sinks[f], snap.maps, now)]
    /\ code' = IF ~snap.final THEN code
               ELSE IF ~run.no_thresholds /\ ~all_passed(ts, snap.maps) THEN 99 ELSE 0
    /\ UNCHANGED <<registry, todo, made, run, now, evaluator, live>>

TelemetryNext ==
    \/ \E v \in Vus : Recording(v)
    \/ Clock \/ EvalTick \/ ScenarioEnds \/ FinalSnapshot \/ SnapshotDone

TelemetrySpec == TelemetryInit /\ [][TelemetryNext]_tvars

-----------------------------------------------------------------------------
(* What was recorded, from the writes themselves.                          *)

TagsOf(w) ==
    [k \in {w.tags[i][1] : i \in DOMAIN w.tags} |->
        w.tags[Max({i \in DOMAIN w.tags : w.tags[i][1] = k})][2]]
Carries(w, query) == \A k \in DOMAIN query : k \in DOMAIN TagsOf(w) /\ TagsOf(w)[k] = query[k]

HasComma(w) == \E k \in DOMAIN TagsOf(w) : contains_reserved_value(TagsOf(w)[k])
WritesOf(op, name, b) == {w \in DOMAIN b : w.op = op /\ w.name = name}
CommaFree(op, name, b) == \A w \in WritesOf(op, name, b) : ~HasComma(w)

\* A storage key parses back to the name and the tags it was built from, unless
\* a tag value holds a comma: it then does not parse at all, and an output only
\* finds its name.
KeyReadsBack(w) ==
    /\ {w.key, w.name} \subseteq Texts
    /\ ~Braced(w.name) /\ Parsed[w.name] = Selector(w.name, << >>)
    /\ Braced(w.key) <=> DOMAIN TagsOf(w) # {}
    /\ IF HasComma(w) THEN ~Parsed[w.key].ok /\ split_canonical_for_sink(w.key).name = w.name
       ELSE Parsed[w.key] = Selector(w.name, TagsOf(w)) /\ canonical(Parsed[w.key]) = w.key

\* So does the canonical form of a selector.
SelectorReadsBack(s) == s.ok => canonical(s) \in Texts /\ Parsed[canonical(s)] = s

Calls == UNION {r.calls : r \in Runs}
AllWrites == UNION {{c[i] : i \in DOMAIN c} : c \in Calls}
SeriesWrites == {w \in AllWrites : w.op \in {"counter", "gauge", "rate", "trend"}}

ASSUME KeysAssumption ==
    /\ \A w \in SeriesWrites : KeyReadsBack(w)
    /\ \A r \in Runs : \A t \in r.thresholds : t.metric \in Texts /\ SelectorReadsBack(Parsed[t.metric])
    /\ SelectorReadsBack(ExpectedResponse)

\* What an output reads off a key that does not parse is not what it reads off
\* another one.
ASSUME RowsAssumption ==
    \A w, u \in SeriesWrites : HasComma(w) =>
        \A k \in {u.key, u.name} : parse_metric_name(k) = parse_metric_name(w.key) => k = w.key

Counted(name, query, b) ==
    SumFunction([w \in {v \in WritesOf("counter", name, b) : Carries(v, query)} |-> w.x * b[w]])
Observed(name, query, b) ==
    SumFunctionOnSet(b, {w \in WritesOf("trend", name, b) : Carries(w, query)})

CheckTotal(t) ==
    SumFunction([pc \in UNION {{p} \X DOMAIN t[p].checks : p \in DOMAIN t} |->
                    t[pc[1]].checks[pc[2]].passes + t[pc[1]].checks[pc[2]].fails])
Total(f, k) == IF k \in DOMAIN f THEN f[k].total ELSE 0
Count(f, k) == IF k \in DOMAIN f THEN f[k].count ELSE 0
Value(f, k) == IF k \in DOMAIN f THEN f[k] ELSE 0

(***************************************************************************)
(* A snapshot never shows an effect without its cause, however VUs record  *)
(* between its map locks and its tree lock: the per-check records cover    *)
(* the `checks` rate, requests and iterations cover their durations, and   *)
(* every group has its ancestors.  In the final one the sides are equal.   *)
(***************************************************************************)
SnapshotOrdered ==
    snap # NoSnap =>
        LET m == snap.maps
            checks == <<CheckTotal(tree), Total(m.rates, <<"checks">>)>>
            requests == <<Value(m.counters, <<"http_reqs">>), Count(m.trends, <<"http_req_duration">>)>>
            last == <<Count(m.trends, <<"http_req_duration">>), Count(m.trends, <<"http_req_receiving">>)>>
            iters == <<Value(m.counters, <<"iterations">>), Count(m.trends, <<"iteration_duration">>)>>
        IN  /\ \A pair \in {checks, requests, last, iters} :
                  IF snap.final THEN pair[1] = pair[2] ELSE pair[1] >= pair[2]
            /\ \A p \in DOMAIN tree : PathPrefixes(p) \subseteq DOMAIN tree

(***************************************************************************)
(* The evaluator cancels the run exactly when an abort_on_fail threshold   *)
(* has failed at every tick over at least its delayAbortEval: one passing  *)
(* tick restarts the window, a flapping threshold never adds up.           *)
(***************************************************************************)
AbortExact ==
    cancelled <=>
        \E t \in ts, i \in DOMAIN log :
            /\ t.abort_on_fail
            /\ \A j \in i..Len(log) : t \in log[j].failed
            /\ log[Len(log)].at - log[i].at >= t.delay_abort_eval

\* The writes the snapshot in progress was taken at are the ones made so far.
UpToDate == snap # NoSnap /\ snap.of = made

(***************************************************************************)
(* Every count of the exported summary is what was recorded up to the      *)
(* snapshot: an untagged metric counts all its samples, a submetric that a *)
(* threshold names those that carry at least its tags; no other submetric  *)
(* is in it (but for --no-thresholds, which shows every stored series),    *)
(* and every untagged metric has its line in the text.  Metrics with a     *)
(* comma in a tag value are left out: their keys do not parse back.        *)
(***************************************************************************)
SummaryExact ==
    UpToDate =>
        LET shown(s) == DOMAIN s.tags = {} \/ run.no_thresholds \/ s \in threshold_selectors(ts)
            merged(s) == DOMAIN s.tags = {} \/ ~run.no_thresholds
            exact(m, s) ==
                /\ (m.type = "counter" /\ CommaFree("counter", s.name, snap.of)) =>
                      m.count = Counted(s.name, s.tags, snap.of)
                /\ (m.type = "trend" /\ CommaFree("trend", s.name, snap.of)) =>
                      m.stats.count = Observed(s.name, s.tags, snap.of)
            all(sum, text) ==
                \A k \in DOMAIN sum : \A s \in {Parsed[k]} : s.ok =>
                    /\ shown(s)
                    /\ DOMAIN s.tags = {} => k \in text
                    /\ merged(s) => exact(sum[k], s)
        IN  all(build_summary_data(snap.maps, ~run.no_thresholds, ts),
                {l.line[2] : l \in format_summary(snap.maps, ts)})

(***************************************************************************)
(* A threshold reads what the live registry reads: the count it resolves   *)
(* for a counter is the number of events recorded for that selector.       *)
(***************************************************************************)
ThresholdsReadLive ==
    UpToDate =>
        \A t \in ts :
          LET s == Parsed[t.metric] IN
          (s.ok /\ Subset(snap.maps.counters, t.metric) # {} /\ CommaFree("counter", s.name, snap.of)) =>
              merged_counter_for_threshold(t.metric, snap.maps) = Counted(s.name, s.tags, snap.of)

(***************************************************************************)
(* The CSV file reports running totals: a series that a batch of rows has  *)
(* is in every later batch, with a count that never went down, and nothing *)
(* is reported that was not recorded by then.  Scenarios end one by one    *)
(* while the others still record.                                          *)
(***************************************************************************)
RowsCumulative ==
    \A f \in {g \in run.outs : g.name = "csv"} :
        LET batches == sinks[f].written
            count(r) == IF r.metric_type = "trend" THEN r.metric_value[7] ELSE r.metric_value[1]
            series(r) == <<r.metric_name, r.metric_type, r.tags>>
            counted == {"counter", "trend"}
        IN  /\ \A i \in 2..Len(batches) :
                  \A r \in batches[i - 1] :
                      \E q \in batches[i] : series(q) = series(r) /\ (r.metric_type \in counted => count(q) >= count(r))
            /\ \A i \in DOMAIN batches :
                  Cardinality({series(r) : r \in batches[i]}) = Cardinality(batches[i])
            /\ \A i \in DOMAIN batches : \A r \in batches[i] :
                  (r.metric_type = "counter" /\ CommaFree("counter", r.metric_name, made)) =>
                     count(r) <= Counted(r.metric_name, << >>, made)
=============================================================================
