------------------------------ MODULE Metrics ------------------------------
(***************************************************************************)
(* The shared metrics registry (k6-core/src/metrics.rs).  Every stored     *)
(* series has a canonical full-tag key; the four maps and the group tree   *)
(* have a lock each.  A recorder of BuiltinMetrics is a list of writes,    *)
(* each made under one lock, so VUs, snapshots and the threshold evaluator *)
(* interleave between them.  Reads and snapshots merge series.             *)
(***************************************************************************)
EXTENDS Selectors, Bags, FiniteSetsExt

CONSTANT Vus    \* the threads that record

ASSUME VusAssumption == IsFiniteSet(Vus)

VARIABLES
    counters,   \* key -> value
    gauges,     \* key -> [value, min, max], the bits of floats
    rates,      \* key -> [passes, total]
    trends,     \* key -> TrendMetric
    tree,       \* group path -> [checks: name -> [passes, fails], duration]
    metric_contains,  \* metric name -> "time" | "default"
    todo,       \* [Vus -> the writes its recorder call still has to make]
    made        \* (ghost) the writes made, as a bag

registry == <<counters, gauges, rates, trends, tree, metric_contains>>

-----------------------------------------------------------------------------
(* Gauges: the bits of a non-negative float order as the float does, those *)
(* of a negative one lie above all of them.                                *)

SignBit == 1000     \* stands for 2^63
to_bits(x) == IF x >= 0 THEN x ELSE SignBit - x
from_bits(b) == IF b < SignBit THEN b ELSE SignBit - b
MaxBits == 2 * SignBit

GaugeNew == [value |-> 0, min |-> MaxBits, max |-> 0]
GaugeSet(g, x) ==
    [value |-> to_bits(x), min |-> Min({g.min, to_bits(x)}), max |-> Max({g.max, to_bits(x)})]

-----------------------------------------------------------------------------
(* Trends: count, sum and extremes of every sample (in microseconds), the  *)
(* histogram of those of at least one microsecond.                         *)

NoMin == 1000000
TrendNew == [count |-> 0, sum |-> 0, min |-> NoMin, max |-> -NoMin, histogram |-> EmptyBag]

TrendRecord(t, x) ==
    [count |-> t.count + 1, sum |-> t.sum + x, min |-> Min({t.min, x}), max |-> Max({t.max, x}),
     histogram |-> IF x >= 1 THEN t.histogram (+) SetToBag({x}) ELSE t.histogram]

TrendMerge(t, o) ==
    IF o.count = 0 THEN t
    ELSE [count |-> t.count + o.count, sum |-> t.sum + o.sum, min |-> Min({t.min, o.min}),
          max |-> Max({t.max, o.max}), histogram |-> t.histogram (+) o.histogram]

\* hdrhistogram's value_at_quantile: the least value with q percent of the
\* samples at or below it.
value_at_quantile(h, q) ==
    LET n == BagCardinality(h)
        below(x) == BagCardinality([y \in {z \in DOMAIN h : z <= x} |-> h[y]])
    IN  Min({x \in DOMAIN h : 100 * below(x) >= Min({q * n, 100 * n})})

Quantile(h, q) == IF h = EmptyBag THEN 0 ELSE value_at_quantile(h, q)

\* TrendMetric::stats; an average is the pair sum, count.
TrendStats(t) ==
    IF t.count = 0
    THEN [avg |-> <<0, 1>>, min |-> 0, max |-> 0, med |-> 0, p90 |-> 0, p95 |-> 0, p99 |-> 0,
          count |-> 0]
    ELSE [avg |-> <<t.sum, t.count>>, min |-> t.min, max |-> t.max,
          med |-> Quantile(t.histogram, 50), p90 |-> Quantile(t.histogram, 90),
          p95 |-> Quantile(t.histogram, 95), p99 |-> Quantile(t.histogram, 99),
          count |-> t.count]

-----------------------------------------------------------------------------
(* The group tree: a node per group path, which exists with its ancestors. *)

GroupNode == [checks |-> << >>, duration |-> TrendNew]
PathPrefixes(path) == {SubSeq(path, 1, i) : i \in 0..Len(path)}

navigate_or_create(t, path) ==
    [p \in DOMAIN t \cup PathPrefixes(path) |-> IF p \in DOMAIN t THEN t[p] ELSE GroupNode]

Ratio(n, d) == IF d > 0 THEN <<n, d>> ELSE <<0, 1>>

\* f with f[k] set to New(f[k]), or to New(default) when k is missing.
Upsert(f, k, default, New(_)) ==
    [x \in DOMAIN f \cup {k} |->
        IF x # k THEN f[x] ELSE New(IF k \in DOMAIN f THEN f[k] ELSE default)]

CheckAdd(node, name, passed) ==
    [node EXCEPT !.checks = Upsert(@, name, [passes |-> 0, fails |-> 0], LAMBDA r :
        [r EXCEPT !.passes = IF passed THEN @ + 1 ELSE @,
                  !.fails  = IF passed THEN @ ELSE @ + 1])]

-----------------------------------------------------------------------------
(* The recorders of BuiltinMetrics and of k6/metrics, as their writes.     *)

Tagged(op, name, tags, x) ==
    [op |-> op, key |-> canonical_key(name, tags), x |-> x, name |-> name, tags |-> tags]
Counter(name, tags, x) == Tagged("counter", name, tags, x)
Rate(name, tags, passed) == Tagged("rate", name, tags, passed)
Trend(name, tags, x) == Tagged("trend", name, tags, x)
Gauge(name, x) == Tagged("gauge", name, << >>, x)

set_vus(n) == <<Gauge(<<"vus">>, n)>>
set_vus_max(n) == <<Gauge(<<"vus_max">>, n)>>
record_data_sent(n) == <<Counter(<<"data_sent">>, << >>, n)>>
record_data_received(n) == <<Counter(<<"data_received">>, << >>, n)>>

record_iteration(x) == <<Counter(<<"iterations">>, << >>, 1), Trend(<<"iteration_duration">>, << >>, x)>>

record_dropped_iterations(count) ==
    IF count > 0 THEN <<Counter(<<"dropped_iterations">>, << >>, count)>> ELSE << >>

\* Mutant: the aggregate is updated before the check's own record.
record_check_aggregate_first(path, name, passed) ==
    <<Rate(<<"checks">>, << >>, passed),
      [op |-> "check", path |-> path, name |-> name, x |-> passed]>>

record_check(path, name, passed) ==
    <<[op |-> "check", path |-> path, name |-> name, x |-> passed],
      Rate(<<"checks">>, << >>, passed)>>

\* group(): the node is registered on entry, the duration recorded on exit.
group_enter(path) == <<[op |-> "group", path |-> path]>>
record_group_duration(path, x) ==
    <<[op |-> "group_duration", path |-> path, x |-> x], Trend(<<"group_duration">>, << >>, x)>>

\* Nine metrics off one tag suffix; `failed` is a list of at most one verdict.
record_http_request(tags, failed, x) ==
    <<Counter(<<"http_reqs">>, tags, 1)>>
    \o [i \in DOMAIN failed |-> Rate(<<"http_req_failed">>, tags, failed[i])]
    \o <<Trend(<<"http_req_duration">>, tags, x), Trend(<<"http_req_blocked">>, tags, 0),
         Trend(<<"http_req_connecting">>, tags, x), Trend(<<"http_req_tls_handshaking">>, tags, 0),
         Trend(<<"http_req_sending">>, tags, x), Trend(<<"http_req_waiting">>, tags, x),
         Trend(<<"http_req_receiving">>, tags, x)>>

record_ws_session(tags, x) ==
    <<Counter(<<"ws_sessions">>, tags, 1), Trend(<<"ws_session_duration">>, tags, x)>>
record_ws_connecting(tags, x) == <<Trend(<<"ws_connecting">>, tags, x)>>
record_ws_msg_sent(tags) == <<Counter(<<"ws_msgs_sent">>, tags, 1)>>
record_ws_msg_received(tags) == <<Counter(<<"ws_msgs_received">>, tags, 1)>>
record_ws_ping(tags, x) == <<Trend(<<"ws_ping">>, tags, x)>>
record_grpc_request(tags, x) ==
    <<Counter(<<"grpc_reqs">>, tags, 1), Trend(<<"grpc_req_duration">>, tags, x)>>

\* k6/metrics: the constructor registers `contains`, add drops its tags and a
\* counter turns a missing or zero value into 1.
custom_metric(kind, name, x) ==
    <<[op |-> "contains", name |-> name, x |-> IF kind = "trend_time" THEN "time" ELSE "default"],
      CASE kind \in {"trend", "trend_time"} -> Trend(name, << >>, x)
        [] kind = "counter" -> Counter(name, << >>, IF x = 0 THEN 1 ELSE x)
        [] kind = "rate"    -> Rate(name, << >>, x # 0)
        [] OTHER            -> Gauge(name, x)>>

-----------------------------------------------------------------------------
(* One write: its lock, its map, its series.                               *)

Apply(w) ==
    /\ counters' = IF w.op = "counter" THEN Upsert(counters, w.key, 0, LAMBDA c : c + w.x)
                   ELSE counters
    /\ gauges' = IF w.op = "gauge" THEN Upsert(gauges, w.key, GaugeNew, LAMBDA g : GaugeSet(g, w.x))
                 ELSE gauges
    /\ rates' = IF w.op = "rate"
                THEN Upsert(rates, w.key, [passes |-> 0, total |-> 0],
                            LAMBDA r : [passes |-> r.passes + (IF w.x THEN 1 ELSE 0),
                                        total  |-> r.total + 1])
                ELSE rates
    /\ trends' = IF w.op = "trend" THEN Upsert(trends, w.key, TrendNew, LAMBDA t : TrendRecord(t, w.x))
                 ELSE trends
    /\ tree' = CASE w.op = "check" ->
                      [navigate_or_create(tree, w.path) EXCEPT ![w.path] = CheckAdd(@, w.name, w.x)]
                 [] w.op = "group" -> navigate_or_create(tree, w.path)
                 [] w.op = "group_duration" ->
                      [navigate_or_create(tree, w.path) EXCEPT ![w.path].duration = TrendRecord(@, w.x)]
                 [] OTHER -> tree
    /\ metric_contains' = IF w.op = "contains" THEN Upsert(metric_contains, w.name, w.x, LAMBDA c : c)
                          ELSE metric_contains

MetricsInit ==
    /\ counters = << >> /\ gauges = << >> /\ rates = << >> /\ trends = << >>
    /\ tree = [p \in {<< >>} |-> GroupNode]
    /\ metric_contains = << >>
    /\ todo = [v \in Vus |-> << >>] /\ made = EmptyBag

\* A script on v calls a recorder: one of `calls`, each the list of its writes.
\* Bound: a run makes at most `most` writes.
Record(v, calls, most) ==
    /\ todo[v] = << >>
    /\ \E writes \in calls :
         /\ BagCardinality(made) + Len(writes) + FoldSet(LAMBDA u, n : n + Len(todo[u]), 0, Vus) <= most
         /\ todo' = [todo EXCEPT ![v] = writes]
    /\ UNCHANGED <<registry, made>>

Write(v) ==
    /\ todo[v] # << >>
    /\ Apply(Head(todo[v]))
    /\ todo' = [todo EXCEPT ![v] = Tail(@)]
    /\ made' = made (+) SetToBag({Head(todo[v])})

-----------------------------------------------------------------------------
(* Live reads.                                                             *)

Matching(f, raw) == {k \in DOMAIN f : stored_matches_query(k, raw)}
Field(f, field) == [k \in DOMAIN f |-> f[k][field]]

counter_get(cs, raw) == SumFunctionOnSet(cs, Matching(cs, raw))

rate_get(rs, raw) ==
    LET S == Matching(rs, raw)
        passes == SumFunctionOnSet(Field(rs, "passes"), S)
        total  == SumFunctionOnSet(Field(rs, "total"), S)
    IN  [rate |-> Ratio(passes, total), passes |-> passes, total |-> total]

MergeTrends(ts, S) == FoldFunctionOnSet(LAMBDA o, t : TrendMerge(t, o), TrendNew, ts, S)
trend_stats(ts, raw) == TrendStats(MergeTrends(ts, Matching(ts, raw)))
gauge_get(gs, key) == IF key \in DOMAIN gs THEN from_bits(gs[key].value) ELSE 0
check_get(t, path, name) ==
    IF path \in DOMAIN t /\ name \in DOMAIN t[path].checks
    THEN t[path].checks[name] ELSE [passes |-> 0, fails |-> 0]

-----------------------------------------------------------------------------
(* Snapshots: each stored series, and the untagged aggregate of the tagged *)
(* ones.                                                                   *)

derive_targets(key) ==
    LET targets(s) == IF ~s.ok THEN {key}
                      ELSE {canonical(s)} \cup (IF DOMAIN s.tags = {} THEN {} ELSE {s.name})
    IN  targets(Parsed[key])

Targets(f) == UNION {derive_targets(k) : k \in DOMAIN f}
Sources(f, target) == {k \in DOMAIN f : target \in derive_targets(k)}

\* Mutant: a source replaces the entry of its target instead of adding to it.
derive_counters_replace(f) == [t \in Targets(f) |-> f[CHOOSE k \in Sources(f, t) : TRUE]]

derive_counters(f) == [t \in Targets(f) |-> SumFunctionOnSet(f, Sources(f, t))]
derive_rates(f) ==
    [t \in Targets(f) |-> [passes |-> SumFunctionOnSet(Field(f, "passes"), Sources(f, t)),
                           total  |-> SumFunctionOnSet(Field(f, "total"), Sources(f, t))]]
derive_trends(f) == [t \in Targets(f) |-> MergeTrends(f, Sources(f, t))]
GaugeViews(f) ==
    [k \in DOMAIN f |-> [value |-> from_bits(f[k].value), max |-> from_bits(f[k].max),
                         min |-> IF f[k].min = MaxBits THEN from_bits(f[k].value)
                                 ELSE from_bits(f[k].min)]]

\* MetricsRegistry::snapshot holds the four map locks together...
SnapshotMaps(secs) ==
    [counters |-> derive_counters(counters), gauges |-> GaugeViews(gauges),
     rates |-> derive_rates(rates), trends |-> derive_trends(trends), secs |-> secs]

\* ...and locks the tree afterwards.
SnapshotTree == [p \in DOMAIN tree |-> [checks |-> tree[p].checks,
                                        duration |-> TrendStats(tree[p].duration)]]

\* The `contains` of a metric, registered or built in.
contains(key) ==
    LET base == split_canonical_for_sink(key).name IN
    IF base \in DOMAIN metric_contains THEN metric_contains[base]
    ELSE IF base \in {<<"data_sent">>, <<"data_received">>} THEN "data"
    ELSE IF base \in {<<"http_req_duration">>, <<"http_req_blocked">>, <<"http_req_connecting">>,
                      <<"http_req_tls_handshaking">>, <<"http_req_sending">>, <<"http_req_waiting">>,
                      <<"http_req_receiving">>, <<"iteration_duration">>, <<"group_duration">>,
                      <<"ws_connecting">>, <<"ws_session_duration">>, <<"ws_ping">>,
                      <<"grpc_req_duration">>} THEN "time"
    ELSE "default"
=============================================================================
