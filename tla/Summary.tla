------------------------------ MODULE Summary ------------------------------
(***************************************************************************)
(* The end-of-test summary (k6-core/src/summary.rs), as functions of a     *)
(* snapshot.                                                               *)
(***************************************************************************)
EXTENDS Thresholds

\* The selector of the submetric that is tracked without being asked for.
ExpectedResponse ==
    Selector(<<"http_req_duration">>, [k \in {<<"expected_response">>} |-> <<"true">>])

threshold_selectors(ts) ==
    {s \in {Parsed[t.metric] : t \in ts} : s.ok /\ DOMAIN s.tags # {}} \cup {ExpectedResponse}

\* Untagged metrics always; tagged ones only when a threshold asks for them,
\* or when thresholds are off.
include_tagged(key, active, ts) ==
    \/ ~Braced(key)
    \/ ~active
    \/ key \in {canonical(s) : s \in threshold_selectors(ts)}

MetricCounter(n, snap) == [type |-> "counter", count |-> n, rate |-> PerSecond(n, snap)]
MetricGauge(g) == [type |-> "gauge", value |-> g.value, min |-> g.min, max |-> g.max]
MetricRate(r) ==
    [type |-> "rate", rate |-> Ratio(r.passes, r.total), passes |-> r.passes, fails |-> r.total - r.passes]
MetricTrend(t) == [type |-> "trend", stats |-> TrendStats(t)]

\* synthesize_subset_metric: trends, else counters, else rates.
Synthesizable(s, snap) ==
    \E f \in {snap.trends, snap.counters, snap.rates} : Subset(f, canonical(s)) # {}
synthesize_subset_metric(s, snap) ==
    LET m == canonical(s) IN
    IF Subset(snap.trends, m) # {} THEN MetricTrend(merged_trend_for_threshold(m, snap))
    ELSE IF Subset(snap.counters, m) # {} THEN MetricCounter(merged_counter_for_threshold(m, snap), snap)
    ELSE MetricRate(merged_rate_for_threshold(m, snap))

\* An entry of the snapshot as it is, by kind; a later kind wins.
PassThrough(k, snap) ==
    IF k \in DOMAIN snap.trends THEN MetricTrend(snap.trends[k])
    ELSE IF k \in DOMAIN snap.rates THEN MetricRate(snap.rates[k])
    ELSE IF k \in DOMAIN snap.gauges THEN MetricGauge(snap.gauges[k])
    ELSE MetricCounter(snap.counters[k], snap)

SnapKeys(snap) == DOMAIN snap.counters \cup DOMAIN snap.gauges \cup DOMAIN snap.rates \cup DOMAIN snap.trends

\* Mutant: a submetric that is stored as such is not widened.
build_summary_data_shallow(snap, active, ts) ==
    LET shown == {k \in SnapKeys(snap) : include_tagged(k, active, ts)}
        synth == {s \in threshold_selectors(ts) : Synthesizable(s, snap) /\ canonical(s) \notin shown}
    IN  [k \in shown \cup {canonical(s) : s \in synth} |->
            IF k \in shown THEN PassThrough(k, snap)
            ELSE synthesize_subset_metric(Parsed[k], snap)]

\* build_summary_data: what passes the filter, with every targeted submetric
\* replaced by the merge over the wider series.
build_summary_data(snap, active, ts) ==
    LET shown == {k \in SnapKeys(snap) : include_tagged(k, active, ts)}
        synth == {canonical(s) : s \in {u \in IF active THEN threshold_selectors(ts)
                                                ELSE {ExpectedResponse} : Synthesizable(u, snap)}}
    IN  [k \in shown \cup synth |->
            IF k \in synth THEN synthesize_subset_metric(Parsed[k], snap) ELSE PassThrough(k, snap)]

\* convert_group: the tree of the snapshot, node by node.
convert_group(tree1) == [p \in DOMAIN tree1 |-> tree1[p].checks]

-----------------------------------------------------------------------------
(* The text summary: one line per metric, in sections.                     *)

HttpOrder == {<<"http_req_blocked">>, <<"http_req_connecting">>, <<"http_req_duration">>,
              <<"http_req_failed">>, <<"http_req_receiving">>, <<"http_req_sending">>,
              <<"http_req_tls_handshaking">>, <<"http_req_waiting">>}
DataNames == {<<"data_received">>, <<"data_sent">>}
Printed == HttpOrder \cup DataNames \cup
           {<<"checks">>, <<"http_reqs">>, <<"iteration_duration">>, <<"iterations">>,
            <<"dropped_iterations">>, <<"vus">>, <<"vus_max">>}

\* The lines a metric gets: a kind and the section that prints it.
Lines(snap) ==
    {<<"rate", k>> : k \in DOMAIN snap.rates \cap ({<<"checks">>} \cup HttpOrder)}
      \cup {<<"trend", k>> : k \in DOMAIN snap.trends \cap (HttpOrder \cup {<<"iteration_duration">>})}
      \cup {<<"counter", k>> : k \in {n \in DOMAIN snap.counters \cap
              (DataNames \cup {<<"http_reqs">>, <<"iterations">>, <<"dropped_iterations">>}) :
                n = <<"dropped_iterations">> => snap.counters[n] > 0}}
      \cup {<<"gauge", k>> : k \in DOMAIN snap.gauges}
      \cup {<<"trend", k>> : k \in DOMAIN snap.trends \ Printed}
      \cup {<<"rate", k>> : k \in DOMAIN snap.rates \ Printed}
      \cup {<<"counter", k>> : k \in DOMAIN snap.counters \ Printed}

\* build_threshold_map and threshold_mark: one failed expression marks a metric.
threshold_mark(ts, key, snap) ==
    LET mine == {t \in ts : t.metric = key} IN
    IF mine = {} THEN "" ELSE IF all_passed(mine, snap) THEN "ok" ELSE "failed"

\* Gauges and dropped iterations carry no mark.
Marked(l) == l[1] # "gauge" /\ l[2] # <<"dropped_iterations">>
format_summary(snap, ts) ==
    {[line |-> l, mark |-> IF Marked(l) THEN threshold_mark(ts, l[2], snap) ELSE ""] : l \in Lines(snap)}
=============================================================================
