------------------------------ MODULE Outputs ------------------------------
(***************************************************************************)
(* The snapshot outputs (k6-core/src/output): what one snapshot becomes in *)
(* a CSV file, a DuckDB import, InfluxDB lines and Prometheus series.  A   *)
(* HashMap of tags is written in any order: it is the set of its pairs.    *)
(***************************************************************************)
EXTENDS Summary

NoArg == "none"

\* parse_out_flag and create_output: the plugin and where it writes, or an
\* error, which ends the run before it starts.
create_output(flag) ==
    IF flag.name \in {"json", "csv", "duckdb"}
    THEN [ok |-> TRUE, name |-> flag.name, arg |-> IF flag.arg = NoArg THEN "results" ELSE flag.arg]
    ELSE [ok |-> flag.name \in {"influxdb", "prometheus"} /\ flag.arg # NoArg,
          name |-> flag.name, arg |-> flag.arg]

\* parse_metric_name: the grammar, or the loose split when it fails.
parse_metric_name(key) ==
    IF Parsed[key].ok THEN [name |-> Parsed[key].name, tags |-> Parsed[key].tags]
    ELSE split_canonical_for_sink(key)

Sample(type, key, value, at) ==
    [metric |-> parse_metric_name(key).name, tags |-> parse_metric_name(key).tags,
     metric_type |-> type, timestamp |-> at, value |-> value]

snapshot_to_samples(snap, at) ==
    {Sample("counter", k, [count |-> snap.counters[k], rate |-> PerSecond(snap.counters[k], snap)], at) :
        k \in DOMAIN snap.counters}
      \cup {Sample("gauge", k, snap.gauges[k], at) : k \in DOMAIN snap.gauges}
      \cup {Sample("rate", k, [rate |-> Ratio(snap.rates[k].passes, snap.rates[k].total),
                               passes |-> snap.rates[k].passes, total |-> snap.rates[k].total], at) :
              k \in DOMAIN snap.rates}
      \cup {Sample("trend", k, TrendStats(snap.trends[k]), at) : k \in DOMAIN snap.trends}

TagPairs(tags) == {<<k, tags[k]>> : k \in DOMAIN tags}

\* One CSV line: the value column is the list of the sample's numbers.
csv_row(s) ==
    LET v == s.value IN
    [metric_name |-> s.metric, timestamp |-> s.timestamp, metric_type |-> s.metric_type,
     metric_value |-> CASE s.metric_type = "counter" -> <<v.count, v.rate>>
                        [] s.metric_type = "gauge"   -> <<v.value, v.min, v.max>>
                        [] s.metric_type = "rate"    -> <<v.rate, v.passes, v.total>>
                        [] OTHER -> <<v.avg, v.min, v.med, v.max, v.p90, v.p95, v.count>>,
     tags |-> TagPairs(s.tags)]

\* One line of the DuckDB import: fixed columns, 0 where the type has none.
duckdb_row(s) ==
    LET v == s.value
        zero == [metric_name |-> s.metric, metric_type |-> s.metric_type, timestamp_ms |-> s.timestamp,
                 value_avg |-> 0, value_min |-> 0, value_med |-> 0, value_max |-> 0, value_p90 |-> 0,
                 value_p95 |-> 0, value_count |-> 0, value_rate |-> 0, tags |-> TagPairs(s.tags)]
    IN  CASE s.metric_type = "counter" -> [zero EXCEPT !.value_count = v.count, !.value_rate = v.rate]
          [] s.metric_type = "gauge" ->
               [zero EXCEPT !.value_avg = v.value, !.value_min = v.min, !.value_max = v.max]
          [] s.metric_type = "rate" -> [zero EXCEPT !.value_count = v.total, !.value_rate = v.rate]
          [] OTHER -> [zero EXCEPT !.value_avg = v.avg, !.value_min = v.min, !.value_med = v.med,
                                   !.value_max = v.max, !.value_p90 = v.p90, !.value_p95 = v.p95,
                                   !.value_count = v.count]

\* One InfluxDB line: measurement, tags and the fields the type has.
TypeFields(type) ==
    CASE type = "counter" -> {"count", "rate"}
      [] type = "gauge"   -> {"value", "min", "max"}
      [] type = "rate"    -> {"rate", "passes", "total"}
      [] OTHER            -> {"avg", "min", "med", "max", "p90", "p95", "count"}
influx_line(s) ==
    [measurement |-> s.metric, tags |-> TagPairs(s.tags), timestamp |-> s.timestamp,
     fields |-> [f \in TypeFields(s.metric_type) |-> s.value[f]]]

\* Prometheus: a sample is one series, a trend seven; names are sanitized and
\* labels with an empty key or value left out.
prometheus_labels(tags) == {p \in TagPairs(tags) : p[1] # << >> /\ p[2] # << >>}
prom_name(metric) == [i \in DOMAIN metric |-> IF metric[i] \in {".", "-"} THEN "_" ELSE metric[i]]
TimeSeries(s, suffix, field) ==
    [name |-> <<"k6_">> \o prom_name(s.metric) \o suffix, labels |-> prometheus_labels(s.tags),
     value |-> s.value[field], timestamp_ms |-> s.timestamp]
prometheus_series(s) ==
    CASE s.metric_type = "counter" -> {TimeSeries(s, <<"_", "total">>, "count")}
      [] s.metric_type = "gauge"   -> {TimeSeries(s, << >>, "value")}
      [] s.metric_type = "rate"    -> {TimeSeries(s, <<"_", "rate">>, "rate")}
      [] OTHER -> {TimeSeries(s, <<"_", f>>, f) : f \in TypeFields("trend")}

\* Output::add_snapshot; json takes single samples instead (EventStream).
Rows(name, samples) ==
    CASE name = "csv"      -> {csv_row(s) : s \in samples}
      [] name = "duckdb"   -> {duckdb_row(s) : s \in samples}
      [] name = "influxdb" -> {influx_line(s) : s \in samples}
      [] name = "prometheus" -> UNION {prometheus_series(s) : s \in samples}
      [] OTHER -> {}
add_snapshot(plugin, snap, at) ==
    [plugin EXCEPT !.written = Append(@, Rows(plugin.name, snapshot_to_samples(snap, at)))]

\* Output::start; Output::stop flushes a file and clears a remote's buffer.
start(flag) == [name |-> flag.name, arg |-> create_output(flag).arg, written |-> << >>]
stop(plugin) == IF plugin.name \in {"influxdb", "prometheus"} THEN [plugin EXCEPT !.written = << >>] ELSE plugin
=============================================================================
