----------------------------- MODULE Thresholds -----------------------------
(***************************************************************************)
(* Threshold evaluation against a snapshot (k6-core/src/thresholds.rs).    *)
(* A threshold is a record: the metric it names (a raw selector), its      *)
(* condition, abort_on_fail and delay_abort_eval.  A condition that does   *)
(* not parse has stat "none".  Numbers are fractions <<n, d>> with d > 0.  *)
(***************************************************************************)
EXTENDS Metrics

CONSTANT Numbers   \* number tokens -> the fraction they denote

Int2Frac(n) == <<n, 1>>

compare(a, op, b) ==
    CASE op = "<"  -> a[1] * b[2] < b[1] * a[2]
      [] op = "<=" -> a[1] * b[2] <= b[1] * a[2]
      [] op = ">"  -> a[1] * b[2] > b[1] * a[2]
      [] op = ">=" -> a[1] * b[2] >= b[1] * a[2]
      [] op = "==" -> a[1] * b[2] = b[1] * a[2]
      [] OTHER     -> a[1] * b[2] # b[1] * a[2]

\* The first operator of parse_op's list that occurs in the text of a
\* condition; the longer ones come first.
OpPatterns == <<"===", "<=", ">=", "!=", "==", "<", ">">>
parse_op(text) ==
    LET found == {i \in DOMAIN OpPatterns : At(text, OpPatterns[i]) # {}} IN
    IF found = {} THEN [op |-> "none", left |-> << >>, right |-> << >>]
    ELSE LET p == OpPatterns[Min(found)]
             i == First(text, p)
         IN  [op |-> IF p = "===" THEN "==" ELSE p, left |-> SubSeq(text, 1, i - 1),
              right |-> SubSeq(text, i + 1, Len(text))]

\* A percentile is written p(<number>); its number here is one token.
Stats == {"avg", "min", "max", "med", "count", "rate", "value"}
parse_stat(s) ==
    LET t == Trim(s) IN
    IF Len(t) = 1 /\ t[1] \in Stats THEN [stat |-> t[1], p |-> 0]
    ELSE IF Len(t) = 3 /\ t[1] = "p(" /\ t[2] \in DOMAIN Numbers /\ t[3] = ")"
    THEN [stat |-> "p", p |-> Numbers[t[2]][1]]
    ELSE [stat |-> "none", p |-> 0]

parse_condition(text) ==
    LET o == parse_op(Trim(text))
        s == parse_stat(o.left)
        v == Trim(o.right)
    IN  IF o.op = "none" \/ s.stat = "none" \/ Len(v) # 1 \/ v[1] \notin DOMAIN Numbers
        THEN [stat |-> "none", p |-> 0, op |-> "none", value |-> <<0, 1>>]
        ELSE [stat |-> s.stat, p |-> s.p, op |-> o.op, value |-> Numbers[v[1]]]

-----------------------------------------------------------------------------
(* Resolving a statistic: the merge of every snapshot entry whose tags are *)
(* a superset of the threshold's.                                          *)

Subset(f, metric) == {k \in DOMAIN f : stored_is_subset_match(metric, k)}

merged_trend_for_threshold(metric, snap) == MergeTrends(snap.trends, Subset(snap.trends, metric))

merged_counter_for_threshold(metric, snap) ==
    SumFunctionOnSet(snap.counters, Subset(snap.counters, metric))

merged_rate_for_threshold(metric, snap) ==
    LET S == Subset(snap.rates, metric) IN
    [passes |-> SumFunctionOnSet(Field(snap.rates, "passes"), S),
     total  |-> SumFunctionOnSet(Field(snap.rates, "total"), S)]

PerSecond(n, snap) == Ratio(n, snap.secs)

TrendStat(t, stat, p) ==
    CASE stat = "min"   -> Int2Frac(IF t.count = 0 THEN 0 ELSE t.min)
      [] stat = "max"   -> Int2Frac(IF t.count = 0 THEN 0 ELSE t.max)
      [] stat = "med"   -> Int2Frac(Quantile(t.histogram, 50))
      [] stat = "p"     -> Int2Frac(Quantile(t.histogram, p))
      [] stat = "count" -> Int2Frac(t.count)
      [] OTHER          -> Ratio(t.sum, t.count)
CounterStat(n, stat, snap) == IF stat = "rate" THEN PerSecond(n, snap) ELSE Int2Frac(n)
RateStat(r, stat) == IF stat = "count" THEN Int2Frac(r.total) ELSE Ratio(r.passes, r.total)
GaugeStat(g, stat) == Int2Frac(CASE stat = "min" -> g.min [] stat = "max" -> g.max [] OTHER -> g.value)

\* The first entry whose name matches, for keys that do not parse.
Named(f, metric) == {k \in DOMAIN f : metric_names_match(metric, k)}
Pick1(S) == CHOOSE k \in S : TRUE

resolve_stat(metric, stat, p, snap) ==
    IF Subset(snap.trends, metric) # {} THEN TrendStat(merged_trend_for_threshold(metric, snap), stat, p)
    ELSE IF Subset(snap.counters, metric) # {}
    THEN CounterStat(merged_counter_for_threshold(metric, snap), stat, snap)
    ELSE IF Subset(snap.rates, metric) # {} THEN RateStat(merged_rate_for_threshold(metric, snap), stat)
    ELSE IF Named(snap.trends, metric) # {}
    THEN TrendStat(snap.trends[Pick1(Named(snap.trends, metric))], stat, p)
    ELSE IF Named(snap.counters, metric) # {}
    THEN CounterStat(snap.counters[Pick1(Named(snap.counters, metric))], stat, snap)
    ELSE IF Named(snap.rates, metric) # {} THEN RateStat(snap.rates[Pick1(Named(snap.rates, metric))], stat)
    ELSE IF Named(snap.gauges, metric) # {}
    THEN GaugeStat(snap.gauges[Pick1(Named(snap.gauges, metric))], stat)
    ELSE <<0, 1>>

\* evaluate_one: an expression that does not parse has failed.
evaluate_one(t, snap) ==
    LET holds(c) == /\ c.stat # "none"
                    /\ compare(resolve_stat(t.metric, c.stat, c.p, snap), c.op, c.value)
    IN  holds(parse_condition(t.expression))

\* evaluate, as the thresholds whose result is a failure.
evaluate(ts, snap) == {t \in ts : ~evaluate_one(t, snap)}
all_passed(ts, snap) == evaluate(ts, snap) = {}

-----------------------------------------------------------------------------
(* One tick of the periodic evaluator.                                     *)

NeverFailed == [last_failed |-> FALSE, failing_since |-> -1]   \* None

\* Mutant: a passing evaluation does not restart the window.
UpdateStateSticky(s, fails, now) ==
    [last_failed |-> fails,
     failing_since |-> IF fails /\ s.failing_since = -1 THEN now ELSE s.failing_since]

UpdateState(s, fails, now) ==
    [last_failed |-> fails,
     failing_since |-> IF ~fails THEN -1
                       ELSE IF s.failing_since = -1 THEN now ELSE s.failing_since]

\* Phase 1 of update_states: every state, from the thresholds that one
\* snapshot fails.
update_states(ts, failing, states, now) ==
    [t \in ts |-> UpdateState(states[t], t \in failing, now)]

\* Phase 2: the decision, over the updated states.
TickAborts(ts, states, now) ==
    \E t \in ts : /\ t.abort_on_fail
                  /\ states[t].failing_since # -1
                  /\ now - states[t].failing_since >= t.delay_abort_eval
=============================================================================
