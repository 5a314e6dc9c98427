------------------------------ MODULE Schedules ------------------------------
(***************************************************************************)
(* The schedules the executors follow: the arrival integral of ArrivalCurve *)
(* (k6-core/src/executor/arrival.rs) and the active-VU count of             *)
(* VuRampSchedule (vu_ramp.rs).  A stage is [duration, target]; time is in  *)
(* ticks, and fractions are kept as numerator and denominator until the one *)
(* floor or rounding the code performs.                                     *)
(***************************************************************************)
LOCAL INSTANCE Integers
LOCAL INSTANCE Sequences

\* The end of stage i.
Ends(stages) ==
    LET end[i \in 0..Len(stages)] == IF i = 0 THEN 0 ELSE end[i - 1] + stages[i].duration IN end

total_duration(stages) == Ends(stages)[Len(stages)]

\* ArrivalCurve::new, VuRampSchedule::new: a segment per stage, each starting
\* where the previous one ended, in time and in value.
timeline(start, stages) ==
    [i \in DOMAIN stages |->
       [begin |-> Ends(stages)[i - 1], end |-> Ends(stages)[i],
        from |-> IF i = 1 THEN start ELSE stages[i - 1].target, to |-> stages[i].target]]

\* ArrivalCurve::constant: one flat stage.
constant_curve(rate, duration) == timeline(rate, <<[duration |-> duration, target |-> rate]>>)

\* Whole arrivals due by `elapsed`: twice the area of the finished segments, plus
\* that of the one in progress; a segment without duration contributes nothing.
expected_arrivals(tl, time_unit, elapsed) ==
    LET whole[i \in 0..Len(tl)] ==
            IF i = 0 THEN 0 ELSE whole[i - 1] + (tl[i].from + tl[i].to) * (tl[i].end - tl[i].begin)
        done == {i \in 0..Len(tl) : i = 0 \/ tl[i].end <= elapsed}
        last == CHOOSE i \in done : \A j \in done : j <= i
    IN  IF last = Len(tl) THEN whole[last] \div (2 * time_unit)
        ELSE LET s == tl[last + 1]
                 dur == s.end - s.begin
                 u == elapsed - s.begin
             IN  (whole[last] * dur + 2 * s.from * u * dur + (s.to - s.from) * u * u)
                   \div (2 * dur * time_unit)

\* The VU count at `elapsed`, rounded half up; zero past all stages.
interpolate(tl, elapsed) ==
    LET in_progress == {i \in DOMAIN tl : tl[i].begin <= elapsed /\ elapsed < tl[i].end}
    IN  IF in_progress = {} THEN 0
        ELSE LET s == tl[CHOOSE i \in in_progress : TRUE]
                 dur == s.end - s.begin
             IN  (2 * (s.from * dur + (s.to - s.from) * (elapsed - s.begin)) + dur) \div (2 * dur)
=============================================================================
