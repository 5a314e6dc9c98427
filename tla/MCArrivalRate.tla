---------------------------- MODULE MCArrivalRate ----------------------------
(* Instances of ArrivalRate for TLC. *)
EXTENDS ArrivalRate, Schedules

\* A ramp from one to two iterations per tick: one arrival is due at tick 1 and
\* two more at tick 2, so that a pass finds several arrivals due, and there are
\* more of them than the two VUs can take.
MCStages == <<[duration |-> 2, target |-> 2]>>
MCTotal == total_duration(MCStages)
MCExpected == [t \in 0..MCTotal |-> expected_arrivals(timeline(1, MCStages), 1, t)]

\* What the dispatcher relies on: a curve starts at zero, never falls, and keeps
\* its value after the last stage (also with an empty stage and a ramp to zero).
ASSUME CurvesMonotone ==
    \A start, a, b \in 0..3, d, e \in 0..2, unit \in 1..2 :
        LET tl == timeline(start, <<[duration |-> d, target |-> a], [duration |-> e, target |-> b]>>)
        IN  /\ expected_arrivals(tl, unit, 0) = 0
            /\ \A t \in 0..4 : expected_arrivals(tl, unit, t) <= expected_arrivals(tl, unit, t + 1)
            /\ expected_arrivals(tl, unit, 5) = expected_arrivals(tl, unit, d + e)
=============================================================================
