-------------------------- MODULE ArrivalRateProofs --------------------------
(***************************************************************************)
(* Proofs about ArrivalRate, for every pool, every monotone arrival curve  *)
(* and every interleaving.                                                 *)
(***************************************************************************)
EXTENDS ArrivalRate, QueueLemmas, FiniteSetTheorems, TLAPS

\* The curve has a length.
LEMMA TotalNat == Total \in Nat
  BY ArrivalAssumption

\* What is left of a non-empty queue is a queue.
LEMMA TailType ==
  ASSUME NEW S, NEW s \in Seq(S), s # <<>>
  PROVE  Tail(s) \in Seq(S) /\ Head(s) \in S
  OBVIOUS

\* Every variable of the arrival-rate executor stays in its domain: in
\* particular the clock readings never leave the curve.
THEOREM TypeCorrect == Spec => []TypeOK
<1>1. Init => TypeOK
  <2> SUFFICES ASSUME Init PROVE TypeOK
    OBVIOUS
  <2>1. /\ vu \in [VUs -> {"building", "parked", "running", "gone"}]
        /\ booted \subseteq VUs
        /\ runNext \in [VUs -> Nat]
    BY DEF Init
  <2>2. idleChan \in Seq(VUs) /\ idle \in Seq(VUs)
    BY DEF Init
  <2>3. now \in 0..Total /\ elapsed \in 0..Total
    BY TotalNat DEF Init
  <2>4. /\ dispatched \in Nat /\ dropped \in Nat /\ completed \in Nat /\ errored \in Nat
        /\ interrupted \in Nat /\ degraded \in Nat /\ lost \in Nat
    BY DEF Init
  <2> QED
    BY <2>1, <2>2, <2>3, <2>4 DEF Init, TypeOK
<1>2. TypeOK /\ [Next]_vars => TypeOK'
  <2> SUFFICES ASSUME TypeOK, [Next]_vars PROVE TypeOK'
    OBVIOUS
  <2> USE DEF TypeOK
  <2>1. CASE UNCHANGED vars
    BY <2>1 DEF vars
  <2>2. CASE Coordinator
    <3>1. CASE StartupRecv
      BY <3>1 DEF StartupRecv, TakeReport, tallies
    <3>2. CASE StartupEnd
      BY <3>2 DEF StartupEnd, tallies
    <3>3. CASE PollCancel
      BY <3>3 DEF PollCancel, tallies
    <3>4. CASE DrainReport
      BY <3>4 DEF DrainReport, TakeReport, tallies
    <3>5. CASE ReadClock
      BY <3>5 DEF ReadClock, tallies
    <3>6. CASE Dispatch
      <4>1. Tail(idle) \in Seq(VUs) /\ Head(idle) \in VUs
        BY <3>6, TailType DEF Dispatch
      <4>2. PICK h \in VUs : h = Head(idle)
        BY <4>1
      <4>3. runNext' \in [VUs -> Nat]
        <5>1. runNext' = [runNext EXCEPT ![h] = @ + 1] \/ runNext' = runNext
          BY <3>6, <4>2 DEF Dispatch
        <5> QED
          BY <5>1
      <4>4. idle' \in Seq(VUs)
        BY <3>6, <4>1 DEF Dispatch
      <4>5. dispatched' \in Nat /\ dropped' \in Nat
        BY <3>6 DEF Dispatch
      <4> QED
        BY <3>6, <4>3, <4>4, <4>5 DEF Dispatch, tallies
    <3>7. CASE DropArrival
      BY <3>7 DEF DropArrival, tallies
    <3>8. CASE EndPass
      BY <3>8 DEF EndPass, tallies
    <3>9. CASE DropSenders
      BY <3>9 DEF DropSenders, tallies
    <3>10. CASE CoordReturn
      BY <3>10 DEF CoordReturn, tallies
    <3> QED
      BY <2>2, <3>1, <3>2, <3>3, <3>4, <3>5, <3>6, <3>7, <3>8, <3>9, <3>10 DEF Coordinator
  <2>3. CASE Tick
    BY <2>3, TotalNat DEF Tick, tallies
  <2>4. ASSUME NEW v \in VUs, VuStep(v) PROVE TypeOK'
    <3> Append(idleChan, v) \in Seq(VUs)
      OBVIOUS
    <3>1. CASE FirstIdle(v)
      BY <3>1 DEF FirstIdle, ReportIdle, tallies, coordVars
    <3>2. CASE BuildFails(v)
      BY <3>2 DEF BuildFails, tallies, coordVars
    <3>3. CASE Receive(v)
      BY <3>3 DEF Receive, tallies, coordVars
    <3>4. CASE Stop(v)
      BY <3>4 DEF Stop, tallies, coordVars
    <3>5. CASE EndIteration(v)
      <4>1. completed' \in Nat /\ errored' \in Nat /\ interrupted' \in Nat
        BY <3>5 DEF EndIteration, TallyOutcome
      <4>2. /\ vu' \in [VUs -> {"building", "parked", "running", "gone"}]
            /\ idleChan' \in Seq(VUs)
        BY <3>5 DEF EndIteration, ReportIdle
      <4> QED
        BY <3>5, <4>1, <4>2 DEF EndIteration, coordVars
    <3>6. CASE ForceUnwind(v)
      BY <3>6 DEF ForceUnwind, tallies, coordVars
    <3>7. CASE Panic(v)
      BY <3>7 DEF Panic, tallies, coordVars
    <3> QED
      BY <2>4, <3>1, <3>2, <3>3, <3>4, <3>5, <3>6, <3>7 DEF VuStep
  <2>5. CASE Cancel \/ Abort \/ JoinCoordinator \/ WatchdogFires \/ JoinLoops \/ Finished
    BY <2>5 DEF Cancel, Abort, JoinCoordinator, WatchdogFires, JoinLoops, Finished,
                tallies, coordVars, vars
  <2> QED
    BY <2>1, <2>2, <2>3, <2>4, <2>5 DEF Next
<1> QED
  BY <1>1, <1>2, PTL DEF Spec

-----------------------------------------------------------------------------
(* The idle queue.                                                         *)

\* IdleIffParked in terms of membership.
QueuesDisjoint == \A v \in VUs : ~(In(idleChan, v) /\ In(idle, v))

ParkedInv(v) ==
  /\ In(idleChan, v) \/ In(idle, v) =>
        runNext[v] = 0 /\ (vu[v] = "parked" \/ (vu[v] = "gone" /\ ~sendersOpen))
  /\ runNext[v] > 0 => vu[v] = "parked" /\ runNext[v] = 1

Membership == /\ Distinct(idleChan) /\ Distinct(idle)
              /\ QueuesDisjoint /\ \A v \in VUs : ParkedInv(v)

\* IdleIffParked says the same about indices.
LEMMA IdleByMembership == TypeOK => (IdleIffParked <=> Membership)
<1> SUFFICES ASSUME TypeOK PROVE IdleIffParked <=> Membership
  OBVIOUS
<1>1. /\ idleChan \in Seq(VUs) /\ idle \in Seq(VUs)
      /\ \A i \in 1..Len(idleChan) : idleChan[i] \in VUs
  BY DEF TypeOK
<1>2. QueuesDisjoint <=>
        \A i \in 1..Len(idleChan), j \in 1..Len(idle) : idleChan[i] # idle[j]
  BY <1>1 DEF QueuesDisjoint, In
<1>3. \A v \in VUs : Queued(v) <=> In(idleChan, v) \/ In(idle, v)
  BY DEF Queued, In
<1> QED
  BY <1>2, <1>3 DEF IdleIffParked, Membership, ParkedInv, Distinct, Injective

\* Before the first report both queues are empty.
LEMMA MembershipInit == Init => Membership
  BY DEF Init, Membership, Distinct, QueuesDisjoint, ParkedInv, In

\* Every step keeps the queues distinct and their VUs parked.
LEMMA MembershipStep == TypeOK /\ Membership /\ [Next]_vars => Membership'
<1> SUFFICES ASSUME TypeOK, Membership, [Next]_vars PROVE Membership'
  OBVIOUS
<1> USE DEF Membership
<1>t. /\ idleChan \in Seq(VUs) /\ idle \in Seq(VUs) /\ runNext \in [VUs -> Nat]
      /\ vu \in [VUs -> {"building", "parked", "running", "gone"}]
  BY DEF TypeOK
<1>1. CASE UNCHANGED <<vu, idleChan, idle, runNext>> /\ (~sendersOpen => ~sendersOpen')
  BY <1>1 DEF QueuesDisjoint, ParkedInv
<1>2. CASE TakeReport /\ UNCHANGED <<vu, runNext, sendersOpen>>
  <2>1. Head(idleChan) \in VUs /\ In(idleChan, Head(idleChan)) /\ ~In(idle, Head(idleChan))
    BY <1>t, <1>2, TailFacts DEF TakeReport, QueuesDisjoint
  <2>2. /\ Distinct(idleChan')
        /\ \A v \in VUs : In(idleChan', v) <=> In(idleChan, v) /\ v # Head(idleChan)
    BY <1>t, <1>2, TailFacts DEF TakeReport
  <2>3. /\ Distinct(idle')
        /\ \A v \in VUs : In(idle', v) <=> In(idle, v) \/ v = Head(idleChan)
    BY <1>t, <1>2, <2>1, AppendFacts DEF TakeReport
  <2> QED
    BY <1>2, <2>1, <2>2, <2>3 DEF QueuesDisjoint, ParkedInv
<1>3. CASE Dispatch
  <2>1. PICK h \in VUs : h = Head(idle)
    BY <1>t, <1>3, TailFacts DEF Dispatch
  <2>2. /\ In(idle, h) /\ Distinct(idle')
        /\ \A v \in VUs : In(idle', v) <=> In(idle, v) /\ v # h
    BY <1>t, <1>3, <2>1, TailFacts DEF Dispatch
  <2>3. ~In(idleChan, h) /\ ~In(idle', h)
    BY <2>2 DEF QueuesDisjoint
  <2>4. UNCHANGED <<vu, idleChan, sendersOpen>>
    BY <1>3 DEF Dispatch
  <2>5. \/ runNext' = [runNext EXCEPT ![h] = @ + 1] /\ vu[h] # "gone"
        \/ runNext' = runNext
    BY <1>3, <2>1 DEF Dispatch
  <2>6. runNext[h] = 0 /\ (vu[h] # "gone" => vu[h] = "parked")
    BY <2>2 DEF ParkedInv
  <2>7. \A v \in VUs : ParkedInv(v)'
    BY <1>t, <2>2, <2>3, <2>4, <2>5, <2>6 DEF ParkedInv
  <2> QED
    BY <2>2, <2>4, <2>7 DEF QueuesDisjoint
<1>4. ASSUME NEW v \in VUs, VuStep(v) PROVE Membership'
  <2> DEFINE Busy == vu[v] \in {"building", "running"}
  <2>1. Busy => ~In(idleChan, v) /\ ~In(idle, v) /\ runNext[v] = 0
    BY <1>t DEF ParkedInv
  <2>2. CASE Busy /\ ReportIdle(v) /\ UNCHANGED <<idle, runNext, sendersOpen>>
    <3>1. CASE coord # "done"
      <4>1. idleChan' = Append(idleChan, v) /\ vu' = [vu EXCEPT ![v] = "parked"]
        BY <2>2, <3>1 DEF ReportIdle
      <4>2. /\ Distinct(idleChan')
            /\ \A w \in VUs : In(idleChan', w) <=> In(idleChan, w) \/ w = v
        BY <1>t, <2>1, <2>2, <4>1, AppendFacts
      <4> QED
        BY <1>t, <2>1, <2>2, <4>1, <4>2 DEF QueuesDisjoint, ParkedInv
    <3>2. CASE coord = "done"
      BY <1>t, <2>1, <2>2, <3>2 DEF ReportIdle, QueuesDisjoint, ParkedInv
    <3> QED
      BY <3>1, <3>2
  <2>3. CASE Busy /\ vu' = [vu EXCEPT ![v] = "gone"]
             /\ UNCHANGED <<idleChan, idle, runNext, sendersOpen>>
    BY <1>t, <2>1, <2>3 DEF QueuesDisjoint, ParkedInv
  <2>4. CASE Receive(v)
    <3>1. vu[v] = "parked" /\ runNext[v] = 1 /\ ~In(idleChan, v) /\ ~In(idle, v)
      BY <1>t, <2>4 DEF Receive, ParkedInv
    <3>2. /\ runNext' = [runNext EXCEPT ![v] = @ - 1] /\ vu' = [vu EXCEPT ![v] = "running"]
          /\ UNCHANGED <<idleChan, idle, sendersOpen>>
      BY <2>4 DEF Receive, coordVars
    <3> QED
      BY <1>t, <3>1, <3>2 DEF QueuesDisjoint, ParkedInv
  <2>5. CASE Stop(v)
    BY <1>t, <2>5 DEF Stop, QueuesDisjoint, ParkedInv, coordVars
  <2> QED
    BY <1>4, <2>2, <2>3, <2>4, <2>5
       DEF VuStep, FirstIdle, BuildFails, EndIteration, ForceUnwind, Panic, coordVars
<1> QED
  BY <1>1, <1>2, <1>3, <1>4
     DEF Next, Coordinator, StartupRecv, StartupEnd, PollCancel, DrainReport, ReadClock,
         DropArrival, EndPass, DropSenders, CoordReturn, Tick, Cancel, Abort,
         JoinCoordinator, WatchdogFires, JoinLoops, Finished, coordVars, vars

\* Spec => []IdleIffParked: no VU is queued twice, dispatched while it is busy, or
\* dispatched twice, whatever the interleaving of coordinator, VUs and tokens.
THEOREM IdleQueueSound == Spec => []IdleIffParked
  BY TypeCorrect, MembershipInit, MembershipStep, IdleByMembership, PTL DEF Spec

-----------------------------------------------------------------------------
(* The lanes.                                                              *)

\* Only VUs are in flight.
LEMMA InFlightFinite ==
  /\ IsFiniteSet(InFlight) /\ Cardinality(InFlight) \in Nat
  /\ IsFiniteSet(InFlight') /\ Cardinality(InFlight') \in Nat
  /\ Cardinality(InFlight') <= Cardinality(VUs) /\ Cardinality(VUs) \in Nat
<1>1. InFlight \subseteq VUs /\ InFlight' \subseteq VUs
  BY DEF InFlight
<1>2. IsFiniteSet(VUs)
  BY ArrivalAssumption
<1> QED
  BY <1>1, <1>2, FS_Subset, FS_CardinalityType

\* An arrival that is due belongs to the curve.
LEMMA DueWithinCurve == TypeOK /\ Due => dispatched < Expected[Total]
  BY ArrivalAssumption DEF TypeOK, Due

\* Every step of the executor is a step of the abstract lanes, or changes none.
LEMMA LaneStep ==
  ASSUME TypeOK, Membership, [Next]_vars
  PROVE  [Lanes!Next]_(Lanes!vars)
<1> USE DEF Lanes!Next, Lanes!vars, Lanes!Start, Lanes!Drop, Lanes!Finish
<1>t. /\ runNext \in [VUs -> Nat]
      /\ vu \in [VUs -> {"building", "parked", "running", "gone"}]
      /\ \A v \in VUs : ParkedInv(v)
  BY DEF TypeOK, Membership
<1> DEFINE sums == <<dispatched, dropped, completed, errored, interrupted, lost>>
<1>1. CASE UNCHANGED <<vu, runNext>> /\ UNCHANGED sums
  BY <1>1 DEF InFlight
<1>2. CASE DropArrival
  <2>1. Cardinality(InFlight)' = Cardinality(InFlight)
    BY <1>2 DEF DropArrival, InFlight
  <2> QED
    BY <1>2, <2>1, DueWithinCurve DEF DropArrival, tallies
<1>3. CASE Dispatch
  <2>1. PICK h \in VUs : h = Head(idle) /\ In(idle, h)
    BY <1>3, TailFacts DEF Dispatch, TypeOK, Membership
  <2>2. CASE vu[h] = "gone"
    <3>1. Cardinality(InFlight)' = Cardinality(InFlight)
      BY <1>3, <2>1, <2>2 DEF Dispatch, InFlight
    <3> QED
      BY <1>3, <2>1, <2>2, <3>1, DueWithinCurve DEF Dispatch, tallies
  <2>3. CASE vu[h] # "gone"
    <3>1. vu[h] = "parked" /\ runNext[h] = 0
      BY <1>t, <2>1, <2>3 DEF ParkedInv
    <3>2. runNext' = [runNext EXCEPT ![h] = @ + 1] /\ vu' = vu
      BY <1>3, <2>1, <2>3 DEF Dispatch
    <3>3. InFlight' = InFlight \cup {h} /\ h \notin InFlight
      BY <1>t, <3>1, <3>2 DEF InFlight
    <3>4. /\ Cardinality(InFlight)' = Cardinality(InFlight) + 1
          /\ Cardinality(InFlight) < Cardinality(VUs)
      BY <3>3, InFlightFinite, FS_AddElement
    <3>5. Lanes!Start
      BY <1>3, <2>1, <2>3, <3>4, DueWithinCurve DEF Dispatch, tallies
    <3> QED
      BY <3>5
  <2> QED
    BY <2>2, <2>3
<1>4. ASSUME NEW v \in VUs, VuStep(v) PROVE [Lanes!Next]_(Lanes!vars)
  <2>1. vu[v] = "running" => runNext[v] = 0 /\ v \in InFlight
    BY <1>t DEF ParkedInv, InFlight
  <2>2. CASE FirstIdle(v) \/ BuildFails(v) \/ Stop(v)
    <3>1. /\ vu[v] # "running" /\ runNext[v] = 0 /\ runNext' = runNext
          /\ vu' = [vu EXCEPT ![v] = "parked"] \/ vu' = [vu EXCEPT ![v] = "gone"]
      BY <1>t, <2>2 DEF FirstIdle, ReportIdle, BuildFails, Stop, ParkedInv
    <3>2. InFlight' = InFlight
      BY <1>t, <3>1 DEF InFlight
    <3> QED
      BY <2>2, <3>2 DEF FirstIdle, BuildFails, Stop, coordVars, tallies
  <2>3. CASE Receive(v)
    <3>1. /\ vu[v] = "parked" /\ runNext[v] > 0
          /\ runNext' = [runNext EXCEPT ![v] = @ - 1] /\ vu' = [vu EXCEPT ![v] = "running"]
      BY <2>3 DEF Receive
    <3>2. InFlight' = InFlight
      BY <1>t, <3>1 DEF InFlight
    <3> QED
      BY <2>3, <3>2 DEF Receive, coordVars, tallies
  <2>4. CASE EndIteration(v) \/ ForceUnwind(v) \/ Panic(v)
    <3>1. /\ vu[v] = "running" /\ runNext' = runNext
          /\ vu' = [vu EXCEPT ![v] = "parked"] \/ vu' = [vu EXCEPT ![v] = "gone"]
      BY <2>4 DEF EndIteration, ReportIdle, ForceUnwind, Panic
    <3>2. InFlight' = InFlight \ {v}
      BY <1>t, <2>1, <3>1 DEF InFlight
    <3>3. /\ Cardinality(InFlight)' = Cardinality(InFlight) - 1
          /\ Cardinality(InFlight) > 0
      <4>1. Cardinality(InFlight)' = Cardinality(InFlight) - 1
        BY <2>1, <3>1, <3>2, InFlightFinite, FS_RemoveElement
      <4> QED
        BY <4>1, InFlightFinite
    <3>4. Lanes!Finish
      BY <2>4, <3>3 DEF EndIteration, TallyOutcome, ForceUnwind, Panic, coordVars
    <3> QED
      BY <3>4
  <2> QED
    BY <1>4, <2>2, <2>3, <2>4 DEF VuStep
<1> QED
  BY <1>1, <1>2, <1>3, <1>4
     DEF Next, Coordinator, TakeReport, StartupRecv, StartupEnd, PollCancel, DrainReport,
         ReadClock, EndPass, DropSenders, CoordReturn, Tick, Cancel, Abort,
         JoinCoordinator, WatchdogFires, JoinLoops, Finished, coordVars, tallies, vars

\* The arrival-rate executor implements the abstract lanes.
THEOREM RefinesLanes == Spec => ImplementsLanes
<1>1. Init => Lanes!Init
  <2>1. Init => InFlight = {}
    BY DEF Init, InFlight
  <2> QED
    BY <2>1, FS_EmptySet DEF Init, Lanes!Init
<1>2. TypeOK /\ Membership /\ [Next]_vars => [Lanes!Next]_(Lanes!vars)
  BY LaneStep
<1> QED
  BY <1>1, <1>2, TypeCorrect, MembershipInit, MembershipStep, PTL DEF Spec, ImplementsLanes, Lanes!Spec

\* Conservation: every arrival the coordinator consumed is in exactly one lane
\* of the summary or still occupies a VU, through dispatch, shutdown, force
\* unwind and panics.
THEOREM LanesSound == Spec => []LanesConserved
<1>1. Init => LanesConserved
  <2>1. Init => InFlight = {}
    BY DEF Init, InFlight
  <2> QED
    BY <2>1, FS_EmptySet DEF Init, LanesConserved
<1>2. TypeOK /\ Membership /\ LanesConserved /\ [Next]_vars => LanesConserved'
  <2> SUFFICES ASSUME TypeOK, Membership, LanesConserved, [Next]_vars
               PROVE  LanesConserved'
    OBVIOUS
  <2>1. [Lanes!Next]_(Lanes!vars)
    BY LaneStep
  <2>2. /\ dispatched \in Nat /\ dropped \in Nat /\ completed \in Nat /\ errored \in Nat
        /\ interrupted \in Nat /\ lost \in Nat
        /\ Cardinality(InFlight) \in Nat
    BY InFlightFinite DEF TypeOK
  <2>3. CASE UNCHANGED Lanes!vars
    BY <2>3 DEF LanesConserved, Lanes!vars
  <2>4. CASE Lanes!Start
    BY <2>2, <2>4 DEF LanesConserved, Lanes!Start
  <2>5. CASE Lanes!Drop
    BY <2>2, <2>5 DEF LanesConserved, Lanes!Drop
  <2>6. CASE Lanes!Finish
    BY <2>2, <2>6 DEF LanesConserved, Lanes!Finish
  <2> QED
    BY <2>1, <2>3, <2>4, <2>5, <2>6 DEF Lanes!Next
<1> QED
  BY <1>1, <1>2, TypeCorrect, MembershipInit, MembershipStep, PTL DEF Spec

-----------------------------------------------------------------------------
(* The summary.                                                            *)

\* The coordinator consumes no more arrivals than the curve schedules, and all
\* of them unless it was cancelled or found no VU ready.
CurveInv ==
  /\ dispatched <= Expected[Total]
  /\ coord \in {"closing", "returning", "done"} /\ started /\ ~cancel
        => dispatched = Expected[Total]

\* The joins are ordered: coordinator, then every VU.
JoinInv ==
  /\ main # "joinCoordinator" => coord = "done"
  /\ main = "finished" => \A v \in VUs : vu[v] = "gone"

\* Every step keeps CurveInv: the last pass reads the clock once.
LEMMA CurveStep == TypeOK /\ CurveInv /\ [Next]_vars => CurveInv'
<1> SUFFICES ASSUME TypeOK, CurveInv, [Next]_vars PROVE CurveInv'
  OBVIOUS
<1>t. /\ dispatched \in Nat /\ elapsed \in 0..Total /\ Total \in Nat
      /\ Expected[elapsed] \in Nat /\ Expected[Total] \in Nat
  BY ArrivalAssumption DEF TypeOK
<1> USE DEF CurveInv
<1>1. CASE UNCHANGED <<dispatched, coord, started>> /\ (cancel => cancel')
  BY <1>1
<1>2. CASE Dispatch \/ DropArrival
  <2>1. /\ coord = "fire" /\ coord' = coord /\ dispatched' = dispatched + 1
        /\ dispatched < Expected[Total]
    BY <1>2, DueWithinCurve DEF Dispatch, DropArrival
  <2> QED
    BY <1>t, <2>1
<1>3. CASE EndPass
  <2>1. elapsed >= Total => dispatched = Expected[Total]
    BY <1>t, <1>3 DEF EndPass, Due
  <2> QED
    BY <1>3, <2>1 DEF EndPass
<1>4. CASE StartupEnd
  <2>1. started' => coord' = "top"
    BY <1>4 DEF StartupEnd
  <2>2. dispatched' = dispatched
    BY <1>4 DEF StartupEnd
  <2> QED
    BY <2>1, <2>2
<1>5. CASE StartupRecv \/ PollCancel \/ DrainReport \/ ReadClock
           \/ DropSenders \/ CoordReturn
  BY <1>5 DEF StartupRecv, PollCancel, DrainReport, ReadClock, DropSenders,
              CoordReturn
<1>6. ASSUME NEW v \in VUs, VuStep(v) PROVE CurveInv'
  BY <1>1, <1>6 DEF VuStep, FirstIdle, BuildFails, Receive, Stop, EndIteration, ForceUnwind,
              Panic, coordVars
<1> QED
  BY <1>1, <1>2, <1>3, <1>4, <1>5, <1>6
     DEF Next, Coordinator, Tick, Cancel, Abort, JoinCoordinator, WatchdogFires, JoinLoops,
         Finished, coordVars, vars

\* Every step keeps JoinInv: nothing revives a VU or the coordinator.
LEMMA JoinStep == TypeOK /\ JoinInv /\ [Next]_vars => JoinInv'
<1> SUFFICES ASSUME TypeOK, JoinInv, [Next]_vars PROVE JoinInv'
  OBVIOUS
<1> USE DEF JoinInv
<1>1. CASE UNCHANGED <<main, vu>> /\ (coord = "done" => coord' = "done")
  BY <1>1
<1>2. CASE JoinCoordinator \/ JoinLoops
  BY <1>2 DEF JoinCoordinator, JoinLoops, coordVars
<1>3. ASSUME NEW v \in VUs, VuStep(v) PROVE JoinInv'
  <2>1. vu[v] # "gone" /\ main' = main /\ coord' = coord
    BY <1>3 DEF VuStep, FirstIdle, BuildFails, Receive, Stop, EndIteration, ForceUnwind,
                Panic, coordVars
  <2> QED
    BY <2>1
<1> QED
  BY <1>1, <1>2, <1>3
     DEF Next, Coordinator, StartupRecv, StartupEnd, PollCancel, DrainReport, ReadClock,
         Dispatch, DropArrival, EndPass, DropSenders, CoordReturn, Tick, Cancel, Abort,
         WatchdogFires, Finished, coordVars, vars

\* The RunSummary of a run that was not cancelled and found a VU ready accounts
\* for every arrival of the curve.
THEOREM SummarySound == Spec => []SummaryComplete
<1>1. Init => CurveInv /\ JoinInv
  BY ArrivalAssumption DEF Init, CurveInv, JoinInv
<1>2. TypeOK /\ Membership /\ LanesConserved /\ CurveInv /\ JoinInv => SummaryComplete
  <2> SUFFICES ASSUME TypeOK, Membership, LanesConserved, CurveInv, JoinInv,
                      main = "finished", started, ~cancel
               PROVE  completed + dropped + errored + interrupted + lost = Expected[Total]
    BY DEF SummaryComplete
  <2>1. dispatched = Expected[Total]
    BY DEF JoinInv, CurveInv
  <2>2. InFlight = {}
    BY DEF JoinInv, Membership, ParkedInv, InFlight
  <2>3. Cardinality(InFlight) = 0
    BY <2>2, FS_EmptySet
  <2> QED
    BY <2>1, <2>3 DEF LanesConserved, TypeOK
<1> QED
  BY <1>1, <1>2, TypeCorrect, MembershipInit, MembershipStep, CurveStep, JoinStep,
     LanesSound, PTL DEF Spec
=============================================================================
