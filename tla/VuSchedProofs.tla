---------------------------- MODULE VuSchedProofs ----------------------------
(***************************************************************************)
(* Proofs about VuSched, for every script, every number of iterations and  *)
(* async requests, and every order of the stop signals.                    *)
(***************************************************************************)
EXTENDS VuSched, FiniteSetTheorems, TLAPS

\* The outcome cell is empty except at a boundary after the first resume.
CellInv == /\ ~booted => pc = "boundary" /\ result = "none"
           /\ pc # "boundary" => result = "none"

\* Where the coroutine is in its drain loop, or parked in it.
Looping == pc \in {"drain", "check", "awaitPending", "publish"}

\* Only a resume with RunNext gets past the top level of the script.
SigInv == /\ Looping => task # "top"
          /\ (pc \notin {"boundary", "begin", "gone"} /\ task # "top") => HasIteration

\* The domains OneLane rests on.
LaneTypes ==
  /\ started \in Nat /\ completed \in Nat /\ errored \in Nat /\ interrupted \in Nat
  /\ lost \in Nat /\ spurious \in Nat
  /\ result \in {"none", "Completed", "Errored", "Interrupted"}
  /\ sig \in {"RunNext", "Stop"} /\ task \in {"top", "exec", "job"}

LaneInv == LaneTypes /\ CellInv /\ SigInv /\ OneLane

\* The steps between two boundaries that count nothing and start no task.
Quiet == JsStep \/ JsInterrupt \/ LeaveDrain \/ YieldPending \/ InputOutput
         \/ SignalStop \/ HardFires

\* Those steps neither enter nor leave an iteration.
LEMMA QuietStep ==
  ASSUME Quiet
  PROVE  /\ UNCHANGED <<started, completed, errored, interrupted, lost, spurious, result>>
         /\ UNCHANGED <<booted, sig, task>>
         /\ pc' = pc \/ (pc \notin {"boundary", "begin", "gone"} /\ pc' \notin {"boundary", "gone"})
         /\ Looping' => Looping \/ task # "top"
  BY DEF Quiet, Looping, JsStep, Register, YieldOne, YieldAll, TopLevelEnds, ExecReturns,
         ExecReturnsPromise, JobsSettle, JobsEnd, JsInterrupt, LeaveDrain, YieldPending,
         InputOutput, ServeOne, ServeBatch, AsyncCompletes, Selecting, SignalStop, HardFires,
         js, lanes, faults

\* Every step keeps the lanes exact.
LEMMA LaneStep == LaneInv /\ [Next]_vars => LaneInv'
<1> SUFFICES ASSUME LaneInv, [Next]_vars PROVE LaneInv'
  OBVIOUS
<1> USE DEF LaneInv, LaneTypes, CellInv, SigInv, OneLane, InIteration, HasIteration
<1>1. CASE UNCHANGED vars
  BY <1>1 DEF vars, js, lanes, faults, Looping
<1>2. CASE Quiet
  <2>1. CASE pc' = pc
    <3>1. Looping' = Looping
      BY <2>1 DEF Looping
    <3> QED
      BY <1>2, <2>1, <3>1, QuietStep
  <2>2. CASE pc' # pc
    <3>1. /\ UNCHANGED <<started, completed, errored, interrupted, lost, spurious, result>>
          /\ UNCHANGED <<booted, sig, task>>
          /\ pc \notin {"boundary", "begin", "gone"} /\ pc' \notin {"boundary", "gone"}
          /\ Looping' => task' # "top"
      BY <1>2, <2>2, QuietStep
    <3> QED
      BY <3>1
  <2> QED
    BY <2>1, <2>2
<1>3. CASE RunNext \/ StopVu
  <2>1. /\ pc = "boundary" /\ lost' = lost /\ spurious' = spurious /\ booted' = TRUE /\ Tally
        /\ \/ pc' = "js" /\ task' = "top"
           \/ pc' = "begin" /\ task' = task
        /\ \/ sig' = "RunNext" /\ started' = started + 1
           \/ sig' = "Stop" /\ started' = started
    BY <1>3 DEF RunNext, StopVu, ResumeVu, faults
  <2>l. ~Looping'
    BY <2>1 DEF Looping
  <2>2. CASE result = "none"
    BY <2>1, <2>2, <2>l DEF Tally
  <2>3. CASE result = "Completed"
    BY <2>1, <2>3, <2>l DEF Tally
  <2>4. CASE result = "Errored"
    BY <2>1, <2>4, <2>l DEF Tally
  <2>5. CASE result = "Interrupted"
    BY <2>1, <2>5, <2>l DEF Tally
  <2> QED
    BY <2>2, <2>3, <2>4, <2>5
<1>4. CASE BootPanics \/ FuturePanics
  <2>1. /\ pc \notin {"boundary", "begin", "gone"} /\ pc' = "gone"
        /\ UNCHANGED <<booted, sig, task, started, result, completed, errored, interrupted, spurious>>
        /\ lost' = lost + (IF HasIteration THEN 1 ELSE 0)
    BY <1>4 DEF BootPanics, FuturePanics, Selecting, js, lanes
  <2>2. ~Looping'
    BY <2>1 DEF Looping
  <2> QED
    BY <2>1, <2>2
<1>5. CASE BeginIteration
  <2>1. /\ pc = "begin" /\ pc' = "js" /\ task' = "exec" /\ HasIteration /\ sig' = sig
        /\ UNCHANGED <<booted, started, result, completed, errored, interrupted, lost, spurious>>
    BY <1>5 DEF BeginIteration, lanes, faults
  <2>2. ~Looping'
    BY <2>1 DEF Looping
  <2> QED
    BY <2>1, <2>2
<1>6. CASE EndVu
  <2>1. /\ pc = "begin" /\ pc' = "gone" /\ ~HasIteration /\ UNCHANGED <<sig, task>>
        /\ UNCHANGED <<booted, started, result, completed, errored, interrupted, lost, spurious>>
    BY <1>6 DEF EndVu, js, lanes, faults
  <2>2. ~Looping'
    BY <2>1 DEF Looping
  <2> QED
    BY <2>1, <2>2
<1>7. CASE Drain
  <2>1. /\ pc = "drain" /\ sig' = sig /\ (task' = task \/ task' = "job")
        /\ UNCHANGED <<booted, started, result, completed, errored, interrupted, spurious>>
        /\ \/ pc' \in {"js", "check"} /\ lost' = lost
           \/ pc' = "gone" /\ lost' = lost + 1
    BY <1>7 DEF Drain, lanes, faults
  <2>2. HasIteration /\ task' # "top" /\ task' \in {"top", "exec", "job"}
    BY <2>1 DEF Looping
  <2> QED
    BY <2>1, <2>2
<1>8. CASE Publish
  <2>1. Outcome \in {"Completed", "Errored", "Interrupted"}
    BY DEF Outcome
  <2>2. /\ pc = "publish" /\ pc' = "boundary" /\ result' = Outcome
        /\ UNCHANGED <<booted, sig, task, started, completed, errored, interrupted, lost, spurious>>
    BY <1>8 DEF Publish, js, lanes, faults
  <2>3. Looping /\ ~Looping'
    BY <2>2 DEF Looping
  <2> QED
    BY <2>1, <2>2, <2>3
<1>9. CASE ForceUnwind
  <2>1. /\ pc \notin {"boundary", "begin", "gone"} /\ pc' = "gone"
        /\ UNCHANGED <<booted, sig, task, started, result, completed, errored, lost>>
        /\ interrupted' = interrupted + 1
        /\ spurious' = spurious + (IF HasIteration THEN 0 ELSE 1)
    BY <1>9 DEF ForceUnwind, Selecting, js
  <2>2. ~Looping'
    BY <2>1 DEF Looping
  <2> QED
    BY <2>1, <2>2
<1> QED
  BY <1>1, <1>2, <1>3, <1>4, <1>5, <1>6, <1>7, <1>8, <1>9 DEF Next, Gone, Quiet

\* The lanes are exact at the start.
LEMMA LaneInit == Init => LaneInv
  BY DEF Init, LaneInv, LaneTypes, CellInv, SigInv, Looping, HasIteration, OneLane, InIteration

\* Every iteration started leaves through exactly one lane or dies with its VU,
\* across boundaries, force unwind and panics; what else is counted as
\* interrupted are the VUs unwound in their top level after a Stop.
THEOREM OneLaneSound == Spec => []OneLane
  BY LaneInit, LaneStep, PTL DEF Spec, LaneInv

-----------------------------------------------------------------------------
(* Typed outcomes.                                                         *)

\* A failure settles the main promise; the drain loop is left settled or under
\* the hard token; what a boundary is about to tally agrees with the flags.
OutcomeInv ==
  /\ failed => done
  /\ pc = "publish" => done \/ hard
  /\ result = "Completed" => done /\ ~failed
  /\ result = "Errored" => failed

\* Every step keeps OutcomeInv and tallies what the flags say.
LEMMA OutcomeStep ==
  LaneInv /\ OutcomeInv /\ [Next]_vars
    => /\ OutcomeInv'
       /\ errored' > errored => failed /\ done
       /\ completed' > completed => done /\ ~failed
       /\ (result' = "Errored" /\ result # "Errored") => ~hard
<1> DEFINE Goal == /\ OutcomeInv'
                   /\ errored' > errored => failed /\ done
                   /\ completed' > completed => done /\ ~failed
                   /\ (result' = "Errored" /\ result # "Errored") => ~hard
<1> SUFFICES ASSUME LaneInv, OutcomeInv, [Next]_vars PROVE Goal
  OBVIOUS
<1>t. completed \in Nat /\ errored \in Nat /\ (pc # "boundary" => result = "none")
  BY DEF LaneInv, LaneTypes, CellInv
<1> USE DEF OutcomeInv
<1>1. CASE UNCHANGED <<done, failed, result, errored, completed>> /\ (hard => hard')
           /\ (pc' = "publish" => pc = "publish" \/ done \/ hard)
  BY <1>1, <1>t
<1>2. CASE RunNext \/ StopVu
  <2>1. /\ UNCHANGED <<done, failed, hard>> /\ result' = "none" /\ pc' # "publish"
        /\ completed' = completed + (IF result = "Completed" THEN 1 ELSE 0)
        /\ errored' = errored + (IF result = "Errored" THEN 1 ELSE 0)
    BY <1>2 DEF RunNext, StopVu, ResumeVu, Tally
  <2> QED
    BY <1>t, <2>1
<1>3. CASE BeginIteration
  <2>1. /\ done' = FALSE /\ failed' = FALSE /\ pc = "begin" /\ pc' = "js"
        /\ UNCHANGED <<result, completed, errored>>
    BY <1>3 DEF BeginIteration, lanes
  <2> QED
    BY <1>t, <2>1
<1>4. CASE ExecReturns \/ JobsSettle
  <2>1. /\ done' = TRUE /\ pc = "js" /\ pc' # "publish"
        /\ UNCHANGED <<result, errored, completed, hard>>
    BY <1>4 DEF ExecReturns, JobsSettle, lanes
  <2> QED
    BY <1>t, <2>1
<1>5. CASE Publish
  <2>1. /\ pc = "publish" /\ pc' = "boundary" /\ result' = Outcome
        /\ UNCHANGED <<done, failed, errored, completed, hard>>
    BY <1>5 DEF Publish, js, lanes
  <2>2. /\ Outcome = "Errored" => failed /\ ~hard
        /\ Outcome = "Completed" => done /\ ~failed
    BY <2>1 DEF Outcome
  <2> QED
    BY <1>t, <2>1, <2>2
<1>6. CASE LeaveDrain
  BY <1>1, <1>6 DEF LeaveDrain, js, lanes
<1>7. CASE BootPanics \/ EndVu \/ TopLevelEnds
  <2>1. /\ UNCHANGED <<done, failed, result, errored, completed, hard>>
        /\ pc' # "publish"
    BY <1>7 DEF BootPanics, EndVu, TopLevelEnds, js, lanes
  <2> QED
    BY <1>1, <2>1
<1>8. CASE InputOutput
  <2>1. /\ UNCHANGED <<done, failed, result, errored, completed, hard>>
        /\ pc' # "publish"
    BY <1>8 DEF InputOutput, ServeOne, ServeBatch, AsyncCompletes, Selecting, js, lanes
  <2> QED
    BY <1>1, <2>1
<1>9. CASE Register \/ YieldOne \/ YieldAll \/ ExecReturnsPromise \/ JobsEnd \/ JsInterrupt \/ Drain
  <2>1. /\ UNCHANGED <<done, failed, result, errored, completed, hard>>
        /\ pc' # "publish"
    BY <1>9 DEF Register, YieldOne, YieldAll, ExecReturnsPromise, JobsEnd, JsInterrupt, Drain,
                js, lanes
  <2> QED
    BY <1>1, <2>1
<1>10. CASE \/ YieldPending \/ ForceUnwind \/ FuturePanics \/ SignalStop \/ HardFires
            \/ UNCHANGED vars
  <2>1. /\ UNCHANGED <<done, failed, result, errored, completed>>
        /\ hard => hard'
        /\ pc' = "publish" => pc = "publish"
    BY <1>10 DEF YieldPending, ForceUnwind, FuturePanics, SignalStop, HardFires, js, lanes, vars
  <2> QED
    BY <1>1, <2>1
<1> QED
  BY <1>2, <1>3, <1>4, <1>5, <1>6, <1>7, <1>8, <1>9, <1>10 DEF Next, JsStep, Gone

\* A hard-stopped iteration never becomes an error of the script, and only a
\* settled, successful one counts as completed.
THEOREM OutcomeSound == Spec => TypedOutcome
<1>1. Init => LaneInv /\ OutcomeInv
  BY LaneInit DEF Init, OutcomeInv
<1>2. LaneInv /\ OutcomeInv /\ [Next]_vars
        => [ /\ errored' > errored => failed /\ done
             /\ completed' > completed => done /\ ~failed
             /\ (result' = "Errored" /\ result # "Errored") => ~hard ]_vars
  BY OutcomeStep
<1>3. LaneInv /\ OutcomeInv /\ [Next]_vars => OutcomeInv'
  BY OutcomeStep
<1> QED
  BY <1>1, <1>2, <1>3, LaneStep, PTL DEF Spec, TypedOutcome

-----------------------------------------------------------------------------
(* Type correctness.                                                       *)

\* The flags stay Boolean.
LEMMA FlagStep == FlagTypes /\ [Next]_vars => FlagTypes'
  BY DEF FlagTypes, Next, vars, js, book, lanes, faults, RunNext, StopVu, ResumeVu, BootPanics,
         BeginIteration, EndVu, TopLevelEnds, JsStep, Register, YieldOne, YieldAll, ExecReturns, ExecReturnsPromise,
         JobsSettle, JobsEnd, JsInterrupt, Drain, LeaveDrain, YieldPending, Publish,
         InputOutput, ServeOne, ServeBatch, AsyncCompletes, ForceUnwind, FuturePanics,
         SignalStop, HardFires, Gone, PullRegistered, Tally

\* The op ids in use stay below the counter.
LEMMA OpStep == OpTypes /\ [Next]_vars => OpTypes'
<1> SUFFICES ASSUME OpTypes, [Next]_vars PROVE OpTypes'
  OBVIOUS
<1> USE DEF OpTypes, book
<1>1. CASE RunNext \/ StopVu \/ BootPanics \/ BeginIteration \/ EndVu
  <2>1. /\ next_op' = next_op /\ batch' = batch
        /\ outstanding' = 0 \/ outstanding' = outstanding
        /\ pending' = pending \/ pending' = {}
        /\ registered' = registered \/ registered' = {}
        /\ completedOps' = completedOps \/ completedOps' = {}
        /\ async_meta' = async_meta \/ async_meta' = {}
    BY <1>1 DEF RunNext, StopVu, BootPanics, BeginIteration, EndVu
  <2>2. registered' \subseteq 0..next_op - 1 /\ completedOps' \subseteq 0..next_op - 1
    BY <2>1
  <2>3. async_meta' \subseteq 0..next_op - 1 /\ pending' \subseteq 0..next_op - 1
    BY <2>1
  <2> QED
    BY <2>1, <2>2, <2>3
<1>2. CASE Register
  BY <1>2 DEF Register
<1>3. CASE YieldOne \/ YieldAll \/ YieldPending \/ Publish
  <2>1. /\ UNCHANGED <<next_op, outstanding, completedOps, async_meta>>
        /\ pending' = pending \cup registered /\ registered' = {}
        /\ batch' = batch \/ batch' \in 0..MaxBatch
    BY <1>3 DEF YieldOne, YieldAll, YieldPending, Publish, PullRegistered
  <2> QED
    BY <2>1, SchedAssumption
<1>4. CASE \/ TopLevelEnds \/ ExecReturns \/ ExecReturnsPromise \/ JobsSettle \/ JobsEnd
           \/ JsInterrupt \/ LeaveDrain \/ ServeOne \/ SignalStop \/ HardFires
           \/ UNCHANGED vars
  BY <1>4 DEF TopLevelEnds, ExecReturns, ExecReturnsPromise, JobsSettle, JobsEnd, JsInterrupt,
              LeaveDrain, ServeOne, SignalStop, HardFires, vars
<1>5. CASE ServeBatch
  BY <1>5 DEF ServeBatch
<1>6. CASE Drain
  <2>1. IsFiniteSet(0..next_op - 1)
    BY FS_Interval
  <2>2. IsFiniteSet(completedOps)
    BY <2>1, FS_Subset
  <2>3. Cardinality(completedOps) \in Nat
    BY <2>2, FS_CardinalityType
  <2>4. /\ UNCHANGED <<next_op, batch, registered>> /\ completedOps' = {}
        /\ async_meta' = async_meta \/ async_meta' = async_meta \ completedOps
        /\ pending' = pending \/ pending' = {}
        /\ \/ outstanding' = outstanding \/ outstanding' = 0
           \/ /\ Cardinality(completedOps) < outstanding
              /\ outstanding' = outstanding - Cardinality(completedOps)
    BY <1>6 DEF Drain
  <2>5. outstanding' \in Nat
    BY <2>3, <2>4
  <2>6. async_meta' \subseteq 0..next_op - 1 /\ pending' \subseteq 0..next_op - 1
    BY <2>4
  <2> QED
    BY <2>4, <2>5, <2>6
<1>7. ASSUME NEW op \in 0..MaxOps - 1, AsyncCompletes(op) PROVE OpTypes'
  BY <1>7 DEF AsyncCompletes
<1>8. CASE ForceUnwind \/ FuturePanics
  BY <1>8 DEF ForceUnwind, FuturePanics
<1> QED
  BY <1>1, <1>2, <1>3, <1>4, <1>5, <1>6, <1>7, <1>8 DEF Next, JsStep, InputOutput, Gone

\* Every step keeps every variable in its domain.
LEMMA TypeStep == TypeOK /\ [Next]_vars => TypeOK'
<1> SUFFICES ASSUME TypeOK, [Next]_vars PROVE TypeOK'
  OBVIOUS
<1>1. CountTypes'
  <2> USE DEF TypeOK, CountTypes, lanes, faults
  <2>1. CASE RunNext \/ StopVu
    BY <2>1 DEF RunNext, StopVu, Tally
  <2>2. CASE Drain \/ BootPanics \/ ForceUnwind \/ FuturePanics
    BY <2>2 DEF Drain, BootPanics, ForceUnwind, FuturePanics
  <2>3. CASE \/ BeginIteration \/ EndVu \/ JsStep \/ JsInterrupt \/ LeaveDrain \/ YieldPending
             \/ Publish \/ InputOutput \/ SignalStop \/ HardFires \/ UNCHANGED vars
    <3>1. UNCHANGED <<started, completed, errored, interrupted, degraded, lost, spurious>>
      BY <2>3 DEF BeginIteration, EndVu, TopLevelEnds, JsStep, Register, YieldOne, YieldAll,
         ExecReturns, ExecReturnsPromise, JobsSettle, JobsEnd, JsInterrupt, LeaveDrain,
         YieldPending, Publish, InputOutput, ServeOne, ServeBatch, AsyncCompletes, SignalStop,
         HardFires, vars
    <3> QED
      BY <3>1
  <2> QED
    BY <2>1, <2>2, <2>3 DEF Next, Gone
<1>2. /\ pc' \in {"boundary", "begin", "js", "one", "batch", "drain", "check", "awaitPending",
                  "publish", "gone"}
      /\ sig' \in {"RunNext", "Stop"} /\ task' \in {"top", "exec", "job"}
      /\ result' \in {"none", "Completed", "Errored", "Interrupted"}
  BY DEF TypeOK, Next, vars, js, RunNext, StopVu, ResumeVu, BootPanics,
         BeginIteration, EndVu, TopLevelEnds, JsStep, Register, YieldOne, YieldAll, ExecReturns, ExecReturnsPromise,
         JobsSettle, JobsEnd, JsInterrupt, Drain, LeaveDrain, YieldPending, Publish,
         InputOutput, ServeOne, ServeBatch, AsyncCompletes, ForceUnwind, FuturePanics,
         SignalStop, HardFires, Gone, Tally, Outcome
<1> QED
  BY <1>1, <1>2, FlagStep, OpStep DEF TypeOK

\* The scheduler's state stays in its domains.
THEOREM TypeCorrect == Spec => []TypeOK
<1>1. Init => FlagTypes
  BY DEF Init, FlagTypes
<1>2. Init => OpTypes
  BY DEF Init, OpTypes
<1>3. Init => CountTypes
  BY DEF Init, CountTypes
<1>4. Init => TypeOK
  BY <1>1, <1>2, <1>3 DEF Init, TypeOK
<1> QED
  BY <1>4, TypeStep, PTL DEF Spec

-----------------------------------------------------------------------------
(* The async-op bookkeeping the driver and the coroutine share.            *)

\* Nothing of a request is in two places, and ids are never reused.
Apart == /\ registered \cap pending = {} /\ registered \cap completedOps = {}
         /\ pending \cap completedOps = {}

\* The metadata is the union of the three places and `outstanding` its size.
Booked == /\ async_meta = registered \cup pending \cup completedOps
          /\ outstanding = Cardinality(async_meta)

\* Nothing of a request is anywhere, in the book or in the driver.
Idle == Clean /\ pending = {}

\* What the bookkeeping rests on when the stop condition precedes the hard token
\* and the top level of the script issues no async request.  A boundary reached
\* without a stop is reached with nothing outstanding: only then may the next
\* iteration reset the book without touching `pending`.
BookInv ==
  /\ Apart
  /\ hard => stop
  /\ pc \notin {"boundary", "begin", "gone"} => Booked
  /\ ~booted => pc = "boundary" /\ Idle
  /\ (pc \in {"js", "one", "batch"} /\ task = "top") => Idle
  /\ (pc = "publish" /\ ~stop) => outstanding = 0
  /\ (pc = "boundary" /\ ~stop) => Idle
  /\ (pc = "begin" /\ HasIteration) => Idle

\* The sets of op ids are finite.
LEMMA OpsFinite ==
  ASSUME TypeOK, NEW S, S \subseteq 0..next_op - 1
  PROVE  IsFiniteSet(S) /\ Cardinality(S) \in Nat
<1>1. IsFiniteSet(0..next_op - 1)
  BY FS_Interval DEF TypeOK, OpTypes
<1>2. IsFiniteSet(S)
  BY <1>1, FS_Subset
<1> QED
  BY <1>2, FS_CardinalityType

\* A booked iteration with nothing outstanding holds no request anywhere.
LEMMA BookedEmpty ==
  ASSUME TypeOK, Booked, outstanding = 0
  PROVE  Idle
<1>1. async_meta \subseteq 0..next_op - 1
  BY DEF TypeOK, OpTypes
<1>2. IsFiniteSet(async_meta)
  BY <1>1, OpsFinite
<1>3. async_meta = {}
  BY <1>2, FS_EmptySet DEF Booked
<1> QED
  BY <1>3 DEF Booked, Idle, Clean

\* The three places partition the metadata, so their sizes add up.
LEMMA BookedCounts ==
  ASSUME TypeOK, Apart, Booked
  PROVE  outstanding = Cardinality(registered) + Cardinality(pending)
                       + Cardinality(completedOps)
<1>1. /\ IsFiniteSet(registered) /\ IsFiniteSet(pending) /\ IsFiniteSet(completedOps)
      /\ Cardinality(registered) \in Nat /\ Cardinality(pending) \in Nat
      /\ Cardinality(completedOps) \in Nat
  BY OpsFinite DEF TypeOK, OpTypes
<1>e. Cardinality({}) = 0
  BY FS_EmptySet
<1>2. /\ IsFiniteSet(registered \cup pending)
      /\ Cardinality(registered \cup pending)
           = Cardinality(registered) + Cardinality(pending)
  <2>1. registered \cap pending = {}
    BY DEF Apart
  <2>2. /\ IsFiniteSet(registered \cup pending)
        /\ Cardinality(registered \cup pending) = Cardinality(registered)
             + Cardinality(pending) - Cardinality(registered \cap pending)
    BY <1>1, FS_Union
  <2> QED
    BY <1>1, <1>e, <2>1, <2>2
<1>3. Cardinality((registered \cup pending) \cup completedOps)
        = Cardinality(registered \cup pending) + Cardinality(completedOps)
  <2>1. (registered \cup pending) \cap completedOps = {}
    BY DEF Apart
  <2>2. Cardinality((registered \cup pending) \cup completedOps)
          = Cardinality(registered \cup pending) + Cardinality(completedOps)
              - Cardinality((registered \cup pending) \cap completedOps)
    BY <1>1, <1>2, FS_Union
  <2>3. Cardinality((registered \cup pending) \cap completedOps) = 0
    BY <1>e, <2>1, Zenon
  <2>4. Cardinality(registered \cup pending) \in Nat
    BY <1>1, <1>2
  <2> QED
    BY <1>1, <2>2, <2>3, <2>4
<1> QED
  BY <1>2, <1>3 DEF Booked

\* Resolving what completed takes exactly those requests off the book, and every
\* one of them has its metadata: the branch of the panic is not taken.
LEMMA DrainBooks ==
  ASSUME TypeOK, BookInv, Drain
  PROVE  Booked' /\ completedOps \subseteq async_meta /\ pending' = pending
<1>1. pc = "drain" /\ Booked /\ Apart
  BY DEF Drain, BookInv
<1>2. completedOps \subseteq async_meta
  BY <1>1 DEF Booked
<1>3. /\ completedOps' = {} /\ registered' = registered /\ pending' = pending
      /\ async_meta' = async_meta \ completedOps
      /\ outstanding' = IF Cardinality(completedOps) < outstanding
                        THEN outstanding - Cardinality(completedOps) ELSE 0
  BY <1>2 DEF Drain
<1>4. IsFiniteSet(async_meta) /\ Cardinality(async_meta) \in Nat
      /\ IsFiniteSet(completedOps) /\ Cardinality(completedOps) \in Nat
  BY OpsFinite DEF TypeOK, OpTypes
<1>5. async_meta \cap completedOps = completedOps
  BY <1>2
<1>6. /\ Cardinality(async_meta \ completedOps)
           = Cardinality(async_meta) - Cardinality(completedOps)
      /\ Cardinality(completedOps) <= Cardinality(async_meta)
  BY <1>2, <1>4, <1>5, FS_Difference, FS_Subset
<1>7. outstanding' = Cardinality(async_meta')
  BY <1>1, <1>3, <1>4, <1>6 DEF Booked
<1>8. async_meta' = registered' \cup pending' \cup completedOps'
  BY <1>1, <1>3 DEF Booked, Apart
<1> QED
  BY <1>2, <1>3, <1>7, <1>8 DEF Booked

\* An idle book stays one when neither side of it is touched.
LEMMA IdleKept ==
  ASSUME Idle, UNCHANGED <<outstanding, registered, completedOps, async_meta, pending>>
  PROVE  Idle'
  BY DEF Idle, Clean

\* Every step keeps the bookkeeping.
LEMMA BookStep ==
  ~Lagging /\ ~TopLevelAsync /\ TypeOK /\ LaneInv /\ BookInv /\ [Next]_vars => BookInv'
<1> SUFFICES ASSUME ~Lagging, ~TopLevelAsync, TypeOK, LaneInv, BookInv, [Next]_vars
             PROVE  BookInv'
  OBVIOUS
<1> USE DEF book, js
<1>h. /\ (hard => stop) => (hard' => stop')
      /\ stop => stop'
  <2>1. CASE SignalStop \/ HardFires
    BY <2>1 DEF SignalStop, HardFires
  <2>2. CASE JsStep \/ JsInterrupt
    <3>1. UNCHANGED <<stop, hard>>
      BY <2>2 DEF JsStep, Register, YieldOne, YieldAll, TopLevelEnds, ExecReturns,
           ExecReturnsPromise, JobsSettle, JobsEnd, JsInterrupt
    <3> QED
      BY <3>1
  <2>4. CASE InputOutput
    <3>1. UNCHANGED <<stop, hard>>
      BY <2>4 DEF InputOutput, ServeOne, ServeBatch, AsyncCompletes
    <3> QED
      BY <3>1
  <2>3. CASE \/ RunNext \/ StopVu \/ BootPanics \/ BeginIteration \/ EndVu \/ Drain \/ LeaveDrain
             \/ YieldPending \/ Publish \/ ForceUnwind \/ FuturePanics \/ UNCHANGED vars
    BY <2>3 DEF vars, RunNext, StopVu, BootPanics, BeginIteration, EndVu, Drain, LeaveDrain,
         YieldPending, Publish, ForceUnwind, FuturePanics
  <2> QED
    BY <2>1, <2>2, <2>3, <2>4 DEF Next, Gone
<1>b. Booked \/ pc \in {"boundary", "begin", "gone"}
  BY DEF BookInv
<1>i. Idle => Booked /\ Apart
  BY FS_EmptySet DEF Idle, Clean, Booked, Apart
<1>1. CASE RunNext \/ StopVu
  <2>1. /\ pc = "boundary" /\ booted' = TRUE
        /\ UNCHANGED <<outstanding, registered, completedOps, async_meta, pending, stop>>
        /\ \/ pc' = "begin"
           \/ pc' = "js" /\ ~booted
        /\ sig' = "RunNext" => ~stop
    BY <1>1 DEF RunNext, StopVu, ResumeVu
  <2>2. (pc' = "js" \/ sig' = "RunNext") => Idle
    BY <2>1 DEF BookInv
  <2>3. Idle => Idle' /\ Booked'
    BY <1>i, <2>1, IdleKept DEF Booked, Idle, Clean
  <2>4. Apart'
    BY <2>1 DEF BookInv, Apart
  <2> QED
    BY <1>h, <2>1, <2>2, <2>3, <2>4 DEF BookInv, HasIteration
<1>2. CASE BootPanics \/ EndVu \/ ForceUnwind \/ FuturePanics
  <2>1. /\ pc # "boundary" /\ pc' = "gone" /\ pending' = {}
        /\ UNCHANGED <<booted, registered, completedOps>>
    BY <1>2 DEF BootPanics, EndVu, ForceUnwind, FuturePanics, Selecting
  <2> QED
    BY <1>h, <2>1 DEF BookInv, Apart
<1>3. CASE BeginIteration
  <2>1. /\ pc = "begin" /\ pc' = "js" /\ task' = "exec" /\ HasIteration
        /\ outstanding' = 0 /\ registered' = {} /\ completedOps' = {} /\ async_meta' = {}
        /\ UNCHANGED <<pending, booted>>
    BY <1>3 DEF BeginIteration
  <2>2. pending' = {}
    BY <2>1 DEF BookInv, Idle
  <2>3. Booked' /\ Apart'
    BY <2>1, <2>2, FS_EmptySet DEF Booked, Apart
  <2> QED
    BY <1>h, <2>1, <2>3 DEF BookInv
<1>4. CASE Register
  <2>1. /\ pc = "js" /\ pc' = "js" /\ UNCHANGED <<completedOps, pending, booted, task>>
        /\ registered' = registered \cup {next_op} /\ async_meta' = async_meta \cup {next_op}
        /\ outstanding' = outstanding + 1 /\ task # "top"
    BY <1>4 DEF Register
  <2>2. /\ next_op \notin registered /\ next_op \notin pending
        /\ next_op \notin completedOps /\ next_op \notin async_meta
    BY DEF TypeOK, OpTypes
  <2>3. Apart'
    BY <2>1, <2>2 DEF BookInv, Apart
  <2>4. IsFiniteSet(async_meta)
    BY OpsFinite DEF TypeOK, OpTypes
  <2>5. Cardinality(async_meta') = Cardinality(async_meta) + 1
    BY <2>1, <2>2, <2>4, FS_AddElement
  <2>6. Booked'
    BY <1>b, <2>1, <2>5 DEF Booked
  <2> QED
    BY <1>h, <2>1, <2>3, <2>6 DEF BookInv
<1>5. CASE YieldOne \/ YieldAll \/ YieldPending
  <2>1. /\ pc \notin {"boundary", "begin", "gone"} /\ pc' \in {"one", "batch", "awaitPending"}
        /\ pending' = pending \cup registered /\ registered' = {}
        /\ UNCHANGED <<outstanding, completedOps, async_meta, booted, task>>
        /\ pc # "js" => pc' = "awaitPending"
    BY <1>5 DEF YieldOne, YieldAll, YieldPending, PullRegistered
  <2>2. Apart'
    BY <2>1 DEF BookInv, Apart
  <2>3. Booked'
    BY <1>b, <2>1 DEF Booked
  <2>4. Idle => Idle'
    BY <2>1 DEF Idle, Clean
  <2> QED
    BY <1>h, <2>1, <2>2, <2>3, <2>4 DEF BookInv
<1>6. CASE \/ TopLevelEnds \/ ExecReturns \/ ExecReturnsPromise \/ JobsSettle \/ JobsEnd
           \/ JsInterrupt \/ ServeOne \/ ServeBatch
  <2>1. /\ pc \in {"js", "one", "batch"} /\ pc' \in {"begin", "drain", "check", "js", "batch"}
        /\ UNCHANGED <<outstanding, registered, completedOps, async_meta, pending, task, booted>>
        /\ pc' = "begin" => task = "top"
    BY <1>6 DEF TopLevelEnds, ExecReturns, ExecReturnsPromise, JobsSettle, JobsEnd,
                JsInterrupt, ServeOne, ServeBatch
  <2>2. Apart' /\ Booked'
    BY <1>b, <2>1 DEF BookInv, Apart, Booked
  <2>3. Idle => Idle'
    BY <2>1, IdleKept
  <2> QED
    BY <1>h, <2>1, <2>2, <2>3 DEF BookInv
<1>7. CASE SignalStop \/ HardFires \/ UNCHANGED vars
  <2>1. UNCHANGED <<pc, sig, task, booted, outstanding, registered, completedOps, async_meta,
                    pending>>
    BY <1>7 DEF SignalStop, HardFires, vars
  <2>2. /\ Apart' = Apart /\ Booked' = Booked /\ Idle' = Idle
        /\ HasIteration' = HasIteration
    BY <2>1 DEF Apart, Booked, Idle, Clean, HasIteration
  <2> QED
    BY <1>h, <2>1, <2>2 DEF BookInv
<1>8. CASE LeaveDrain
  <2>1. /\ pc = "check" /\ pc' = "publish" /\ UNCHANGED <<booted, task>>
        /\ outstanding = 0 \/ hard
        /\ UNCHANGED <<outstanding, registered, completedOps, async_meta, pending, stop>>
    BY <1>8 DEF LeaveDrain
  <2>2. Apart' /\ Booked'
    BY <1>b, <2>1 DEF BookInv, Apart, Booked
  <2> QED
    BY <1>h, <2>1, <2>2 DEF BookInv
<1>9. CASE Drain
  <2>1. Booked' /\ pending' = pending
    BY <1>9, DrainBooks
  <2>2. /\ pc = "drain" /\ pc' \in {"js", "check", "gone"} /\ completedOps' = {}
        /\ registered' = registered /\ booted' = booted /\ (pc' = "js" => task' = "job")
    BY <1>9 DEF Drain
  <2>3. Apart'
    BY <2>1, <2>2 DEF BookInv, Apart
  <2> QED
    BY <1>h, <2>1, <2>2, <2>3 DEF BookInv
<1>10. CASE Publish
  <2>1. /\ pc = "publish" /\ pc' = "boundary" /\ UNCHANGED <<stop, booted>>
        /\ pending' = pending \cup registered /\ registered' = {}
        /\ UNCHANGED <<outstanding, completedOps, async_meta>>
    BY <1>10 DEF Publish, PullRegistered
  <2>2. ~stop => Idle
    BY <1>b, <2>1, BookedEmpty DEF BookInv
  <2>3. ~stop' => Idle'
    BY <2>1, <2>2 DEF Idle, Clean
  <2>4. Apart'
    BY <2>1 DEF BookInv, Apart
  <2> QED
    BY <1>h, <2>1, <2>3, <2>4 DEF BookInv
<1>11. ASSUME NEW op \in 0..MaxOps - 1, AsyncCompletes(op) PROVE BookInv'
  <2>1. /\ pc \in {"one", "batch", "awaitPending"} /\ pc' \in {"one", "batch", "drain"}
        /\ op \in pending /\ pending' = pending \ {op}
        /\ completedOps' = completedOps \cup {op}
        /\ UNCHANGED <<outstanding, registered, async_meta, booted, task>>
        /\ pc = "awaitPending" => pc' = "drain"
    BY <1>11 DEF AsyncCompletes, Selecting
  <2>2. Apart'
    BY <2>1 DEF BookInv, Apart
  <2>3. Booked'
    BY <1>b, <2>1 DEF Booked
  <2>4. pc # "awaitPending" => task # "top"
    BY <2>1 DEF BookInv, Idle
  <2> QED
    BY <1>h, <2>1, <2>2, <2>3, <2>4 DEF BookInv
<1> QED
  BY <1>1, <1>2, <1>3, <1>4, <1>5, <1>6, <1>7, <1>8, <1>9, <1>10, <1>11
     DEF Next, JsStep, InputOutput, Gone

\* The bookkeeping holds from the start.
LEMMA BookInit == Init => BookInv
  BY DEF Init, BookInv, Apart, Idle, Clean

\* While the stop condition precedes the hard token and the top level of the
\* script issues no asyncRequest (it may block, return and throw as it likes), no
\* completion is lost or duplicated between driver and coroutine, and
\* `expect("async http meta")` cannot fail.  SchedTopLevel and SchedBleed show
\* why each hypothesis is needed.
THEOREM BookkeepingSound ==
  ~Lagging /\ ~TopLevelAsync => (Spec => []Bookkeeping /\ []MetaFound)
<1> SUFFICES ASSUME ~Lagging, ~TopLevelAsync PROVE Spec => []Bookkeeping /\ []MetaFound
  OBVIOUS
<1>1. TypeOK /\ BookInv => Bookkeeping
  BY BookedCounts DEF BookInv, Bookkeeping, Booked, Alive
<1>2. BookInv => MetaFound
  BY DEF BookInv, Booked, MetaFound
<1>3. TypeOK /\ LaneInv /\ BookInv /\ [Next]_vars => BookInv'
  BY BookStep
<1> QED
  BY <1>1, <1>2, <1>3, LaneInit, LaneStep, BookInit, TypeCorrect, PTL DEF Spec

\* Then "driver bookkeeping bled across IterationBoundary" cannot be asserted: an
\* iteration starts with no request of the one before it or of the bootstrap,
\* and the driver holds none either.  The same two hypotheses are needed.
THEOREM CleanStartSound ==
  ~Lagging /\ ~TopLevelAsync
    => (Spec => []CleanStart /\ []((pc = "begin" /\ HasIteration) => pending = {}))
<1> DEFINE NoneInFlight == (pc = "begin" /\ HasIteration) => pending = {}
<1> SUFFICES ASSUME ~Lagging, ~TopLevelAsync PROVE Spec => []CleanStart /\ []NoneInFlight
  OBVIOUS
<1>1. BookInv => CleanStart /\ NoneInFlight
  BY DEF BookInv, CleanStart, Idle
<1>2. TypeOK /\ LaneInv /\ BookInv /\ [Next]_vars => BookInv'
  BY BookStep
<1> HIDE DEF NoneInFlight
<1> QED
  BY <1>1, <1>2, LaneInit, LaneStep, BookInit, TypeCorrect, PTL DEF Spec

-----------------------------------------------------------------------------
(* AwaitPending always has a future to wait for when only the exec function *)
(* blocks.                                                                   *)

\* Jobs never park, so what completed is resolved before the loop looks again;
\* the loop only goes on for a request in flight.
ServedInv ==
  /\ task = "job" => pc \notin {"one", "batch"} /\ (pc = "js" => completedOps = {})
  /\ pc = "check" => completedOps = {} /\ (done \/ outstanding > 0 \/ hard)
  /\ pc = "drain" => done \/ fresh \/ outstanding > 0 \/ hard
  /\ pc = "awaitPending" => outstanding > 0 /\ pending # {}

\* Every step keeps ServedInv.
LEMMA ServedStep ==
  ~NestedSync /\ ScriptsSettle /\ TypeOK /\ LaneInv /\ BookInv /\ ServedInv /\ [Next]_vars
    => ServedInv'
<1> SUFFICES ASSUME ~NestedSync, ScriptsSettle, TypeOK, LaneInv, BookInv, ServedInv, [Next]_vars
             PROVE  ServedInv'
  OBVIOUS
<1>n. outstanding \in Nat
  BY DEF TypeOK, OpTypes
<1> USE DEF book, js
<1>1. CASE RunNext \/ StopVu
  <2>1. pc' \in {"begin", "js"} /\ (pc' = "js" => task' = "top")
    BY <1>1 DEF RunNext, StopVu, ResumeVu
  <2> QED
    BY <2>1 DEF ServedInv
<1>2. CASE BootPanics \/ EndVu \/ ForceUnwind \/ FuturePanics
  <2>1. pc' = "gone"
    BY <1>2 DEF BootPanics, EndVu, ForceUnwind, FuturePanics
  <2> QED
    BY <2>1 DEF ServedInv
<1>3. CASE Register
  <2>1. pc' = "js" /\ pc = "js" /\ UNCHANGED <<task, completedOps>>
    BY <1>3 DEF Register
  <2> QED
    BY <2>1 DEF ServedInv
<1>4. CASE YieldOne \/ YieldAll
  <2>1. pc' \in {"one", "batch"} /\ task # "job" /\ task' = task
    BY <1>4 DEF YieldOne, YieldAll, MayBlock
  <2> QED
    BY <2>1 DEF ServedInv
<1>5. CASE YieldPending
  <2>1. /\ pc = "check" /\ pc' = "awaitPending" /\ ~hard
        /\ outstanding' = outstanding
        /\ ~(done /\ outstanding = 0)
        /\ pending' = pending \cup registered
    BY <1>5 DEF YieldPending, PullRegistered
  <2>2. outstanding > 0 /\ completedOps = {}
    BY <1>n, <2>1 DEF ServedInv
  <2>3. Booked
    BY <2>1 DEF BookInv
  <2>4. async_meta # {}
    BY <2>2, <2>3, FS_EmptySet DEF Booked
  <2>5. pending' # {}
    BY <2>1, <2>2, <2>3, <2>4 DEF Booked
  <2> QED
    BY <2>1, <2>2, <2>5 DEF ServedInv
<1>6. CASE ExecReturns \/ ExecReturnsPromise
  <2>1. /\ pc' = "drain" /\ UNCHANGED <<task, outstanding>>
        /\ done' \/ fresh' \/ outstanding > 0
    BY <1>6 DEF ExecReturns, ExecReturnsPromise
  <2> QED
    BY <2>1 DEF ServedInv
<1>7. CASE JobsSettle \/ JobsEnd
  <2>1. /\ pc = "js" /\ task = "job" /\ pc' = "check"
        /\ UNCHANGED <<completedOps, outstanding>>
        /\ done' \/ outstanding > 0
    BY <1>7 DEF JobsSettle, JobsEnd
  <2> QED
    BY <2>1 DEF ServedInv
<1>8. CASE JsInterrupt
  <2>1. /\ pc = "js" /\ hard /\ hard' /\ UNCHANGED <<task, completedOps>>
        /\ \/ pc' \in {"begin", "drain"}
           \/ pc' = "check" /\ task = "job"
    BY <1>8 DEF JsInterrupt
  <2> QED
    BY <2>1 DEF ServedInv
<1>9. CASE Drain
  <2>1. completedOps \subseteq async_meta
    BY <1>9, DrainBooks
  <2>2. /\ pc = "drain" /\ completedOps' = {} /\ UNCHANGED <<done, hard>>
        /\ \/ pc' = "js"
           \/ /\ pc' = "check" /\ ~fresh /\ completedOps = {}
              /\ outstanding' = IF Cardinality(completedOps) < outstanding
                                THEN outstanding - Cardinality(completedOps) ELSE 0
    BY <1>9, <2>1 DEF Drain
  <2>3. Cardinality({}) = 0
    BY FS_EmptySet
  <2>4. pc' = "check" => outstanding' = outstanding
    BY <1>n, <2>2, <2>3
  <2> QED
    BY <2>2, <2>4 DEF ServedInv
<1>10. CASE LeaveDrain \/ Publish
  <2>1. pc' \in {"publish", "boundary"}
    BY <1>10 DEF LeaveDrain, Publish
  <2> QED
    BY <2>1 DEF ServedInv
<1>11. CASE ServeOne \/ ServeBatch
  <2>1. pc \in {"one", "batch"} /\ pc' \in {"js", "batch"} /\ task' = task
    BY <1>11 DEF ServeOne, ServeBatch
  <2> QED
    BY <2>1 DEF ServedInv
<1>12. ASSUME NEW op \in 0..MaxOps - 1, AsyncCompletes(op) PROVE ServedInv'
  <2>1. /\ pc \in {"one", "batch", "awaitPending"} /\ UNCHANGED <<task, outstanding>>
        /\ pc' = IF pc = "awaitPending" THEN "drain" ELSE pc
    BY <1>12 DEF AsyncCompletes, Selecting
  <2> QED
    BY <2>1 DEF ServedInv
<1>13. CASE SignalStop \/ HardFires \/ UNCHANGED vars
  <2>1. /\ UNCHANGED <<pc, task, done, fresh, completedOps, outstanding, pending>>
        /\ hard => hard'
    BY <1>13 DEF SignalStop, HardFires, vars
  <2> QED
    BY <2>1 DEF ServedInv
<1>14. CASE BeginIteration \/ TopLevelEnds
  <2>1. pc' = "begin" \/ (pc' = "js" /\ task' = "exec")
    BY <1>14 DEF BeginIteration, TopLevelEnds
  <2> QED
    BY <2>1 DEF ServedInv
<1> QED
  BY <1>1, <1>2, <1>3, <1>4, <1>5, <1>6, <1>7, <1>8, <1>9, <1>10, <1>11, <1>12, <1>13, <1>14
     DEF Next, JsStep, InputOutput, Gone

\* A VU whose jobs do not block, and whose unsettled promise always waits for a
\* request, never awaits an empty set of futures: the driver's assertion holds.
\* SchedStall shows that it fails once jobs block too.
THEOREM AwaitPendingSound ==
  ~Lagging /\ ~TopLevelAsync /\ ~NestedSync /\ ScriptsSettle
    => (Spec => []AwaitPendingServed)
<1> SUFFICES ASSUME ~Lagging, ~TopLevelAsync, ~NestedSync, ScriptsSettle
             PROVE  Spec => []AwaitPendingServed
  OBVIOUS
<1>1. Init => ServedInv
  BY DEF Init, ServedInv
<1>2. TypeOK /\ LaneInv /\ BookInv /\ [Next]_vars => BookInv'
  BY BookStep
<1>3. TypeOK /\ LaneInv /\ BookInv /\ ServedInv /\ [Next]_vars => ServedInv'
  BY ServedStep
<1>4. ServedInv => AwaitPendingServed
  BY DEF ServedInv, AwaitPendingServed
<1> QED
  BY <1>1, <1>2, <1>3, <1>4, LaneInit, LaneStep, BookInit, TypeCorrect, PTL DEF Spec
==============================================================================
