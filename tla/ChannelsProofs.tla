---------------------------- MODULE ChannelsProofs ----------------------------
(***************************************************************************)
(* Proofs about the channels between VUs, their helpers and the outside:   *)
(* the in-flight semaphore (Backpressure), the console (Console), the event *)
(* stream (EventStream), WebSocket sessions (WsSessions) and gRPC clients   *)
(* (Grpc), each for every value of its constants.                          *)
(***************************************************************************)
EXTENDS Console, EventStream, Backpressure, WsSessions, Grpc, QueueLemmas, FiniteSetTheorems,
        TLAPS

-----------------------------------------------------------------------------
(* Backpressure, for every number of requests and permits.                 *)

\* The semaphore's queue holds exactly the waiting requests, each once.
QueueInv ==
  /\ Distinct(waiters)
  /\ \A r \in Requests : In(waiters, r) <=> req[r] = "waiting"

Phases == {"idle", "waiting", "granted", "sending", "uncounted"}

\* The head of the queue is a waiting request, and popping removes it alone.
LEMMA HeadWaits ==
  ASSUME TypeOK, QueueInv, waiters # <<>>
  PROVE  /\ Head(waiters) \in Requests /\ req[Head(waiters)] = "waiting"
         /\ Tail(waiters) \in Seq(Requests) /\ Distinct(Tail(waiters))
         /\ \A r \in Requests :
               In(Tail(waiters), r) <=> In(waiters, r) /\ r # Head(waiters)
  BY TailFacts DEF TypeOK, QueueInv

-----------------------------------------------------------------------------
(* The queue.                                                              *)

\* A permit that is given back is free again, or belongs to the oldest waiter.
LEMMA GiveBackKinds ==
  ASSUME TypeOK, QueueInv, NEW r \in Requests, req[r] # "waiting", GiveBack(r, "idle")
  PROVE  \/ /\ available' = available + 1 /\ waiters' = waiters
            /\ req' = [req EXCEPT ![r] = "idle"]
         \/ \E h \in Requests :
              /\ h # r /\ req[h] = "waiting" /\ available' = available
              /\ req' = [req EXCEPT ![r] = "idle", ![h] = "granted"]
              /\ waiters' \in Seq(Requests) /\ Distinct(waiters')
              /\ \A w \in Requests : In(waiters', w) <=> In(waiters, w) /\ w # h
<1>1. CASE waiters = <<>>
  BY <1>1 DEF GiveBack
<1>2. CASE waiters # <<>>
  <2>1. PICK h \in Requests : h = Head(waiters)
    BY <1>2, HeadWaits
  <2>2. /\ waiters' = Tail(waiters) /\ available' = available
        /\ req' = [req EXCEPT ![r] = "idle", ![h] = "granted"]
    BY <1>2, <2>1 DEF GiveBack
  <2>3. h # r /\ req[h] = "waiting"
    BY <1>2, <2>1, HeadWaits
  <2> QED
    BY <1>2, <2>1, <2>2, <2>3, HeadWaits
<1> QED
  BY <1>1, <1>2

\* Every step keeps the types and the queue.
LEMMA QueueStep == TypeOK /\ QueueInv /\ [Next]_vars => TypeOK' /\ QueueInv'
<1> SUFFICES ASSUME TypeOK, QueueInv, [Next]_vars PROVE TypeOK' /\ QueueInv'
  OBVIOUS
<1>t. /\ req \in [Requests -> Phases] /\ waiters \in Seq(Requests) /\ available \in Nat
      /\ current_in_flight \in Int
  BY DEF TypeOK, Phases
<1>q. /\ Distinct(waiters) /\ \A r \in Requests : In(waiters, r) <=> req[r] = "waiting"
  BY DEF QueueInv
<1> USE DEF TypeOK, QueueInv, Phases
<1>1. CASE UNCHANGED vars
  BY <1>1 DEF vars
<1>2. ASSUME NEW r \in Requests, Acquire(r) PROVE TypeOK' /\ QueueInv'
  <2>1. CASE available > 0 /\ waiters = <<>>
    BY <1>t, <1>q, <1>2, <2>1 DEF Acquire
  <2>2. CASE ~(available > 0 /\ waiters = <<>>)
    <3>1. /\ waiters' = Append(waiters, r) /\ req' = [req EXCEPT ![r] = "waiting"]
          /\ UNCHANGED <<available, current_in_flight>> /\ ~In(waiters, r)
      BY <1>q, <1>2, <2>2 DEF Acquire
    <3>2. /\ waiters' \in Seq(Requests) /\ Distinct(waiters')
          /\ \A w \in Requests : In(waiters', w) <=> In(waiters, w) \/ w = r
      BY <1>t, <1>q, <3>1, AppendFacts
    <3> QED
      BY <1>t, <1>q, <3>1, <3>2
  <2> QED
    BY <2>1, <2>2
<1>3. ASSUME NEW r \in Requests, Count(r) \/ Uncount(r) PROVE TypeOK' /\ QueueInv'
  BY <1>t, <1>q, <1>3 DEF Count, Uncount
<1>4. ASSUME NEW r \in Requests, Release(r) \/ CancelGranted(r) PROVE TypeOK' /\ QueueInv'
  <2>1. /\ req[r] \in {"uncounted", "granted"} /\ GiveBack(r, "idle")
        /\ UNCHANGED current_in_flight
    BY <1>4 DEF Release, CancelGranted
  <2>2. CASE /\ available' = available + 1 /\ waiters' = waiters
             /\ req' = [req EXCEPT ![r] = "idle"]
    BY <1>t, <1>q, <2>1, <2>2
  <2>3. ASSUME NEW h \in Requests, h # r, req[h] = "waiting", available' = available,
               req' = [req EXCEPT ![r] = "idle", ![h] = "granted"],
               waiters' \in Seq(Requests), Distinct(waiters'),
               \A w \in Requests : In(waiters', w) <=> In(waiters, w) /\ w # h
        PROVE  TypeOK' /\ QueueInv'
    BY <1>t, <1>q, <2>1, <2>3
  <2> QED
    BY <2>1, <2>2, <2>3, GiveBackKinds
<1>5. ASSUME NEW r \in Requests, CancelWaiting(r) PROVE TypeOK' /\ QueueInv'
  <2>1. /\ In(waiters, r) /\ waiters' = Without(waiters, r)
        /\ req' = [req EXCEPT ![r] = "idle"] /\ UNCHANGED <<available, current_in_flight>>
    BY <1>q, <1>5 DEF CancelWaiting
  <2>2. /\ waiters' \in Seq(Requests) /\ Distinct(waiters')
        /\ \A w \in Requests : In(waiters', w) <=> In(waiters, w) /\ w # r
    BY <1>t, <1>q, <2>1, WithoutFacts
  <2> QED
    BY <1>t, <1>q, <2>1, <2>2
<1> QED
  BY <1>1, <1>2, <1>3, <1>4, <1>5 DEF Next

\* At first nobody waits.
LEMMA QueueInit == Init => TypeOK /\ QueueInv
  BY GateAssumption DEF Init, TypeOK, QueueInv, Distinct, In

-----------------------------------------------------------------------------
(* The permits.                                                            *)

Sending == {r \in Requests : req[r] = "sending"}

\* Only requests hold permits, and only holders are on the wire.
LEMMA HoldingFinite ==
  /\ IsFiniteSet(Holding) /\ IsFiniteSet(Holding') /\ IsFiniteSet(Sending)
  /\ IsFiniteSet(Sending')
  /\ Cardinality(Holding) \in Nat /\ Cardinality(Holding') \in Nat
  /\ Cardinality(Sending) \in Nat /\ Cardinality(Sending') \in Nat
  /\ Cardinality(Sending) <= Cardinality(Holding)
<1>1. /\ Holding \subseteq Requests /\ Holding' \subseteq Requests
      /\ Sending \subseteq Requests /\ Sending' \subseteq Requests
      /\ Sending \subseteq Holding
  BY DEF Holding, Sending
<1> QED
  BY <1>1, GateAssumption, FS_Subset, FS_CardinalityType

Counted == PermitsConserved /\ current_in_flight = Cardinality(Sending)

\* Every step moves a permit from one holder to one other place.
LEMMA PermitStep == TypeOK /\ QueueInv /\ Counted /\ [Next]_vars => Counted'
<1> SUFFICES ASSUME TypeOK, QueueInv, Counted, [Next]_vars PROVE Counted'
  OBVIOUS
<1>t. /\ req \in [Requests -> Phases] /\ available \in Nat /\ max_in_flight \in Nat
      /\ current_in_flight \in Int
  BY GateAssumption DEF TypeOK, Phases
<1> USE DEF Counted, PermitsConserved
<1>1. CASE UNCHANGED vars
  BY <1>1 DEF vars, Holding, Sending
<1>2. ASSUME NEW r \in Requests, Acquire(r) PROVE Counted'
  <2>1. Sending' = Sending /\ current_in_flight' = current_in_flight
    BY <1>t, <1>2 DEF Acquire, Sending, Phases
  <2>2. CASE available > 0 /\ waiters = <<>>
    <3>1. /\ Holding' = Holding \cup {r} /\ r \notin Holding /\ available' = available - 1
      BY <1>t, <1>2, <2>2 DEF Acquire, Holding, Phases
    <3>2. Cardinality(Holding)' = Cardinality(Holding) + 1
      BY <3>1, HoldingFinite, FS_AddElement
    <3> QED
      BY <1>t, <2>1, <3>1, <3>2, HoldingFinite
  <2>3. CASE ~(available > 0 /\ waiters = <<>>)
    <3>1. Holding' = Holding /\ available' = available
      BY <1>t, <1>2, <2>3 DEF Acquire, Holding, Phases
    <3> QED
      BY <2>1, <3>1
  <2> QED
    BY <2>2, <2>3
<1>3. ASSUME NEW r \in Requests, Count(r) PROVE Counted'
  <2>1. /\ Holding' = Holding /\ Sending' = Sending \cup {r} /\ r \notin Sending
        /\ available' = available /\ current_in_flight' = current_in_flight + 1
    BY <1>t, <1>3 DEF Count, Holding, Sending, Phases
  <2>2. Cardinality(Sending)' = Cardinality(Sending) + 1
    BY <2>1, HoldingFinite, FS_AddElement
  <2> QED
    BY <2>1, <2>2
<1>4. ASSUME NEW r \in Requests, Uncount(r) PROVE Counted'
  <2>1. /\ Holding' = Holding /\ Sending' = Sending \ {r} /\ r \in Sending
        /\ available' = available /\ current_in_flight' = current_in_flight - 1
    BY <1>t, <1>4 DEF Uncount, Holding, Sending, Phases
  <2>2. Cardinality(Sending)' = Cardinality(Sending) - 1
    BY <2>1, HoldingFinite, FS_RemoveElement
  <2> QED
    BY <2>1, <2>2
<1>5. ASSUME NEW r \in Requests, Release(r) \/ CancelGranted(r) PROVE Counted'
  <2>1. /\ req[r] \in {"uncounted", "granted"} /\ GiveBack(r, "idle")
        /\ UNCHANGED current_in_flight
    BY <1>5 DEF Release, CancelGranted
  <2>2. CASE available' = available + 1 /\ req' = [req EXCEPT ![r] = "idle"]
    <3>1. Holding' = Holding \ {r} /\ r \in Holding /\ Sending' = Sending
      BY <1>t, <2>1, <2>2 DEF Holding, Sending, Phases
    <3>2. Cardinality(Holding)' = Cardinality(Holding) - 1
      BY <3>1, HoldingFinite, FS_RemoveElement
    <3> QED
      BY <1>t, <2>1, <2>2, <3>1, <3>2, HoldingFinite
  <2>3. ASSUME NEW h \in Requests, h # r, req[h] = "waiting", available' = available,
               req' = [req EXCEPT ![r] = "idle", ![h] = "granted"]
        PROVE  Counted'
    <3>1. /\ Holding' = (Holding \ {r}) \cup {h} /\ r \in Holding /\ h \notin Holding
          /\ Sending' = Sending
      BY <1>t, <2>1, <2>3 DEF Holding, Sending, Phases
    <3>2. /\ IsFiniteSet(Holding \ {r})
          /\ Cardinality(Holding \ {r}) = Cardinality(Holding) - 1
      BY <3>1, HoldingFinite, FS_RemoveElement
    <3>3. Cardinality(Holding)' = Cardinality(Holding \ {r}) + 1
      BY <3>1, <3>2, FS_AddElement
    <3>4. Cardinality(Holding)' = Cardinality(Holding)
      BY <3>2, <3>3, HoldingFinite
    <3> QED
      BY <2>1, <2>3, <3>1, <3>4
  <2> QED
    BY <2>1, <2>2, <2>3, GiveBackKinds
<1>6. ASSUME NEW r \in Requests, CancelWaiting(r) PROVE Counted'
  <2>1. Holding' = Holding /\ Sending' = Sending /\ UNCHANGED <<available, current_in_flight>>
    BY <1>t, <1>6 DEF CancelWaiting, Holding, Sending, Phases
  <2> QED
    BY <2>1
<1> QED
  BY <1>1, <1>2, <1>3, <1>4, <1>5, <1>6 DEF Next

\* At first all permits are free.
LEMMA CountedInit == Init => Counted
<1> SUFFICES ASSUME Init PROVE Counted
  OBVIOUS
<1>1. Holding = {} /\ Sending = {}
  BY DEF Init, Holding, Sending
<1>2. Cardinality(Holding) = 0 /\ Cardinality(Sending) = 0
  BY <1>1, FS_EmptySet
<1> QED
  BY <1>2, GateAssumption DEF Init, Counted, PermitsConserved

\* Permits are conserved, wherever the futures of requests are dropped.
THEOREM PermitsSound == Spec => []PermitsConserved
  BY QueueInit, QueueStep, CountedInit, PermitStep, PTL DEF Spec, Counted

\* in_flight() counts exactly the requests on the wire, and never more than
\* max_in_flight.
THEOREM InFlightSound == Spec => []InFlightBounded
<1>1. TypeOK /\ Counted => InFlightBounded
  <2> SUFFICES ASSUME TypeOK, Counted PROVE InFlightBounded
    OBVIOUS
  <2>1. current_in_flight = Cardinality({r \in Requests : req[r] = "sending"})
    BY DEF Counted, Sending
  <2>2. current_in_flight <= max_in_flight
    BY HoldingFinite, GateAssumption DEF TypeOK, Counted, PermitsConserved
  <2> QED
    BY <2>1, <2>2 DEF InFlightBounded
<1> QED
  BY <1>1, QueueInit, QueueStep, CountedInit, PermitStep, PTL DEF Spec

-----------------------------------------------------------------------------
(* Console, for every number of contexts and every capacity.               *)

SendingNow == {e \in Emitters : emitter[e] = "sending"}
Writing == IF worker = "write" THEN 1 ELSE 0

\* The domains of what is counted.
ConsoleTypes ==
  /\ emitter \in [Emitters -> {"idle", "sending"}]
  /\ queue \in Seq({"record", "wake"})
  /\ emits \in Nat /\ written \in Nat /\ write_errors \in Nat /\ dropped \in Nat

\* After a quiescent close nobody sends; the worker leaves its loop only after
\* it, with an empty queue, to which only the wake-up message can be added; a
\* completed drain was reported when everything had been counted.
ConsoleInv ==
  /\ closed <=> owner # "running"
  /\ worker \in {"tryRecv", "exiting", "done"} => closed
  /\ closed => SendingNow = {}
  /\ worker \in {"exiting", "done"} => Occurs(queue, "record") = 0
  /\ (owner = "reported" /\ ~timedOut) => worker = "done" /\ reported = dropped + write_errors

\* Every record is somewhere.
Balance == emits = written + write_errors + dropped + Occurs(queue, "record")
                   + Writing + Cardinality(SendingNow)

\* The number of contexts between the closed check and try_send.
LEMMA SendingSize == IsFiniteSet(SendingNow) /\ Cardinality(SendingNow) \in Nat
<1>1. IsFiniteSet(SendingNow)
  BY ConsoleAssumption, FS_Subset DEF SendingNow
<1> QED
  BY <1>1, FS_CardinalityType

\* The queue's content is a number.
LEMMA QueueSize == ConsoleTypes => Occurs(queue, "record") \in Nat
  BY PlacesFinite DEF ConsoleTypes

ConsoleGood == quiescent => ConsoleInv /\ Balance

\* Every step of a quiescent run keeps the balance.
LEMMA ConsoleStep ==
  ConsoleTypes /\ ConsoleGood /\ [ConsoleNext]_consolevars => ConsoleTypes' /\ ConsoleGood'
<1> SUFFICES ASSUME ConsoleTypes, ConsoleGood, [ConsoleNext]_consolevars
             PROVE  ConsoleTypes' /\ ConsoleGood'
  OBVIOUS
<1>s. Cardinality(SendingNow) \in Nat /\ IsFiniteSet(SendingNow)
  BY SendingSize
<1>q. Occurs(queue, "record") \in Nat
  BY QueueSize
<1>e. Cardinality({}) = 0
  BY FS_EmptySet
<1>0. CASE UNCHANGED consolevars
  BY <1>0 DEF consolevars, ConsoleTypes, ConsoleGood, ConsoleInv, Balance, SendingNow, Writing
<1>1. ASSUME NEW e \in Emitters, EmitCheck(e) PROVE ConsoleTypes' /\ ConsoleGood'
  <2>1. /\ emitter[e] = "idle" /\ (quiescent => owner = "running") /\ emits' = emits + 1
        /\ \/ closed /\ dropped' = dropped + 1 /\ emitter' = emitter
           \/ ~closed /\ emitter' = [emitter EXCEPT ![e] = "sending"] /\ dropped' = dropped
        /\ UNCHANGED <<quiescent, queue, closed, write_errors, written, worker, owner, timedOut, reported>>
    BY <1>1 DEF EmitCheck
  <2>2. ConsoleTypes'
    BY <2>1 DEF ConsoleTypes
  <2>3. ASSUME quiescent' PROVE ConsoleInv' /\ Balance'
    <3>1. quiescent /\ ~closed /\ ConsoleInv /\ Balance
      BY <2>1, <2>3 DEF ConsoleGood, ConsoleInv
    <3>2. SendingNow' = SendingNow \cup {e} /\ e \notin SendingNow
      BY <2>1, <3>1 DEF SendingNow, ConsoleTypes
    <3>3. Cardinality(SendingNow') = Cardinality(SendingNow) + 1
      BY <1>s, <3>2, FS_AddElement
    <3>4. ConsoleInv'
      BY <2>1, <3>1 DEF ConsoleInv
    <3>5. /\ emits' = emits + 1 /\ dropped' = dropped /\ written' = written
          /\ write_errors' = write_errors /\ queue' = queue /\ Writing' = Writing
      BY <2>1, <3>1 DEF Writing
    <3>6. Writing \in Nat
      BY DEF Writing
    <3>7. Balance'
      BY <1>s, <1>q, <3>1, <3>3, <3>5, <3>6 DEF Balance, ConsoleTypes
    <3> QED
      BY <3>4, <3>7
  <2> QED
    BY <2>2, <2>3 DEF ConsoleGood
<1>2. ASSUME NEW e \in Emitters, EmitSend(e) PROVE ConsoleTypes' /\ ConsoleGood'
  <2>1. /\ emitter[e] = "sending" /\ emitter' = [emitter EXCEPT ![e] = "idle"]
        /\ \/ queue' = Append(queue, "record") /\ dropped' = dropped
           \/ dropped' = dropped + 1 /\ queue' = queue
        /\ UNCHANGED <<quiescent, emits, closed, write_errors, written, worker, owner, timedOut, reported>>
    BY <1>2 DEF EmitSend
  <2>t. queue' \in Seq({"record", "wake"}) /\ dropped' \in Nat
    BY <2>1 DEF ConsoleTypes
  <2>2. ConsoleTypes'
    BY <2>1, <2>t DEF ConsoleTypes
  <2>3. ASSUME quiescent' PROVE ConsoleInv' /\ Balance'
    <3>1. quiescent /\ ConsoleInv /\ Balance /\ e \in SendingNow
      BY <2>1, <2>3 DEF ConsoleGood, SendingNow
    <3>2. SendingNow' = SendingNow \ {e}
      BY <2>1 DEF SendingNow, ConsoleTypes
    <3>3. Cardinality(SendingNow') = Cardinality(SendingNow) - 1
      BY <1>s, <3>1, <3>2, FS_RemoveElement
    <3>4. ~closed /\ owner = "running" /\ worker \notin {"tryRecv", "exiting", "done"}
      BY <3>1 DEF ConsoleInv
    <3>5. ConsoleInv'
      BY <2>1, <3>4 DEF ConsoleInv
    <3>6. CASE queue' = Append(queue, "record") /\ dropped' = dropped
      <4>1. Occurs(queue', "record") = Occurs(queue, "record") + 1
        BY <3>6, OccursAppend DEF ConsoleTypes
      <4> QED
        BY <1>s, <1>q, <2>1, <3>1, <3>3, <3>5, <3>6, <4>1 DEF Balance, Writing, ConsoleTypes
    <3>7. CASE dropped' = dropped + 1 /\ queue' = queue
      BY <1>s, <1>q, <2>1, <3>1, <3>3, <3>5, <3>7 DEF Balance, Writing, ConsoleTypes
    <3> QED
      BY <2>1, <3>6, <3>7
  <2> QED
    BY <2>2, <2>3 DEF ConsoleGood
<1>3. CASE LoadClosed
  <2>1. /\ worker = "load" /\ worker' = (IF closed THEN "tryRecv" ELSE "recv")
        /\ UNCHANGED <<quiescent, emitter, emits, queue, closed, dropped, write_errors, written,
                       owner, timedOut, reported>>
    BY <1>3 DEF LoadClosed
  <2>2. ConsoleTypes'
    BY <2>1 DEF ConsoleTypes
  <2> QED
    BY <2>1, <2>2 DEF ConsoleGood, ConsoleInv, Balance, Writing, SendingNow
<1>4. CASE Receive
  <2>0. /\ worker \in {"recv", "tryRecv"}
        /\ UNCHANGED <<quiescent, emitter, emits, closed, dropped, write_errors, written, owner,
                       timedOut, reported>>
    BY <1>4 DEF Receive
  <2>1. CASE queue = <<>>
    <3>1. worker = "tryRecv" /\ worker' = "exiting" /\ queue' = queue
      BY <1>4, <2>1 DEF Receive
    <3>2. Occurs(queue, "record") = 0
      BY <2>1, OccursEmpty
    <3> QED
      BY <2>0, <3>1, <3>2 DEF ConsoleTypes, ConsoleGood, ConsoleInv, Balance, Writing, SendingNow
  <2>2. CASE queue # <<>>
    <3>1. queue' = Tail(queue) /\ worker' = (IF Head(queue) = "record" THEN "write" ELSE "load")
      BY <1>4, <2>2 DEF Receive
    <3>2. /\ Occurs(queue, "record")
               = Occurs(queue', "record") + (IF Head(queue) = "record" THEN 1 ELSE 0)
          /\ queue' \in Seq({"record", "wake"})
      BY <2>2, <3>1, OccursTail DEF ConsoleTypes
    <3>3. ConsoleTypes'
      BY <2>0, <3>2 DEF ConsoleTypes
    <3>4. Occurs(queue', "record") \in Nat
      BY <3>2, PlacesFinite
    <3>5. Occurs(queue, "record") + Writing = Occurs(queue', "record") + Writing'
      BY <2>0, <3>1, <3>2, <3>4 DEF Writing
    <3>6. ASSUME quiescent' PROVE ConsoleInv' /\ Balance'
      <4>1. ConsoleInv /\ Balance /\ quiescent
        BY <2>0, <3>6 DEF ConsoleGood
      <4>2. ConsoleInv'
        BY <2>0, <3>1, <4>1 DEF ConsoleInv, SendingNow
      <4>3. SendingNow' = SendingNow
        BY <2>0 DEF SendingNow
      <4>4. Balance'
        BY <1>s, <1>q, <2>0, <3>4, <3>5, <4>1, <4>3 DEF Balance, ConsoleTypes, Writing
      <4> QED
        BY <4>2, <4>4
    <3> QED
      BY <3>3, <3>6 DEF ConsoleGood
  <2> QED
    BY <2>1, <2>2
<1>5. CASE WriteRecord
  <2>1. /\ worker = "write" /\ worker' = "load"
        /\ \/ written' = written + 1 /\ write_errors' = write_errors
           \/ write_errors' = write_errors + 1 /\ written' = written
        /\ UNCHANGED <<quiescent, emitter, emits, queue, closed, dropped, owner, timedOut, reported>>
    BY <1>5 DEF WriteRecord
  <2>2. ConsoleTypes'
    BY <2>1 DEF ConsoleTypes
  <2>3. ASSUME quiescent' PROVE ConsoleInv' /\ Balance'
    <3>1. quiescent /\ ConsoleInv /\ Balance
      BY <2>1, <2>3 DEF ConsoleGood
    <3>2. ConsoleInv'
      BY <2>1, <3>1 DEF ConsoleInv, SendingNow
    <3>3. SendingNow' = SendingNow
      BY <2>1 DEF SendingNow
    <3>4. Balance'
      BY <1>s, <1>q, <2>1, <3>1, <3>3 DEF Balance, Writing, ConsoleTypes
    <3> QED
      BY <3>2, <3>4
  <2> QED
    BY <2>2, <2>3 DEF ConsoleGood
<1>6. CASE WorkerExit
  <2>1. /\ worker = "exiting" /\ worker' = "done" /\ queue' = <<>>
        /\ UNCHANGED <<quiescent, emitter, emits, closed, dropped, write_errors, written, owner,
                       timedOut, reported>>
    BY <1>6 DEF WorkerExit
  <2>2. Occurs(queue', "record") = 0 /\ queue' \in Seq({"record", "wake"})
    BY <2>1, OccursEmpty
  <2>3. ConsoleTypes'
    BY <2>1, <2>2 DEF ConsoleTypes
  <2> QED
    BY <2>1, <2>2, <2>3 DEF ConsoleGood, ConsoleInv, Balance, Writing, SendingNow
<1>7. CASE Close
  <2>1. /\ owner = "running" /\ owner' = "closed" /\ closed' = TRUE
        /\ quiescent => \A e \in Emitters : emitter[e] = "idle"
        /\ UNCHANGED <<quiescent, emitter, emits, queue, dropped, write_errors, written, worker,
                       timedOut, reported>>
    BY <1>7 DEF Close
  <2>2. ConsoleTypes'
    BY <2>1 DEF ConsoleTypes
  <2> QED
    BY <2>1, <2>2 DEF ConsoleGood, ConsoleInv, Balance, Writing, SendingNow
<1>8. CASE SendWake
  <2>1. /\ owner = "closed" /\ owner' = "waiting"
        /\ queue' = queue \/ queue' = Append(queue, "wake")
        /\ UNCHANGED <<quiescent, emitter, emits, closed, dropped, write_errors, written, worker,
                       timedOut, reported>>
    BY <1>8 DEF SendWake
  <2>2. ConsoleTypes'
    BY <2>1 DEF ConsoleTypes
  <2>3. Occurs(queue', "record") = Occurs(queue, "record")
    <3>1. CASE queue' = Append(queue, "wake")
      <4>1. Occurs(queue', "record")
              = Occurs(queue, "record") + (IF "wake" = "record" THEN 1 ELSE 0)
        BY <3>1, OccursAppend DEF ConsoleTypes
      <4> QED
        BY <1>q, <4>1
    <3> QED
      BY <2>1, <3>1
  <2> QED
    BY <2>1, <2>2, <2>3 DEF ConsoleGood, ConsoleInv, Balance, Writing, SendingNow
<1>9. CASE Report
  <2>1. /\ owner = "waiting" /\ owner' = "reported" /\ (~timedOut' => worker = "done")
        /\ reported' = dropped + write_errors
        /\ UNCHANGED <<quiescent, emitter, emits, queue, closed, dropped, write_errors, written, worker>>
    BY <1>9 DEF Report
  <2>2. ConsoleTypes'
    BY <2>1 DEF ConsoleTypes
  <2> QED
    BY <2>1, <2>2 DEF ConsoleGood, ConsoleInv, Balance, Writing, SendingNow
<1> QED
  BY <1>0, <1>1, <1>2, <1>3, <1>4, <1>5, <1>6, <1>7, <1>8, <1>9
     DEF ConsoleNext, Worker, ConsoleFinished

\* Every record a context emits is written, counted as lost, or still on its
\* way, and after a completed drain ConsoleStats reports every loss.
THEOREM ConsoleSound == ConsoleSpec => []Accounted
<1>1. ConsoleInit => ConsoleTypes /\ ConsoleGood
  <2> SUFFICES ASSUME ConsoleInit PROVE ConsoleTypes /\ ConsoleGood
    OBVIOUS
  <2>1. ConsoleTypes
    BY DEF ConsoleInit, ConsoleTypes
  <2>2. SendingNow = {} /\ Occurs(queue, "record") = 0 /\ Cardinality({}) = 0
    BY OccursEmpty, FS_EmptySet DEF ConsoleInit, SendingNow
  <2> QED
    BY <2>1, <2>2 DEF ConsoleInit, ConsoleGood, ConsoleInv, Balance, Writing
<1>2. ConsoleTypes /\ ConsoleGood => Accounted
  <2> SUFFICES ASSUME ConsoleTypes, ConsoleGood, quiescent
               PROVE  /\ emits = written + write_errors + dropped + InQueue + InHand
                      /\ owner = "reported" /\ ~timedOut => emits = written + reported
    BY DEF Accounted
  <2>1. ConsoleInv /\ Balance
    BY DEF ConsoleGood
  <2>2. /\ InQueue = Occurs(queue, "record") /\ InHand = Writing + Cardinality(SendingNow)
    BY DEF InQueue, InHand, Occurs, Places, Writing, SendingNow
  <2>3. /\ Occurs(queue, "record") \in Nat /\ Cardinality(SendingNow) \in Nat
        /\ Cardinality({}) = 0 /\ Writing \in Nat
    BY QueueSize, SendingSize, FS_EmptySet DEF Writing
  <2>4. emits = written + write_errors + dropped + InQueue + InHand
    BY <2>1, <2>2, <2>3 DEF Balance, ConsoleTypes
  <2>5. ASSUME owner = "reported", ~timedOut PROVE emits = written + reported
    <3>1. worker = "done" /\ reported = dropped + write_errors /\ SendingNow = {}
          /\ Occurs(queue, "record") = 0
      BY <2>1, <2>5 DEF ConsoleInv
    <3> QED
      BY <2>1, <2>3, <3>1 DEF Balance, Writing, ConsoleTypes
  <2> QED
    BY <2>4, <2>5
<1> QED
  BY <1>1, <1>2, ConsoleStep, PTL DEF ConsoleSpec

-----------------------------------------------------------------------------
(* The event stream, for every number of producers and metrics, every       *)
(* capacity and every batch limit.                                          *)

Lines == {"Metric", "Point"} \X Metrics

\* The domains of the two queues, the batch and the stream.
StreamTypes ==
  /\ inSink \in [Producers -> Metrics \cup {None}]
  /\ samples \in [Metrics -> Nat] /\ drops \in [Metrics -> Nat]
  /\ seen \in SUBSET Metrics
  /\ defs \in Seq(Metrics) /\ chan \in Seq(Metrics) /\ batch \in Seq(Metrics)
  /\ out \in Seq(Lines)

Defined(m) == In(out, Line("Metric", m))

\* A metric that was seen is defined in the stream or in the definition queue,
\* once and in one of them; what is on its way was seen; and when the points
\* of a batch are due, their metrics are defined.
DefInv ==
  /\ \A m \in Metrics : m \in seen <=> Defined(m) \/ In(defs, m)
  /\ Distinct(defs)
  /\ \A m \in Metrics : ~(Defined(m) /\ In(defs, m))
  /\ \A p \in Producers : inSink[p] # None => inSink[p] \in seen
  /\ \A m \in Metrics : In(chan, m) \/ In(batch, m) => m \in seen
  /\ writer = "points" => \A m \in Metrics : In(batch, m) => Defined(m)
  /\ DefBeforePoint

\* One line for each element of a queue.
LEMMA LinesOf ==
  ASSUME NEW q \in Seq(Metrics), NEW k \in {"Metric", "Point"}
  PROVE  LET l == [i \in 1..Len(q) |-> Line(k, q[i])]
         IN  /\ l \in Seq(Lines) /\ Len(l) = Len(q)
             /\ \A i \in 1..Len(q) : l[i] = Line(k, q[i]) /\ q[i] \in Metrics
<1>1. Len(q) \in Nat /\ \A i \in 1..Len(q) : q[i] \in Metrics
  OBVIOUS
<1>2. \A i \in 1..Len(q) : Line(k, q[i]) \in Lines
  BY <1>1 DEF Line, Lines
<1> QED
  BY <1>1, <1>2

\* Every step of the stream keeps its types.
LEMMA StreamTypesStep == StreamTypes /\ [StreamNext]_streamvars => StreamTypes'
<1> SUFFICES ASSUME StreamTypes, [StreamNext]_streamvars PROVE StreamTypes'
  OBVIOUS
<1> USE DEF StreamTypes
<1>0. CASE UNCHANGED streamvars \/ StreamFinished
  BY <1>0 DEF streamvars, StreamFinished
<1>1. ASSUME NEW p \in Producers, NEW m \in Metrics, QueueDef(p, m) PROVE StreamTypes'
  BY <1>1, InAppend DEF QueueDef
<1>2. ASSUME NEW p \in Producers, TrySend(p) PROVE StreamTypes'
  <2>1. inSink[p] \in Metrics /\ Append(chan, inSink[p]) \in Seq(Metrics)
    BY <1>2, InAppend DEF TrySend
  <2>2. chan' \in {chan, Append(chan, inSink[p])}
    BY <1>2 DEF TrySend
  <2>3. drops' \in {drops, [drops EXCEPT ![inSink[p]] = @ + 1]}
    BY <1>2 DEF TrySend
  <2>4. drops' \in [Metrics -> Nat]
    <3>1. drops \in [Metrics -> Nat] /\ drops[inSink[p]] + 1 \in Nat
      BY <2>1
    <3> QED
      BY <2>1, <2>3, <3>1
  <2>5. inSink' \in [Producers -> Metrics \cup {None}]
    BY <1>2 DEF TrySend
  <2> QED
    BY <1>2, <2>1, <2>2, <2>4, <2>5 DEF TrySend
<1>3. CASE Recv
  BY <1>3, InTail, InAppend DEF Recv
<1>4. CASE FlushDefs
  <2>1. out' \in Seq(Lines)
    BY <1>4, LinesOf, InConcat DEF FlushDefs
  <2> QED
    BY <1>4, <2>1 DEF FlushDefs
<1>5. CASE EmitPoints
  <2>1. out' \in Seq(Lines)
    BY <1>5, LinesOf, InConcat DEF EmitPoints
  <2> QED
    BY <1>5, <2>1 DEF EmitPoints
<1>6. CASE CreateFile \/ EndWindow \/ SeeClosed \/ WriteSidecar
  BY <1>6 DEF CreateFile, EndWindow, SeeClosed, WriteSidecar
<1>8. CASE IoError
  <2>1. /\ chan' = <<>> /\ batch' = <<>> /\ UNCHANGED <<inSink, samples, seen, defs, drops, out>>
    BY <1>8 DEF IoError
  <2> QED
    BY <2>1
<1>7. CASE StopPlugin \/ ClearEventSink \/ AwaitWriter
  BY <1>7 DEF StopPlugin, ClearEventSink, AwaitWriter
<1> QED
  BY <1>0, <1>1, <1>2, <1>3, <1>4, <1>5, <1>6, <1>7, <1>8 DEF StreamNext, Writer

\* The stream's lines in their order, when lines are added to them.
LEMMA FlushOrder ==
  ASSUME StreamTypes, DefInv, FlushDefs
  PROVE  DefBeforePoint'
<1> DEFINE l == [i \in 1..Len(defs) |-> Line("Metric", defs[i])]
<1>1. /\ l \in Seq(Lines) /\ Len(l) = Len(defs) /\ Len(out) \in Nat /\ Len(defs) \in Nat
      /\ \A i \in 1..Len(defs) : l[i] = Line("Metric", defs[i]) /\ defs[i] \in Metrics
  BY LinesOf DEF StreamTypes
<1>2. out' = out \o l
  BY DEF FlushDefs
<1> HIDE DEF l
<1>3. /\ Len(out') = Len(out) + Len(defs)
      /\ \A i \in 1..Len(out) : out'[i] = out[i]
      /\ \A i \in 1..Len(defs) : out'[Len(out) + i] = Line("Metric", defs[i])
  <2>1. out \in Seq(Lines)
    BY DEF StreamTypes
  <2>2. /\ Len(out \o l) = Len(out) + Len(l)
        /\ \A i \in 1..Len(out) : (out \o l)[i] = out[i]
        /\ \A i \in 1..Len(l) : (out \o l)[Len(out) + i] = l[i]
    <3>1. l \in Seq(Lines)
      BY <1>1
    <3> QED
      BY <2>1, <3>1, InConcat
  <2> QED
    BY <1>1, <1>2, <2>2
<1>4. ASSUME NEW i \in 1..Len(out')
      PROVE  IF out'[i][1] = "Point"
             THEN \E j \in 1..i - 1 : out'[j] = Line("Metric", out'[i][2])
             ELSE \A j \in 1..i - 1 : out'[j] # out'[i]
  <2>1. CASE i <= Len(out)
    <3>1. Len(out) \in Nat /\ Len(out') \in Nat
      BY <1>1, <1>3
    <3>2. i \in 1..Len(out) /\ \A j \in 1..i - 1 : j \in 1..Len(out)
      BY <2>1, <3>1
    <3>3. /\ i \in 1..Len(out) /\ out'[i] = out[i] /\ \A j \in 1..i - 1 : out'[j] = out[j]
      BY <1>3, <3>2, Zenon
    <3> QED
      BY <3>3 DEF DefInv, DefBeforePoint
  <2>2. CASE i > Len(out)
    <3>1. i - Len(out) \in 1..Len(defs) /\ Len(out) + (i - Len(out)) = i
      BY <1>1, <1>3, <2>2
    <3> DEFINE k == i - Len(out)
    <3>2. out'[i] = Line("Metric", defs[k]) /\ defs[k] \in Metrics /\ In(defs, defs[k])
      BY <1>1, <1>3, <3>1 DEF In
    <3>3. ASSUME NEW j \in 1..i - 1 PROVE out'[j] # out'[i]
      <4>1. CASE j <= Len(out)
        <5>1. j \in 1..Len(out) /\ out'[j] = out[j]
          BY <1>1, <1>3, <4>1
        <5>2. ~In(out, Line("Metric", defs[k]))
          BY <3>2 DEF DefInv, Defined
        <5> QED
          BY <3>2, <5>1, <5>2 DEF In
      <4>2. CASE j > Len(out)
        <5>1. j - Len(out) \in 1..Len(defs) /\ Len(out) + (j - Len(out)) = j /\ j - Len(out) # k
          BY <1>1, <3>1, <4>2
        <5>2. out'[j] = Line("Metric", defs[j - Len(out)])
          BY <1>3, <5>1
        <5>3. defs[j - Len(out)] # defs[k]
          BY <3>1, <5>1 DEF DefInv, Distinct
        <5> QED
          BY <3>2, <5>2, <5>3 DEF Line
      <4> QED
        BY <1>1, <3>1, <4>1, <4>2
    <3>4. out'[i][1] # "Point"
      BY <3>2 DEF Line
    <3> QED
      BY <3>3, <3>4
  <2> QED
    BY <1>1, <1>3, <2>1, <2>2
<1> QED
  BY <1>4 DEF DefBeforePoint

LEMMA PointOrder ==
  ASSUME StreamTypes, DefInv, EmitPoints
  PROVE  DefBeforePoint'
<1> DEFINE l == [i \in 1..Len(batch) |-> Line("Point", batch[i])]
<1>1. /\ l \in Seq(Lines) /\ Len(l) = Len(batch) /\ Len(out) \in Nat /\ Len(batch) \in Nat
      /\ \A i \in 1..Len(batch) : l[i] = Line("Point", batch[i]) /\ batch[i] \in Metrics
  BY LinesOf DEF StreamTypes
<1>2. out' = out \o l /\ writer = "points"
  BY DEF EmitPoints
<1> HIDE DEF l
<1>3. /\ Len(out') = Len(out) + Len(batch)
      /\ \A i \in 1..Len(out) : out'[i] = out[i]
      /\ \A i \in 1..Len(batch) : out'[Len(out) + i] = Line("Point", batch[i])
  <2>1. out \in Seq(Lines)
    BY DEF StreamTypes
  <2>2. /\ Len(out \o l) = Len(out) + Len(l)
        /\ \A i \in 1..Len(out) : (out \o l)[i] = out[i]
        /\ \A i \in 1..Len(l) : (out \o l)[Len(out) + i] = l[i]
    <3>1. l \in Seq(Lines)
      BY <1>1
    <3> QED
      BY <2>1, <3>1, InConcat
  <2> QED
    BY <1>1, <1>2, <2>2
<1>4. ASSUME NEW i \in 1..Len(out')
      PROVE  IF out'[i][1] = "Point"
             THEN \E j \in 1..i - 1 : out'[j] = Line("Metric", out'[i][2])
             ELSE \A j \in 1..i - 1 : out'[j] # out'[i]
  <2>1. CASE i <= Len(out)
    <3>1. Len(out) \in Nat /\ Len(out') \in Nat
      BY <1>1, <1>3
    <3>2. i \in 1..Len(out) /\ \A j \in 1..i - 1 : j \in 1..Len(out)
      BY <2>1, <3>1
    <3>3. /\ i \in 1..Len(out) /\ out'[i] = out[i] /\ \A j \in 1..i - 1 : out'[j] = out[j]
      BY <1>3, <3>2, Zenon
    <3> QED
      BY <3>3 DEF DefInv, DefBeforePoint
  <2>2. CASE i > Len(out)
    <3>1. i - Len(out) \in 1..Len(batch) /\ Len(out) + (i - Len(out)) = i
      BY <1>1, <1>3, <2>2
    <3> DEFINE k == i - Len(out)
    <3>2. out'[i] = Line("Point", batch[k]) /\ batch[k] \in Metrics /\ In(batch, batch[k])
      BY <1>1, <1>3, <3>1 DEF In
    <3>3. In(out, Line("Metric", batch[k]))
      BY <1>2, <3>2 DEF DefInv, Defined
    <3>4. PICK j \in 1..Len(out) : out[j] = Line("Metric", batch[k])
      BY <3>3 DEF In
    <3>5. j \in 1..i - 1 /\ out'[j] = Line("Metric", batch[k])
      BY <1>1, <1>3, <2>2, <3>4
    <3>6. out'[i][1] = "Point" /\ out'[i][2] = batch[k]
      BY <3>2 DEF Line
    <3> QED
      BY <3>5, <3>6
  <2> QED
    BY <1>1, <1>3, <2>1, <2>2
<1> QED
  BY <1>4 DEF DefBeforePoint

\* Every step keeps each metric defined once, in time.
LEMMA DefStep == StreamTypes /\ DefInv /\ [StreamNext]_streamvars => DefInv'
<1> SUFFICES ASSUME StreamTypes, DefInv, [StreamNext]_streamvars PROVE DefInv'
  OBVIOUS
<1> DEFINE Same == UNCHANGED <<inSink, seen, defs, chan, batch, out>>
<1>0. CASE Same /\ (writer' = writer \/ writer' # "points")
  BY <1>0 DEF DefInv, Defined, DefBeforePoint
<1>1. ASSUME NEW p \in Producers, NEW m \in Metrics, QueueDef(p, m) PROVE DefInv'
  <2>1. /\ inSink' = [inSink EXCEPT ![p] = m] /\ seen' = seen \cup {m}
        /\ defs' = (IF m \in seen THEN defs ELSE Append(defs, m))
        /\ UNCHANGED <<chan, batch, out, writer>>
    BY <1>1 DEF QueueDef
  <2>2. /\ Distinct(defs') /\ \A n \in Metrics : In(defs', n) <=> In(defs, n) \/ (n = m /\ m \notin seen)
    <3>1. CASE m \in seen
      BY <2>1, <3>1 DEF DefInv
    <3>2. CASE m \notin seen
      <4>1. Distinct(defs) /\ ~In(defs, m) /\ defs \in Seq(Metrics)
        BY <3>2 DEF DefInv, StreamTypes
      <4> QED
        BY <2>1, <3>2, <4>1, AppendFacts
    <3> QED
      BY <3>1, <3>2
  <2>3. \A n \in Metrics : Defined(n)' <=> Defined(n)
    BY <2>1 DEF Defined
  <2>4. DefBeforePoint'
    BY <2>1 DEF DefInv, DefBeforePoint
  <2>5. \A r \in Producers : inSink'[r] # None => inSink'[r] \in seen'
    BY <2>1 DEF DefInv, StreamTypes
  <2>6. /\ \A n \in Metrics : n \in seen' <=> Defined(n)' \/ In(defs', n)
        /\ \A n \in Metrics : ~(Defined(n)' /\ In(defs', n))
    BY <2>1, <2>2, <2>3 DEF DefInv
  <2> QED
    BY <2>1, <2>2, <2>3, <2>4, <2>5, <2>6 DEF DefInv
<1>2. ASSUME NEW p \in Producers, TrySend(p) PROVE DefInv'
  <2>1. /\ inSink[p] \in Metrics /\ inSink[p] \in seen
        /\ inSink' = [inSink EXCEPT ![p] = None]
        /\ chan' \in {chan, Append(chan, inSink[p])}
        /\ UNCHANGED <<seen, defs, batch, out, writer>>
    BY <1>2 DEF TrySend, StreamTypes, DefInv
  <2>2. \A m \in Metrics : In(chan', m) => m \in seen
    <3>1. chan \in Seq(Metrics)
      BY DEF StreamTypes
    <3>2. \A v : In(Append(chan, inSink[p]), v) <=> In(chan, v) \/ v = inSink[p]
      BY <2>1, <3>1, InAppend
    <3> QED
      BY <2>1, <3>2 DEF DefInv
  <2>3. \A r \in Producers : inSink'[r] # None => inSink'[r] \in seen
    BY <2>1 DEF StreamTypes, DefInv
  <2>4. DefBeforePoint' /\ \A n \in Metrics : Defined(n)' <=> Defined(n)
    BY <2>1 DEF DefInv, DefBeforePoint, Defined
  <2> QED
    BY <2>1, <2>2, <2>3, <2>4 DEF DefInv
<1>3. CASE Recv
  <2>1. /\ chan # <<>> /\ batch' = Append(batch, Head(chan)) /\ chan' = Tail(chan)
        /\ writer = "accumulate" /\ UNCHANGED <<inSink, seen, defs, out, writer>>
    BY <1>3 DEF Recv
  <2>2. \A m \in Metrics : In(chan', m) \/ In(batch', m) => m \in seen
    <3>1. Head(chan) \in Metrics /\ In(chan, Head(chan)) /\ \A v : In(Tail(chan), v) => In(chan, v)
      BY <2>1, InTail DEF StreamTypes
    <3>2. \A v : In(Append(batch, Head(chan)), v) <=> In(batch, v) \/ v = Head(chan)
      BY <3>1, InAppend DEF StreamTypes
    <3> QED
      BY <2>1, <3>1, <3>2 DEF DefInv
  <2>3. DefBeforePoint' /\ \A n \in Metrics : Defined(n)' <=> Defined(n)
    BY <2>1 DEF DefInv, DefBeforePoint, Defined
  <2> QED
    BY <2>1, <2>2, <2>3 DEF DefInv
<1>4. CASE FlushDefs
  <2> DEFINE l == [i \in 1..Len(defs) |-> Line("Metric", defs[i])]
  <2>1. /\ out' = out \o l /\ defs' = <<>> /\ UNCHANGED <<inSink, seen, chan, batch>>
    BY <1>4 DEF FlushDefs
  <2>2. /\ l \in Seq(Lines) /\ Len(l) = Len(defs)
        /\ \A i \in 1..Len(defs) : l[i] = Line("Metric", defs[i])
    BY LinesOf DEF StreamTypes
  <2> HIDE DEF l
  <2>3. \A v : In(out \o l, v) <=> In(out, v) \/ In(l, v)
    <3>1. out \in Seq(Lines) /\ l \in Seq(Lines)
      BY <2>2 DEF StreamTypes
    <3> QED
      BY <3>1, InConcat
  <2>4. \A m \in Metrics : In(l, Line("Metric", m)) <=> In(defs, m)
    BY <2>2 DEF In, Line
  <2>5. \A m \in Metrics : Defined(m)' <=> Defined(m) \/ In(defs, m)
    BY <2>1, <2>3, <2>4 DEF Defined
  <2>6. Distinct(defs') /\ \A m \in Metrics : ~In(defs', m)
    BY <2>1 DEF Distinct, In
  <2>7. DefBeforePoint'
    BY <1>4, FlushOrder
  <2> QED
    BY <2>1, <2>5, <2>6, <2>7 DEF DefInv
<1>5. CASE EmitPoints
  <2> DEFINE l == [i \in 1..Len(batch) |-> Line("Point", batch[i])]
  <2>1. /\ out' = out \o l /\ batch' = <<>> /\ UNCHANGED <<inSink, seen, chan, defs>>
        /\ writer' # "points"
    BY <1>5 DEF EmitPoints
  <2>2. /\ l \in Seq(Lines) /\ Len(l) = Len(batch)
        /\ \A i \in 1..Len(batch) : l[i] = Line("Point", batch[i])
    BY LinesOf DEF StreamTypes
  <2> HIDE DEF l
  <2>3. \A v : In(out \o l, v) <=> In(out, v) \/ In(l, v)
    <3>1. out \in Seq(Lines) /\ l \in Seq(Lines)
      BY <2>2 DEF StreamTypes
    <3> QED
      BY <3>1, InConcat
  <2>4. \A m \in Metrics : ~In(l, Line("Metric", m))
    BY <2>2 DEF In, Line
  <2>5. \A m \in Metrics : Defined(m)' <=> Defined(m)
    BY <2>1, <2>3, <2>4 DEF Defined
  <2>6. \A m \in Metrics : ~In(batch', m)
    BY <2>1 DEF In
  <2>7. DefBeforePoint'
    BY <1>5, PointOrder
  <2> QED
    BY <2>1, <2>5, <2>6, <2>7 DEF DefInv
<1>6. CASE CreateFile \/ EndWindow \/ SeeClosed \/ WriteSidecar
  BY <1>0, <1>6 DEF CreateFile, EndWindow, SeeClosed, WriteSidecar
<1>7. CASE IoError
  <2>1. /\ chan' = <<>> /\ batch' = <<>> /\ writer' = "failed" /\ UNCHANGED <<inSink, seen, defs, out>>
    BY <1>7 DEF IoError
  <2>2. \A m \in Metrics : ~In(chan', m) /\ ~In(batch', m)
    BY <2>1 DEF In
  <2>3. DefBeforePoint' /\ \A n \in Metrics : Defined(n)' <=> Defined(n)
    BY <2>1 DEF DefInv, DefBeforePoint, Defined
  <2> QED
    BY <2>1, <2>2, <2>3 DEF DefInv
<1>8. CASE StopPlugin \/ ClearEventSink \/ AwaitWriter \/ StreamFinished \/ UNCHANGED streamvars
  BY <1>0, <1>8 DEF StopPlugin, ClearEventSink, AwaitWriter, StreamFinished, streamvars
<1> QED
  BY <1>1, <1>2, <1>3, <1>4, <1>5, <1>6, <1>7, <1>8 DEF StreamNext, Writer

\* The stream starts empty.
LEMMA StreamStart == StreamInit => StreamTypes /\ DefInv
<1> SUFFICES ASSUME StreamInit PROVE StreamTypes /\ DefInv
  OBVIOUS
<1>1. StreamTypes
  BY DEF StreamInit, StreamTypes
<1>2. DefInv
  BY DEF StreamInit, DefInv, DefBeforePoint, Defined, Distinct, In
<1> QED
  BY <1>1, <1>2

\* Every metric is defined exactly once in the stream, before its first point.
THEOREM DefinitionsSound == StreamSpec => []DefBeforePoint
<1>1. DefInv => DefBeforePoint
  BY DEF DefInv
<1> QED
  BY <1>1, StreamStart, StreamTypesStep, DefStep, PTL DEF StreamSpec

Sink(m) == {p \in Producers : inSink[p] = m}
Written(m) == Occurs(out, Line("Point", m))

\* Where a sample of m is.
Ledger(m) == samples[m] = Written(m) + drops[m] + Occurs(chan, m) + Occurs(batch, m)
                          + Cardinality(Sink(m))

\* Once the registry dropped its sender no producer is in the sink; the writer
\* saw the channel closed only then, drained; and it exits with everything
\* written and the drops in the sidecar.
CloseInv ==
  /\ writer # "failed"
  /\ installed <=> main \in {"running", "stopping"}
  /\ ~installed => \A p \in Producers : inSink[p] = None
  /\ channelClosed => ~installed /\ chan = <<>>
  /\ writer \in {"sidecar", "exited"} => channelClosed /\ batch = <<>>
  /\ writer = "exited" => sidecar = <<drops>>
  /\ main = "joined" => writer = "exited"

StreamGood == ~ioErrors => CloseInv /\ \A m \in Metrics : Ledger(m)

\* The parts of the balance are numbers.
LEMMA LedgerTypes ==
  ASSUME StreamTypes, NEW m \in Metrics
  PROVE  /\ Written(m) \in Nat /\ drops[m] \in Nat /\ Occurs(chan, m) \in Nat
         /\ Occurs(batch, m) \in Nat /\ samples[m] \in Nat
         /\ IsFiniteSet(Sink(m)) /\ Cardinality(Sink(m)) \in Nat
<1>1. out \in Seq(Lines) /\ chan \in Seq(Metrics) /\ batch \in Seq(Metrics)
  BY DEF StreamTypes
<1>2. Written(m) \in Nat /\ Occurs(chan, m) \in Nat /\ Occurs(batch, m) \in Nat
  BY <1>1, PlacesFinite DEF Written
<1>3. IsFiniteSet(Sink(m))
  BY StreamAssumption, FS_Subset DEF Sink
<1>4. Cardinality(Sink(m)) \in Nat
  BY <1>3, FS_CardinalityType
<1> QED
  BY <1>2, <1>3, <1>4 DEF StreamTypes

\* A batch that is written out leaves as many points as it held.
LEMMA BatchWritten ==
  ASSUME StreamTypes, NEW m \in Metrics, EmitPoints
  PROVE  Written(m)' = Written(m) + Occurs(batch, m)
<1> DEFINE l == [i \in 1..Len(batch) |-> Line("Point", batch[i])]
<1>1. out' = out \o l
  BY DEF EmitPoints
<1>2. /\ l \in Seq(Lines) /\ Len(l) = Len(batch)
      /\ \A i \in 1..Len(batch) : l[i] = Line("Point", batch[i])
  BY LinesOf DEF StreamTypes
<1> HIDE DEF l
<1>3. Places(l, Line("Point", m)) = Places(batch, m)
  BY <1>2 DEF Places, Line
<1>4. out \in Seq(Lines) /\ l \in Seq(Lines)
  BY <1>2 DEF StreamTypes
<1>5. Occurs(out \o l, Line("Point", m)) = Occurs(out, Line("Point", m)) + Occurs(l, Line("Point", m))
  BY <1>4, OccursConcat
<1> QED
  BY <1>1, <1>3, <1>5 DEF Written, Occurs

\* A definition is no point.
LEMMA DefsNoPoint ==
  ASSUME StreamTypes, NEW m \in Metrics, FlushDefs
  PROVE  Written(m)' = Written(m)
<1> DEFINE l == [i \in 1..Len(defs) |-> Line("Metric", defs[i])]
<1>1. out' = out \o l
  BY DEF FlushDefs
<1>2. /\ l \in Seq(Lines) /\ Len(l) = Len(defs)
      /\ \A i \in 1..Len(defs) : l[i] = Line("Metric", defs[i])
  BY LinesOf DEF StreamTypes
<1> HIDE DEF l
<1>3. Places(l, Line("Point", m)) = {}
  BY <1>2 DEF Places, Line
<1>4. out \in Seq(Lines) /\ l \in Seq(Lines)
  BY <1>2 DEF StreamTypes
<1>5. Occurs(out \o l, Line("Point", m)) = Occurs(out, Line("Point", m)) + Occurs(l, Line("Point", m))
  BY <1>4, OccursConcat
<1>6. Occurs(l, Line("Point", m)) = 0 /\ Written(m) \in Nat
  BY <1>3, FS_EmptySet, LedgerTypes DEF Occurs
<1> QED
  BY <1>1, <1>5, <1>6 DEF Written

\* Every step moves a sample or leaves it where it is.
LEMMA LedgerStep ==
  ASSUME StreamTypes, CloseInv, StreamNext, ~ioErrors, NEW m \in Metrics, Ledger(m)
  PROVE  Ledger(m)'
<1>t. /\ Written(m) \in Nat /\ drops[m] \in Nat /\ Occurs(chan, m) \in Nat
      /\ Occurs(batch, m) \in Nat /\ samples[m] \in Nat
      /\ IsFiniteSet(Sink(m)) /\ Cardinality(Sink(m)) \in Nat
  BY LedgerTypes
<1>0. CASE UNCHANGED <<inSink, samples, chan, batch, drops, out>>
  BY <1>0 DEF Ledger, Written, Sink
<1>1. ASSUME NEW p \in Producers, NEW n \in Metrics, QueueDef(p, n) PROVE Ledger(m)'
  <2>1. /\ inSink[p] = None /\ inSink' = [inSink EXCEPT ![p] = n]
        /\ samples' = [samples EXCEPT ![n] = @ + 1] /\ UNCHANGED <<chan, batch, drops, out>>
    BY <1>1 DEF QueueDef
  <2>2. Written(m)' = Written(m)
    BY <2>1 DEF Written
  <2>3. CASE n = m
    <3>1. Sink(m)' = Sink(m) \cup {p} /\ p \notin Sink(m)
      BY <2>1, <2>3, StreamAssumption DEF Sink, StreamTypes
    <3>2. Cardinality(Sink(m)') = Cardinality(Sink(m)) + 1
      BY <1>t, <3>1, FS_AddElement
    <3>3. samples'[m] = samples[m] + 1
      BY <2>1, <2>3 DEF StreamTypes
    <3> QED
      BY <1>t, <2>1, <2>2, <3>2, <3>3 DEF Ledger
  <2>4. CASE n # m
    <3>1. Sink(m)' = Sink(m) /\ samples'[m] = samples[m]
      BY <2>1, <2>4, StreamAssumption DEF Sink, StreamTypes
    <3> QED
      BY <2>1, <2>2, <3>1 DEF Ledger
  <2> QED
    BY <2>3, <2>4
<1>2. ASSUME NEW p \in Producers, TrySend(p) PROVE Ledger(m)'
  <2>1. inSink[p] \in Metrics /\ inSink' = [inSink EXCEPT ![p] = None] /\ inSink[p] # None
        /\ UNCHANGED <<samples, batch, out>>
    BY <1>2 DEF TrySend, StreamTypes
  <2>2. writer \notin {"exited", "failed"}
    BY <2>1 DEF CloseInv
  <2>3. \/ chan' = Append(chan, inSink[p]) /\ drops' = drops
        \/ drops' = [drops EXCEPT ![inSink[p]] = @ + 1] /\ chan' = chan
    BY <1>2, <2>2 DEF TrySend
  <2>4. Written(m)' = Written(m)
    BY <2>1 DEF Written
  <2>5. Occurs(Append(chan, inSink[p]), m) = Occurs(chan, m) + (IF inSink[p] = m THEN 1 ELSE 0)
    <3>1. chan \in Seq(Metrics)
      BY DEF StreamTypes
    <3> QED
      BY <2>1, <3>1, OccursAppend
  <2>6. CASE inSink[p] = m
    <3>1. Sink(m)' = Sink(m) \ {p} /\ p \in Sink(m)
      BY <2>1, <2>6, StreamAssumption DEF Sink, StreamTypes
    <3>2. Cardinality(Sink(m)') = Cardinality(Sink(m)) - 1
      BY <1>t, <3>1, FS_RemoveElement
    <3>3. CASE chan' = Append(chan, inSink[p]) /\ drops' = drops
      <4>1. Occurs(chan', m) = Occurs(chan, m) + 1
        BY <2>5, <2>6, <3>3
      <4>2. samples' = samples /\ batch' = batch /\ drops' = drops
        BY <2>1, <3>3
      <4> QED
        BY <1>t, <2>4, <3>2, <4>1, <4>2 DEF Ledger
    <3>4. CASE drops' = [drops EXCEPT ![inSink[p]] = @ + 1] /\ chan' = chan
      <4>1. drops'[m] = drops[m] + 1
        BY <2>6, <3>4 DEF StreamTypes
      <4>2. samples' = samples /\ batch' = batch
        BY <2>1
      <4> QED
        BY <1>t, <2>4, <3>2, <3>4, <4>1, <4>2 DEF Ledger
    <3> QED
      BY <2>3, <3>3, <3>4
  <2>7. CASE inSink[p] # m
    <3>1. Sink(m)' = Sink(m)
      BY <2>1, <2>7, StreamAssumption DEF Sink, StreamTypes
    <3>2. Occurs(Append(chan, inSink[p]), m) = Occurs(chan, m)
      BY <1>t, <2>5, <2>7
    <3>3. drops'[m] = drops[m]
      BY <2>3, <2>7 DEF StreamTypes
    <3>4. Occurs(chan', m) = Occurs(chan, m)
      BY <2>3, <3>2
    <3> QED
      BY <2>1, <2>4, <3>1, <3>3, <3>4 DEF Ledger
  <2> QED
    BY <2>6, <2>7
<1>3. CASE Recv
  <2>1. /\ chan # <<>> /\ batch' = Append(batch, Head(chan)) /\ chan' = Tail(chan)
        /\ UNCHANGED <<inSink, samples, drops, out>>
    BY <1>3 DEF Recv
  <2>2. chan \in Seq(Metrics) /\ batch \in Seq(Metrics)
    BY DEF StreamTypes
  <2>3. Head(chan) \in Metrics /\ Tail(chan) \in Seq(Metrics)
    BY <2>1, <2>2, InTail
  <2>4. Occurs(batch', m) = Occurs(batch, m) + (IF Head(chan) = m THEN 1 ELSE 0)
    BY <2>1, <2>2, <2>3, OccursAppend
  <2>5. Occurs(chan, m) = Occurs(chan', m) + (IF Head(chan) = m THEN 1 ELSE 0)
    BY <2>1, <2>2, OccursTail
  <2>6. Occurs(chan', m) \in Nat
    BY <2>1, <2>3, PlacesFinite
  <2>7. Occurs(batch', m) + Occurs(chan', m) = Occurs(batch, m) + Occurs(chan, m) /\ Occurs(batch', m) \in Nat
    BY <1>t, <2>4, <2>5, <2>6
  <2>8. Written(m)' = Written(m) /\ Sink(m)' = Sink(m) /\ samples' = samples /\ drops' = drops
    BY <2>1 DEF Written, Sink
  <2>9. samples[m] = Written(m) + drops[m] + Occurs(chan', m) + Occurs(batch', m) + Cardinality(Sink(m))
    BY <1>t, <2>6, <2>7 DEF Ledger
  <2> QED
    BY <2>8, <2>9 DEF Ledger
<1>4. CASE FlushDefs
  <2>1. UNCHANGED <<inSink, samples, chan, batch, drops>>
    BY <1>4 DEF FlushDefs
  <2>2. Written(m)' = Written(m) /\ Sink(m)' = Sink(m)
    BY <1>4, <2>1, DefsNoPoint DEF Sink
  <2> QED
    BY <2>1, <2>2 DEF Ledger
<1>5. CASE EmitPoints
  <2>1. batch' = <<>> /\ UNCHANGED <<inSink, samples, chan, drops>>
    BY <1>5 DEF EmitPoints
  <2>2. Written(m)' = Written(m) + Occurs(batch, m) /\ Sink(m)' = Sink(m)
    BY <1>5, <2>1, BatchWritten DEF Sink
  <2>3. Occurs(batch', m) = 0
    BY <2>1, OccursEmpty
  <2> QED
    BY <1>t, <2>1, <2>2, <2>3 DEF Ledger
<1>6. CASE CreateFile \/ EndWindow \/ SeeClosed \/ WriteSidecar
  BY <1>0, <1>6 DEF CreateFile, EndWindow, SeeClosed, WriteSidecar
<1>7. CASE IoError
  BY <1>7 DEF IoError
<1>8. CASE StopPlugin \/ ClearEventSink \/ AwaitWriter \/ StreamFinished
  BY <1>0, <1>8 DEF StopPlugin, ClearEventSink, AwaitWriter, StreamFinished, streamvars
<1> QED
  BY <1>1, <1>2, <1>3, <1>4, <1>5, <1>6, <1>7, <1>8 DEF StreamNext, Writer

\* Every step keeps the order of the shutdown.
LEMMA CloseStep ==
  ASSUME CloseInv, StreamNext, ~ioErrors
  PROVE  CloseInv'
<1>1. ASSUME NEW p \in Producers, NEW n \in Metrics, QueueDef(p, n) PROVE CloseInv'
  <2>1. /\ installed
        /\ UNCHANGED <<chan, batch, drops, writer, channelClosed, sidecar, installed, main>>
    BY <1>1 DEF QueueDef
  <2> QED
    BY <2>1 DEF CloseInv
<1>2. ASSUME NEW p \in Producers, TrySend(p) PROVE CloseInv'
  <2>1. /\ inSink[p] # None /\ UNCHANGED <<batch, writer, channelClosed, sidecar, installed, main>>
    BY <1>2 DEF TrySend
  <2>2. installed
    BY <2>1 DEF CloseInv
  <2> QED
    BY <2>1, <2>2 DEF CloseInv
<1>3. CASE Recv
  <2>1. /\ chan # <<>> /\ writer = "accumulate"
        /\ UNCHANGED <<inSink, drops, writer, channelClosed, sidecar, installed, main>>
    BY <1>3 DEF Recv
  <2> QED
    BY <2>1 DEF CloseInv
<1>4. CASE FlushDefs
  BY <1>4 DEF FlushDefs, CloseInv
<1>5. CASE EmitPoints
  BY <1>5 DEF EmitPoints, CloseInv
<1>6. CASE CreateFile \/ EndWindow \/ WriteSidecar
  BY <1>6 DEF CreateFile, EndWindow, WriteSidecar, CloseInv
<1>7. CASE SeeClosed
  BY <1>7 DEF SeeClosed, CloseInv
<1>8. CASE IoError
  BY <1>8 DEF IoError
<1>9. CASE StopPlugin \/ ClearEventSink \/ AwaitWriter
  BY <1>9 DEF StopPlugin, ClearEventSink, AwaitWriter, CloseInv
<1>10. CASE StreamFinished
  BY <1>10 DEF StreamFinished, streamvars, CloseInv
<1> QED
  BY <1>1, <1>2, <1>3, <1>4, <1>5, <1>6, <1>7, <1>8, <1>9, <1>10 DEF StreamNext, Writer

LEMMA StreamGoodStep == StreamTypes /\ StreamGood /\ [StreamNext]_streamvars => StreamGood'
<1> SUFFICES ASSUME StreamTypes, StreamGood, [StreamNext]_streamvars, ~ioErrors'
             PROVE  CloseInv' /\ \A m \in Metrics : Ledger(m)'
  BY DEF StreamGood
<1>1. CASE UNCHANGED streamvars
  BY <1>1 DEF streamvars, StreamGood, CloseInv, Ledger, Written, Sink
<1>2. CASE StreamNext
  <2>1. ioErrors' = ioErrors
    BY <1>2 DEF StreamNext, Writer, QueueDef, TrySend, Recv, CreateFile, EndWindow, SeeClosed,
                FlushDefs, EmitPoints, WriteSidecar, IoError, StopPlugin, ClearEventSink,
                AwaitWriter, StreamFinished, streamvars
  <2> QED
    BY <1>2, <2>1, CloseStep, LedgerStep DEF StreamGood
<1> QED
  BY <1>1, <1>2

\* Every sample is written, counted as dropped for its metric, or on its way;
\* after the run all of them are written or in the sidecar's counts.
THEOREM StreamSound == StreamSpec => []SamplesAccounted
<1>1. StreamInit => StreamGood
  <2> SUFFICES ASSUME StreamInit PROVE StreamGood
    OBVIOUS
  <2>1. ASSUME NEW m \in Metrics PROVE Ledger(m)
    <3>1. Sink(m) = {} /\ samples[m] = 0 /\ drops[m] = 0 /\ out = <<>> /\ chan = <<>> /\ batch = <<>>
      BY StreamAssumption DEF StreamInit, Sink
    <3>2. Cardinality(Sink(m)) = 0 /\ Written(m) = 0 /\ Occurs(chan, m) = 0 /\ Occurs(batch, m) = 0
      BY <3>1, FS_EmptySet, OccursEmpty DEF Written
    <3> QED
      BY <3>1, <3>2 DEF Ledger
  <2>2. CloseInv
    BY DEF StreamInit, CloseInv
  <2> QED
    BY <2>1, <2>2 DEF StreamGood
<1>2. StreamTypes /\ StreamGood => SamplesAccounted
  <2> SUFFICES ASSUME StreamTypes, StreamGood, ~ioErrors
               PROVE  /\ \A m \in Metrics :
                           samples[m] = HowMany(out, Line("Point", m)) + drops[m] + Pending(m)
                      /\ main = "joined" => sidecar = <<drops>> /\ \A m \in Metrics : Pending(m) = 0
    BY DEF SamplesAccounted
  <2>1. CloseInv /\ \A m \in Metrics : Ledger(m)
    BY DEF StreamGood
  <2>2. ASSUME NEW m \in Metrics
        PROVE  /\ HowMany(out, Line("Point", m)) = Written(m)
               /\ Pending(m) = Occurs(chan, m) + Occurs(batch, m) + Cardinality(Sink(m))
    BY DEF HowMany, Pending, Written, Occurs, Places, Sink
  <2>3. ASSUME NEW m \in Metrics
        PROVE  samples[m] = HowMany(out, Line("Point", m)) + drops[m] + Pending(m)
    <3>1. /\ Written(m) \in Nat /\ drops[m] \in Nat /\ Occurs(chan, m) \in Nat
          /\ Occurs(batch, m) \in Nat /\ Cardinality(Sink(m)) \in Nat
      BY LedgerTypes
    <3> QED
      BY <2>1, <2>2, <3>1 DEF Ledger
  <2>4. ASSUME main = "joined" PROVE sidecar = <<drops>> /\ \A m \in Metrics : Pending(m) = 0
    <3>1. /\ sidecar = <<drops>> /\ chan = <<>> /\ batch = <<>>
          /\ \A p \in Producers : inSink[p] = None
      BY <2>1, <2>4 DEF CloseInv
    <3>2. ASSUME NEW m \in Metrics PROVE Pending(m) = 0
      <4>1. Sink(m) = {}
        BY <3>1, StreamAssumption DEF Sink
      <4>2. Cardinality(Sink(m)) = 0 /\ Occurs(chan, m) = 0 /\ Occurs(batch, m) = 0
        BY <3>1, <4>1, FS_EmptySet, OccursEmpty
      <4> QED
        BY <2>2, <4>2
    <3> QED
      BY <3>1, <3>2
  <2> QED
    BY <2>3, <2>4
<1> QED
  BY <1>1, <1>2, StreamStart, StreamTypesStep, StreamGoodStep, PTL DEF StreamSpec

-----------------------------------------------------------------------------
(* WebSocket sessions, for every number of connects and of frames.          *)

WsFrame == WsFrames \cup LastFrames
WsStates == {"none", "running", "done", "aborted"}

\* The domains of the sessions' state.
WsTypes ==
  /\ cur \in Nat
  /\ place \in [WsSessionIds -> {"none", "op", "registry", "gone"}]
  /\ read_task \in [WsSessionIds -> WsStates] /\ write_task \in [WsSessionIds -> WsStates]
  /\ ended \in [WsSessionIds -> {"", "script", "peer", "throw", "drop"}]
  /\ evts \in [WsSessionIds -> Seq(WsFrame)] /\ inbox \in [WsSessionIds -> Seq(WsFrame)]
  /\ peer \in [WsSessionIds -> Seq(WsFrame)] /\ dispatched \in [WsSessionIds -> Seq(WsFrame)]

InConnect == stage \notin {"idle", "dropped"}

\* Where a session can be: a running task belongs to a session that the
\* registry or the pending operation holds, one that the connect in progress
\* holds is in the registry once it is open, and a connect that returned by
\* itself left its session to __ws_cleanup.
PlaceOf(s) ==
  /\ s > cur => place[s] = "none" /\ ended[s] = ""
  /\ place[s] = "op" => s = cur /\ stage = "opening"
  /\ place[s] = "none" => read_task[s] = "none" /\ write_task[s] = "none"
  /\ place[s] \in {"op", "registry"} => read_task[s] \in {"running", "done"}
  /\ place[s] = "gone" => read_task[s] # "running" /\ write_task[s] # "running"
  /\ (ended[s] \in {"script", "peer"} /\ place[s] \in {"op", "registry"}) =>
       s = cur /\ stage = "onclose"

\* Where the script and the session of its connect are.
ScriptAt ==
  /\ InConnect => cur \in WsSessionIds
  /\ nested => InConnect /\ stage \notin {"opening", "recv"}
  /\ InConnect /\ stage # "opening" => place[cur] = "registry"
  /\ stage = "opening" => ended[cur] = "" /\ place[cur] \in {"none", "op"}
  /\ stage = "dropped" => \A s \in WsSessionIds : place[s] \notin {"op", "registry"}

WsPlaces == ScriptAt /\ \A s \in WsSessionIds : PlaceOf(s)

\* What a peer sent (P) is, from the first frame on, dispatched (D), in the event
\* channel (E) or on the socket (B), except for an end of stream that was read.
FlowOf(D, E, B, P, task, end) ==
  /\ \/ Len(P) = Len(D) + Len(E) + Len(B)
     \/ /\ Len(P) = Len(D) + Len(E) + 1 /\ Len(B) = 0
        /\ P[Len(P)] = "eof" /\ task # "running"
  /\ \A i \in 1..Len(D) : D[i] = P[i]
  /\ \A i \in 1..Len(E) : E[i] = P[Len(D) + i]
  /\ \A i \in 1..Len(B) : B[i] = P[Len(D) + Len(E) + i]
  /\ \A i \in 1..Len(P) : i < Len(P) => P[i] \notin LastFrames
  /\ task = "running" => \A i \in 1..Len(P) : i <= Len(D) + Len(E) => P[i] \notin LastFrames
  /\ task = "done" => Len(B) = 0
  /\ task = "none" => Len(P) = 0
  /\ end = "peer" => task # "running" /\ \A i \in 1..Len(P) : P[i] \in WsFrames => i <= Len(D)

Flow(s) == FlowOf(dispatched[s], evts[s], inbox[s], peer[s], read_task[s], ended[s])

\* The error handlers run when the error was the last event.
ErrorLast ==
  stage = "errhandler" =>
    /\ dispatched[cur] # <<>>
    /\ dispatched[cur][Len(dispatched[cur])] = "error"

WsFlow == ErrorLast /\ \A s \in WsSessionIds : Flow(s)

\* Every step keeps the types of the sessions' state.
LEMMA WsTypesStep == WsTypes /\ WsPlaces /\ [WsNext]_wsvars => WsTypes'
<1> SUFFICES ASSUME WsTypes, WsPlaces, [WsNext]_wsvars PROVE WsTypes'
  OBVIOUS
<1> USE DEF WsTypes, WsStates, ws_tasks, ws_ghosts, ws_script
<1>0. CASE UNCHANGED wsvars
  BY <1>0 DEF wsvars
<1>1. CASE WsOpen \/ HandlerBlocks \/ HandlerResumes \/ RecvTimeout
  <2>1. /\ cur' \in {cur, cur + 1}
        /\ UNCHANGED <<place, read_task, write_task, ended, evts, inbox, peer, dispatched>>
    BY <1>1 DEF WsOpen, HandlerBlocks, HandlerResumes, RecvTimeout
  <2>2. cur' \in Nat
    <3>1. cur \in Nat /\ cur' \in {cur, cur + 1}
      BY <2>1
    <3> QED
      BY ONLY <3>1
  <2> QED
    BY <2>1, <2>2
<1>2. CASE SocketSend \/ SocketClose
  BY <1>2 DEF SocketSend, SocketClose
<1>3. CASE ConnectFails \/ HandlerThrows \/ RecvClosed
  <2>1. /\ \/ ended' = [ended EXCEPT ![cur] = "throw"]
           \/ ended' = [ended EXCEPT ![cur] = "peer"]
        /\ UNCHANGED <<cur, place, read_task, write_task, evts, inbox, peer, dispatched>>
    BY <1>3 DEF ConnectFails, HandlerThrows, RecvClosed
  <2> QED
    BY <2>1
<1>4. CASE Connected \/ Opened
  BY <1>4 DEF Connected, Opened
<1>5. CASE StageEnds
  <2>1. /\ ended' = [ended EXCEPT ![cur] = IF shim_closed THEN "script"
                                           ELSE IF shim_closed' THEN "peer" ELSE @]
        /\ UNCHANGED <<cur, place, read_task, write_task, evts, inbox, peer, dispatched>>
    BY <1>5 DEF StageEnds
  <2> QED
    BY <2>1
<1>6. CASE Cleanup \/ VuDropped
  <2>1. PICK S : DropSessions(S)
    BY <1>6 DEF Cleanup, VuDropped
  <2>2. /\ place' \in [WsSessionIds -> {"none", "op", "registry", "gone"}]
        /\ read_task' \in [WsSessionIds -> WsStates] /\ write_task' \in [WsSessionIds -> WsStates]
    BY <2>1 DEF DropSessions, Aborted
  <2>3. ended' \in [WsSessionIds -> {"", "script", "peer", "throw", "drop"}]
    BY <1>6 DEF Cleanup, VuDropped
  <2>4. UNCHANGED <<cur, evts, inbox, peer, dispatched>>
    BY <1>6 DEF Cleanup, VuDropped
  <2> QED
    BY <2>2, <2>3, <2>4
<1>7. CASE RecvEvent
  <2>1. cur \in WsSessionIds
    BY <1>7 DEF RecvEvent, WsPlaces, ScriptAt, InConnect
  <2>2. evts[cur] \in Seq(WsFrame) /\ evts[cur] # <<>> /\ dispatched[cur] \in Seq(WsFrame)
    BY <1>7, <2>1 DEF RecvEvent
  <2>3. /\ Tail(evts[cur]) \in Seq(WsFrame)
        /\ Append(dispatched[cur], Head(evts[cur])) \in Seq(WsFrame)
    BY <2>2, InTail, InAppend
  <2>4. /\ evts' = [evts EXCEPT ![cur] = Tail(evts[cur])]
        /\ dispatched' = [dispatched EXCEPT ![cur] = Append(dispatched[cur], Head(evts[cur]))]
        /\ ended' = [ended EXCEPT ![cur] = IF Head(evts[cur]) = "close" THEN "peer" ELSE @]
        /\ UNCHANGED <<cur, place, read_task, write_task, inbox, peer>>
    BY <1>7 DEF RecvEvent
  <2>5. ended' \in [WsSessionIds -> {"", "script", "peer", "throw", "drop"}]
    BY <2>4
  <2> QED
    BY <2>3, <2>4, <2>5
<1>8. ASSUME NEW s \in WsSessionIds, ReadTask(s) PROVE WsTypes'
  <2>1. inbox[s] \in Seq(WsFrame) /\ inbox[s] # <<>> /\ evts[s] \in Seq(WsFrame)
    BY <1>8 DEF ReadTask
  <2>2. /\ Tail(inbox[s]) \in Seq(WsFrame)
        /\ Append(evts[s], Head(inbox[s])) \in Seq(WsFrame)
    BY <2>1, InTail, InAppend
  <2>3. /\ evts' = [evts EXCEPT ![s] = IF Head(inbox[s]) = "eof" THEN evts[s]
                                       ELSE Append(evts[s], Head(inbox[s]))]
        /\ inbox' = [inbox EXCEPT ![s] = Tail(inbox[s])]
        /\ read_task' = [read_task EXCEPT ![s] = IF Head(inbox[s]) \in LastFrames THEN "done" ELSE @]
        /\ UNCHANGED <<cur, place, write_task, ended, peer, dispatched>>
    BY <1>8 DEF ReadTask
  <2>4. evts' \in [WsSessionIds -> Seq(WsFrame)]
    BY <2>1, <2>2, <2>3
  <2>5. read_task' \in [WsSessionIds -> WsStates]
    BY <2>3
  <2> QED
    BY <2>2, <2>3, <2>4, <2>5
<1>9. ASSUME NEW s \in WsSessionIds, WriteTask(s) PROVE WsTypes'
  <2>1. write_task' \in [WsSessionIds -> WsStates]
    BY <1>9 DEF WriteTask
  <2> QED
    BY <1>9, <2>1 DEF WriteTask
<1>10. ASSUME NEW s \in WsSessionIds, NEW f \in WsFrame, PeerSends(s, f) PROVE WsTypes'
  <2>1. Append(peer[s], f) \in Seq(WsFrame) /\ Append(inbox[s], f) \in Seq(WsFrame)
    BY InAppend
  <2> QED
    BY <1>10, <2>1 DEF PeerSends
<1> QED
  BY <1>0, <1>1, <1>2, <1>3, <1>4, <1>5, <1>6, <1>7, <1>8, <1>9, <1>10
     DEF WsNext, WsScriptStep, WsFrame

\* Every step keeps the sessions where they belong.
LEMMA WsPlacesStep == WsTypes /\ WsPlaces /\ [WsNext]_wsvars => WsPlaces'
<1> SUFFICES ASSUME WsTypes, WsPlaces, [WsNext]_wsvars PROVE WsPlaces'
  OBVIOUS
<1> USE DEF InConnect, ws_tasks, ws_ghosts, ws_script
<1>a. \A s \in WsSessionIds : s \in Nat \ {0}
  BY WsAssumption
<1>n. cur \in Nat /\ ~(cur > cur)
  <2>1. cur \in Nat
    BY DEF WsTypes
  <2> QED
    BY <2>1
<1>0. CASE UNCHANGED <<nested, cur, stage, place, read_task, write_task, ended>>
  BY <1>0 DEF WsPlaces, ScriptAt, PlaceOf
<1>1. CASE UNCHANGED wsvars \/ SocketSend \/ SocketClose
  BY <1>0, <1>1 DEF wsvars, SocketSend, SocketClose
<1>2. CASE WsOpen
  <2>1. /\ stage = "idle" /\ cur + 1 \in WsSessionIds /\ cur' = cur + 1 /\ stage' = "opening"
        /\ UNCHANGED <<nested, place, read_task, write_task, ended>>
    BY <1>2 DEF WsOpen
  <2>2. cur' > cur /\ \A s \in WsSessionIds : s > cur' => s > cur
    BY <1>a, <1>n, <2>1
  <2>3. place[cur'] = "none" /\ ended[cur'] = "" /\ cur' \in WsSessionIds
    BY <2>1, <2>2 DEF WsPlaces, ScriptAt, PlaceOf
  <2> QED
    BY <1>n, <2>1, <2>2, <2>3 DEF WsPlaces, ScriptAt, PlaceOf
<1>3. CASE ConnectFails
  <2>1. /\ stage = "opening" /\ place[cur] = "none" /\ stage' = "idle"
        /\ ended' = [ended EXCEPT ![cur] = "throw"]
        /\ UNCHANGED <<nested, cur, place, read_task, write_task>>
    BY <1>3 DEF ConnectFails
  <2>2. cur \in WsSessionIds /\ ~nested
    BY <2>1 DEF WsPlaces, ScriptAt, PlaceOf
  <2>3. \A s \in WsSessionIds : ended'[s] = IF s = cur THEN "throw" ELSE ended[s]
    BY <2>1 DEF WsTypes
  <2>4. ScriptAt'
    BY <2>1, <2>2, <2>3 DEF WsPlaces, ScriptAt
  <2>5. ASSUME NEW s \in WsSessionIds PROVE PlaceOf(s)'
    <3>0. PlaceOf(s) /\ ScriptAt
      BY DEF WsPlaces
    <3>1. CASE s = cur
      <4>1. PlaceOf(cur)'
        BY <1>n, <2>1, <2>2, <2>3, <3>0, <3>1 DEF PlaceOf, ScriptAt
      <4> QED
        BY <2>1, <3>1, <4>1
    <3>2. CASE s # cur
      BY <2>1, <2>3, <3>0, <3>2 DEF PlaceOf
    <3> QED
      BY <3>1, <3>2
  <2> QED
    BY <2>4, <2>5 DEF WsPlaces
<1>4. CASE Connected
  <2>1. /\ stage = "opening" /\ place[cur] = "none"
        /\ place' = [place EXCEPT ![cur] = "op"]
        /\ read_task' = [read_task EXCEPT ![cur] = "running"]
        /\ write_task' = [write_task EXCEPT ![cur] = "running"]
        /\ UNCHANGED <<nested, cur, stage, ended>>
    BY <1>4 DEF Connected
  <2>2. cur \in WsSessionIds
    BY <2>1 DEF WsPlaces, ScriptAt, PlaceOf
  <2>3. /\ \A s \in WsSessionIds : place'[s] = IF s = cur THEN "op" ELSE place[s]
        /\ \A s \in WsSessionIds : read_task'[s] = IF s = cur THEN "running" ELSE read_task[s]
        /\ \A s \in WsSessionIds : write_task'[s] = IF s = cur THEN "running" ELSE write_task[s]
    BY <2>1 DEF WsTypes
  <2>4. ScriptAt'
    BY <2>1, <2>2, <2>3 DEF WsPlaces, ScriptAt
  <2>5. ASSUME NEW s \in WsSessionIds PROVE PlaceOf(s)'
    <3>0. PlaceOf(s) /\ ScriptAt
      BY DEF WsPlaces
    <3>1. CASE s = cur
      <4>1. /\ place'[s] = "op" /\ read_task'[s] = "running" /\ ended'[s] = ""
            /\ cur' = cur /\ stage' = "opening"
        BY <2>1, <2>2, <2>3, <3>0, <3>1 DEF ScriptAt
      <4> QED
        BY <1>n, <3>1, <4>1 DEF PlaceOf
    <3>2. CASE s # cur
      BY <2>1, <2>3, <3>0, <3>2 DEF PlaceOf
    <3> QED
      BY <3>1, <3>2
  <2> QED
    BY <2>4, <2>5 DEF WsPlaces
<1>5. CASE Opened
  <2>1. /\ stage = "opening" /\ place[cur] = "op" /\ stage' = "callback"
        /\ place' = [place EXCEPT ![cur] = "registry"]
        /\ UNCHANGED <<nested, cur, read_task, write_task, ended>>
    BY <1>5 DEF Opened
  <2>2. cur \in WsSessionIds
    BY <2>1 DEF WsPlaces, ScriptAt, PlaceOf
  <2>3. \A s \in WsSessionIds : place'[s] = IF s = cur THEN "registry" ELSE place[s]
    BY <2>1 DEF WsTypes
  <2>4. ScriptAt'
    BY <2>1, <2>2, <2>3 DEF WsPlaces, ScriptAt
  <2>5. ASSUME NEW s \in WsSessionIds PROVE PlaceOf(s)'
    <3>0. PlaceOf(s) /\ ScriptAt
      BY DEF WsPlaces
    <3>1. CASE s = cur
      <4>1. /\ place'[s] = "registry" /\ read_task'[s] \in {"running", "done"} /\ ended'[s] = ""
            /\ cur' = cur /\ stage' = "callback"
        BY <2>1, <2>2, <2>3, <3>0, <3>1 DEF ScriptAt, PlaceOf
      <4> QED
        BY <1>n, <3>1, <4>1 DEF PlaceOf
    <3>2. CASE s # cur
      BY <2>1, <2>3, <3>0, <3>2 DEF PlaceOf
    <3> QED
      BY <3>1, <3>2
  <2> QED
    BY <2>4, <2>5 DEF WsPlaces
<1>6. CASE HandlerThrows
  <2>1. /\ ~nested /\ InConnect /\ stage # "opening" /\ stage' = "idle"
        /\ ended' = [ended EXCEPT ![cur] = "throw"]
        /\ UNCHANGED <<nested, cur, place, read_task, write_task>>
    BY <1>6 DEF HandlerThrows, ScriptRuns
  <2>2. cur \in WsSessionIds
    BY <2>1 DEF WsPlaces, ScriptAt, PlaceOf
  <2>3. \A s \in WsSessionIds : ended'[s] = IF s = cur THEN "throw" ELSE ended[s]
    BY <2>1 DEF WsTypes
  <2>4. ScriptAt'
    BY <2>1, <2>2, <2>3 DEF WsPlaces, ScriptAt
  <2>5. ASSUME NEW s \in WsSessionIds PROVE PlaceOf(s)'
    <3>0. PlaceOf(s) /\ ScriptAt
      BY DEF WsPlaces
    <3>1. CASE s = cur
      <4>1. /\ place'[s] = "registry" /\ read_task'[s] \in {"running", "done"} /\ ended'[s] = "throw"
            /\ cur' = cur /\ stage' = "idle"
        BY <2>1, <2>2, <2>3, <3>0, <3>1 DEF ScriptAt, PlaceOf
      <4> QED
        BY <1>n, <3>1, <4>1 DEF PlaceOf
    <3>2. CASE s # cur
      BY <2>1, <2>3, <3>0, <3>2 DEF PlaceOf
    <3> QED
      BY <3>1, <3>2
  <2> QED
    BY <2>4, <2>5 DEF WsPlaces
<1>7. CASE HandlerBlocks \/ HandlerResumes
  <2>1. /\ nested' => InConnect /\ stage \notin {"opening", "recv"}
        /\ UNCHANGED <<cur, stage, place, read_task, write_task, ended>>
    BY <1>7 DEF HandlerBlocks, HandlerResumes, ScriptRuns
  <2> QED
    BY <2>1 DEF WsPlaces, ScriptAt, PlaceOf
<1>8. CASE StageEnds
  <2>1. /\ ~nested /\ InConnect /\ stage \notin {"opening", "onclose", "recv"}
        /\ stage' \notin {"idle", "dropped", "opening"} /\ (shim_closed' => stage' = "onclose")
        /\ (shim_closed => shim_closed')
        /\ ended' = [ended EXCEPT ![cur] = IF shim_closed THEN "script"
                                           ELSE IF shim_closed' THEN "peer" ELSE @]
        /\ UNCHANGED <<nested, cur, place, read_task, write_task>>
    BY <1>8 DEF StageEnds, ScriptRuns
  <2>2. cur \in WsSessionIds /\ place[cur] = "registry"
    BY <2>1 DEF WsPlaces, ScriptAt, PlaceOf
  <2>3. \A s \in WsSessionIds : s # cur \/ stage' # "onclose" => ended'[s] = ended[s]
    BY <2>1 DEF WsTypes
  <2> QED
    BY <1>n, <2>1, <2>2, <2>3 DEF WsPlaces, ScriptAt, PlaceOf
<1>9. CASE Cleanup
  <2>1. /\ ~nested /\ InConnect /\ stage = "onclose" /\ stage' = "idle" /\ DropSessions({cur})
        /\ UNCHANGED <<nested, cur, ended>>
    BY <1>9 DEF Cleanup, ScriptRuns
  <2>2. cur \in WsSessionIds /\ place[cur] = "registry"
    BY <2>1 DEF WsPlaces, ScriptAt, PlaceOf
  <2>3. /\ place'[cur] = "gone" /\ read_task'[cur] # "running" /\ write_task'[cur] # "running"
        /\ \A s \in WsSessionIds : s # cur =>
             place'[s] = place[s] /\ read_task'[s] = read_task[s] /\ write_task'[s] = write_task[s]
    BY <2>1, <2>2 DEF DropSessions, Aborted
  <2> QED
    BY <1>n, <2>1, <2>2, <2>3 DEF WsPlaces, ScriptAt, PlaceOf
<1>10. CASE RecvEvent
  <2>1. /\ stage = "recv" /\ stage' \in {"onclose", "errhandler", "handler"}
        /\ (Head(evts[cur]) = "close" => stage' = "onclose")
        /\ ended' = [ended EXCEPT ![cur] = IF Head(evts[cur]) = "close" THEN "peer" ELSE @]
        /\ UNCHANGED <<nested, cur, place, read_task, write_task>>
    BY <1>10 DEF RecvEvent
  <2>2. cur \in WsSessionIds /\ place[cur] = "registry" /\ ~nested
    BY <2>1 DEF WsPlaces, ScriptAt, PlaceOf
  <2>3. \A s \in WsSessionIds : s # cur \/ stage' # "onclose" => ended'[s] = ended[s]
    BY <2>1 DEF WsTypes
  <2> QED
    BY <1>n, <2>1, <2>2, <2>3 DEF WsPlaces, ScriptAt, PlaceOf
<1>11. CASE RecvClosed
  <2>1. /\ stage = "recv" /\ stage' = "onclose" /\ ended' = [ended EXCEPT ![cur] = "peer"]
        /\ UNCHANGED <<nested, cur, place, read_task, write_task>>
    BY <1>11 DEF RecvClosed
  <2>2. cur \in WsSessionIds /\ place[cur] = "registry" /\ ~nested
    BY <2>1 DEF WsPlaces, ScriptAt, PlaceOf
  <2>3. \A s \in WsSessionIds : s # cur => ended'[s] = ended[s]
    BY <2>1 DEF WsTypes
  <2> QED
    BY <1>n, <2>1, <2>2, <2>3 DEF WsPlaces, ScriptAt, PlaceOf
<1>12. CASE RecvTimeout
  BY <1>12 DEF RecvTimeout, WsPlaces, ScriptAt, PlaceOf
<1>13. CASE VuDropped
  <2>1. /\ DropSessions({s \in WsSessionIds : place[s] \in {"op", "registry"}})
        /\ stage' = "dropped" /\ nested' = FALSE
        /\ ended' = [s \in WsSessionIds |->
                       IF ended[s] = "" /\ place[s] # "none" THEN "drop" ELSE ended[s]]
        /\ UNCHANGED cur
    BY <1>13 DEF VuDropped
  <2>2. \A s \in WsSessionIds :
          /\ place'[s] = IF place[s] \in {"op", "registry"} THEN "gone" ELSE place[s]
          /\ place[s] \notin {"op", "registry"} =>
               read_task'[s] = read_task[s] /\ write_task'[s] = write_task[s]
          /\ place[s] \in {"op", "registry"} => read_task'[s] # "running" /\ write_task'[s] # "running"
    BY <2>1 DEF DropSessions, Aborted
  <2>3. \A s \in WsSessionIds : ended'[s] = ended[s] \/ (ended'[s] = "drop" /\ place[s] # "none")
    BY <2>1
  <2>4. ScriptAt'
    BY <2>1, <2>2, <2>3 DEF WsPlaces, ScriptAt
  <2>5. ASSUME NEW s \in WsSessionIds PROVE PlaceOf(s)'
    <3>0. PlaceOf(s) /\ ScriptAt
      BY DEF WsPlaces
    <3>1. CASE place[s] \in {"op", "registry"}
      <4>1. /\ place'[s] = "gone" /\ read_task'[s] # "running" /\ write_task'[s] # "running"
        BY <2>2, <3>1
      <4>2. ~(s > cur')
        BY <2>1, <3>0, <3>1 DEF PlaceOf
      <4> QED
        BY <4>1, <4>2 DEF PlaceOf
    <3>2. CASE place[s] \notin {"op", "registry"}
      <4>1. /\ place'[s] = place[s] /\ read_task'[s] = read_task[s] /\ write_task'[s] = write_task[s]
            /\ cur' = cur /\ (ended'[s] = ended[s] \/ place[s] # "none")
        BY <2>1, <2>2, <2>3, <3>2
      <4> QED
        BY <3>0, <3>2, <4>1 DEF PlaceOf
    <3> QED
      BY <3>1, <3>2
  <2> QED
    BY <2>4, <2>5 DEF WsPlaces
<1>14. ASSUME NEW s \in WsSessionIds, ReadTask(s) PROVE WsPlaces'
  <2>1. /\ read_task[s] = "running" /\ read_task'[s] \in {"running", "done"}
        /\ \A t \in WsSessionIds : t # s => read_task'[t] = read_task[t]
        /\ UNCHANGED <<nested, cur, stage, place, write_task, ended>>
    BY <1>14 DEF ReadTask, WsTypes
  <2> QED
    BY <2>1 DEF WsPlaces, ScriptAt, PlaceOf
<1>15. ASSUME NEW s \in WsSessionIds, WriteTask(s) PROVE WsPlaces'
  <2>1. /\ write_task[s] = "running" /\ write_task'[s] \in {"running", "done"}
        /\ \A t \in WsSessionIds : t # s => write_task'[t] = write_task[t]
        /\ UNCHANGED <<nested, cur, stage, place, read_task, ended>>
    BY <1>15 DEF WriteTask, WsTypes
  <2> QED
    BY <2>1 DEF WsPlaces, ScriptAt, PlaceOf
<1>16. ASSUME NEW s \in WsSessionIds, NEW f \in WsFrame, PeerSends(s, f) PROVE WsPlaces'
  BY <1>0, <1>16 DEF PeerSends
<1> QED
  BY <1>1, <1>2, <1>3, <1>4, <1>5, <1>6, <1>7, <1>8, <1>9, <1>10, <1>11, <1>12, <1>13, <1>14,
     <1>15, <1>16 DEF WsNext, WsScriptStep, WsFrame

\* At first there is no session.
LEMMA WsStart == WsInit => WsTypes /\ WsPlaces
<1> SUFFICES ASSUME WsInit PROVE WsTypes /\ WsPlaces
  OBVIOUS
<1>1. WsTypes
  <2>1. <<>> \in Seq(WsFrame)
    OBVIOUS
  <2>2. /\ evts \in [WsSessionIds -> Seq(WsFrame)] /\ inbox \in [WsSessionIds -> Seq(WsFrame)]
        /\ peer \in [WsSessionIds -> Seq(WsFrame)] /\ dispatched \in [WsSessionIds -> Seq(WsFrame)]
    BY <2>1 DEF WsInit, PerSession
  <2> QED
    BY <2>2 DEF WsInit, PerSession, WsTypes, WsStates
<1>2. WsPlaces
  BY DEF WsInit, PerSession, WsPlaces, ScriptAt, PlaceOf, InConnect
<1> QED
  BY <1>1, <1>2

\* A connect that returned by itself and a VU that was dropped leave no task
\* behind.
THEOREM ReleaseSound == WsSpec => []WsReleased
<1>1. WsTypes /\ WsPlaces => WsReleased
  BY DEF WsTypes, WsPlaces, ScriptAt, PlaceOf, WsReleased, WsStates
<1> QED
  BY <1>1, WsStart, WsTypesStep, WsPlacesStep, PTL DEF WsSpec

\* The read task moves a frame from the socket to the event channel.
LEMMA FlowRead ==
  ASSUME NEW D \in Seq(WsFrame), NEW E \in Seq(WsFrame), NEW B \in Seq(WsFrame),
         NEW P \in Seq(WsFrame), NEW end, FlowOf(D, E, B, P, "running", end), B # <<>>
  PROVE  FlowOf(D, IF Head(B) = "eof" THEN E ELSE Append(E, Head(B)), Tail(B), P,
                IF Head(B) \in LastFrames THEN "done" ELSE "running", end)
<1> DEFINE f == Head(B)
<1>1. /\ Len(D) \in Nat /\ Len(E) \in Nat /\ Len(B) \in Nat \ {0} /\ Len(P) \in Nat
      /\ f = B[1] /\ Len(Tail(B)) = Len(B) - 1
      /\ \A i \in 1..Len(B) - 1 : Tail(B)[i] = B[i + 1]
      /\ Len(Append(E, f)) = Len(E) + 1 /\ Append(E, f)[Len(E) + 1] = f
      /\ \A i \in 1..Len(E) : Append(E, f)[i] = E[i]
  OBVIOUS
<1> DEFINE k == Len(D) + Len(E) + 1
<1>2. /\ Len(P) = Len(D) + Len(E) + Len(B) /\ end # "peer" /\ k \in 1..Len(P) /\ f = P[k]
      /\ \A i \in 1..Len(P) : i < Len(P) => P[i] \notin LastFrames
      /\ \A i \in 1..Len(P) : i < k => P[i] \notin LastFrames
      /\ \A i \in 1..Len(D) : D[i] = P[i]
      /\ \A i \in 1..Len(E) : E[i] = P[Len(D) + i]
      /\ \A i \in 1..Len(B) - 1 : Tail(B)[i] = P[k + i]
  <2>1. /\ Len(P) = Len(D) + Len(E) + Len(B) /\ end # "peer"
    BY DEF FlowOf
  <2>2. \A i \in 1..Len(B) : B[i] = P[Len(D) + Len(E) + i]
    BY DEF FlowOf
  <2>3. \A i \in 1..Len(B) - 1 : Tail(B)[i] = P[k + i]
    <3>1. ASSUME NEW i \in 1..Len(B) - 1 PROVE Tail(B)[i] = P[k + i]
      <4>1. i + 1 \in 1..Len(B) /\ Tail(B)[i] = B[i + 1] /\ Len(D) + Len(E) + (i + 1) = k + i
        BY <1>1
      <4>2. B[i + 1] = P[Len(D) + Len(E) + (i + 1)]
        BY <2>2, <4>1
      <4> QED
        BY <4>1, <4>2
    <3> QED
      BY <3>1
  <2>4. \A i \in 1..Len(P) : i < k => P[i] \notin LastFrames
    <3>1. \A i \in 1..Len(P) : i <= Len(D) + Len(E) => P[i] \notin LastFrames
      BY DEF FlowOf
    <3> QED
      BY <1>1, <3>1
  <2>5. f = P[k] /\ k \in 1..Len(P)
    BY <1>1, <2>1, <2>2
  <2>6. /\ \A i \in 1..Len(P) : i < Len(P) => P[i] \notin LastFrames
        /\ \A i \in 1..Len(D) : D[i] = P[i]
        /\ \A i \in 1..Len(E) : E[i] = P[Len(D) + i]
    BY DEF FlowOf
  <2> QED
    BY <2>1, <2>3, <2>4, <2>5, <2>6
<1>3. ASSUME f \in LastFrames PROVE k = Len(P) /\ Len(B) = 1
  <2>1. k \in 1..Len(P) /\ P[k] \in LastFrames
    BY <1>2, <1>3
  <2>2. ~(k < Len(P))
    BY <1>2, <2>1
  <2>3. \A d, e \in Nat, b \in Nat \ {0} : ~(d + e + 1 < d + e + b) => b = 1
    OBVIOUS
  <2>4. Len(D) \in Nat /\ Len(E) \in Nat /\ Len(B) \in Nat \ {0}
    BY <1>1
  <2>5. ~(Len(D) + Len(E) + 1 < Len(D) + Len(E) + Len(B))
    BY <1>2, <2>2
  <2>6. Len(B) = 1
    BY <2>3, <2>4, <2>5
  <2> QED
    BY <1>2, <2>6
<1> HIDE DEF f, k
<1>4. CASE f = "eof"
  <2>1. f \in LastFrames
    BY <1>4 DEF LastFrames
  <2>2. Len(B) = 1 /\ k = Len(P) /\ f = P[k]
    BY <1>2, <1>3, <2>1
  <2>3. P[Len(P)] = "eof"
    BY <1>4, <2>2
  <2>4. Len(Tail(B)) = 0 /\ Len(P) = Len(D) + Len(E) + 1
    BY <1>1, <2>2 DEF k
  <2> DEFINE G == Tail(B)
  <2>5. Len(G) = 0
    BY <2>4
  <2> HIDE DEF G
  <2>6. \A i \in 1..Len(G) : G[i] = P[Len(D) + Len(E) + i]
    BY <2>5
  <2>7. FlowOf(D, E, G, P, "done", end)
    BY <1>2, <2>3, <2>4, <2>5, <2>6 DEF FlowOf
  <2> QED
    BY <1>4, <2>1, <2>7 DEF f, G
<1>5. CASE f # "eof"
  <2> DEFINE F == Append(E, f)
             G == Tail(B)
  <2>1. Len(F) = Len(E) + 1 /\ Len(G) = Len(B) - 1 /\ Len(D) + Len(F) = k
    BY <1>1 DEF k
  <2>2. \A i \in 1..Len(F) : F[i] = P[Len(D) + i]
    <3>1. ASSUME NEW i \in 1..Len(F) PROVE F[i] = P[Len(D) + i]
      <4>1. CASE i = Len(E) + 1
        <5>1. F[i] = f /\ Len(D) + i = k
          BY <1>1, <4>1 DEF k
        <5> QED
          BY <1>2, <5>1
      <4>2. CASE i # Len(E) + 1
        <5>1. i \in 1..Len(E)
          BY <1>1, <2>1, <4>2
        <5> QED
          BY <1>1, <1>2, <5>1
      <4> QED
        BY <4>1, <4>2
    <3> QED
      BY <3>1
  <2>3. \A i \in 1..Len(G) : G[i] = P[Len(D) + Len(F) + i]
    BY <1>1, <1>2, <2>1
  <2>4. Len(P) = Len(D) + Len(F) + Len(G)
    BY <1>1, <1>2, <2>1
  <2> HIDE DEF F, G
  <2>5. CASE f \in LastFrames
    <3>1. Len(G) = 0
      BY <1>3, <2>1, <2>5
    <3>2. FlowOf(D, F, G, P, "done", end)
      BY <1>2, <2>2, <2>3, <2>4, <3>1 DEF FlowOf
    <3> QED
      BY <1>5, <2>5, <3>2 DEF f, F, G
  <2>6. CASE f \notin LastFrames
    <3>1. \A i \in 1..Len(P) : i <= Len(D) + Len(F) => P[i] \notin LastFrames
      <4>1. ASSUME NEW i \in 1..Len(P), i <= k PROVE P[i] \notin LastFrames
        <5>1. CASE i = k
          BY <1>2, <2>6, <5>1
        <5>2. CASE i # k
          <6>1. i < k
            BY <1>2, <4>1, <5>2
          <6> QED
            BY <1>2, <6>1
        <5> QED
          BY <5>1, <5>2
      <4> QED
        BY <2>1, <4>1
    <3>2. FlowOf(D, F, G, P, "running", end)
      BY <1>2, <2>2, <2>3, <2>4, <3>1 DEF FlowOf
    <3> QED
      BY <1>5, <2>6, <3>2 DEF f, F, G
  <2> QED
    BY <2>5, <2>6
<1> QED
  BY <1>4, <1>5

\* The script takes the first event of the channel.
LEMMA FlowDispatch ==
  ASSUME NEW D \in Seq(WsFrame), NEW E \in Seq(WsFrame), NEW B \in Seq(WsFrame),
         NEW P \in Seq(WsFrame), NEW task, NEW end, FlowOf(D, E, B, P, task, end), E # <<>>
  PROVE  FlowOf(Append(D, Head(E)), Tail(E), B, P, task,
                IF Head(E) = "close" THEN "peer" ELSE end)
<1> DEFINE f == Head(E)
           C == Append(D, f)
           F == Tail(E)
           k == Len(D) + 1
<1>1. /\ Len(D) \in Nat /\ Len(E) \in Nat \ {0} /\ Len(B) \in Nat /\ Len(P) \in Nat
      /\ f = E[1] /\ Len(F) = Len(E) - 1
      /\ \A i \in 1..Len(E) - 1 : F[i] = E[i + 1]
      /\ Len(C) = k /\ C[k] = f
      /\ \A i \in 1..Len(D) : C[i] = D[i]
  OBVIOUS
<1>2. /\ \/ Len(P) = Len(D) + Len(E) + Len(B)
         \/ /\ Len(P) = Len(D) + Len(E) + 1 /\ Len(B) = 0
            /\ P[Len(P)] = "eof" /\ task # "running"
      /\ \A i \in 1..Len(D) : D[i] = P[i]
      /\ \A i \in 1..Len(E) : E[i] = P[Len(D) + i]
      /\ \A i \in 1..Len(B) : B[i] = P[Len(D) + Len(E) + i]
      /\ \A i \in 1..Len(P) : i < Len(P) => P[i] \notin LastFrames
      /\ task = "running" => \A i \in 1..Len(P) : i <= Len(D) + Len(E) => P[i] \notin LastFrames
      /\ task = "done" => Len(B) = 0
      /\ task = "none" => Len(P) = 0
      /\ end = "peer" => task # "running" /\ \A i \in 1..Len(P) : P[i] \in WsFrames => i <= Len(D)
  BY DEF FlowOf
<1>3. k \in 1..Len(P) /\ f = P[k] /\ k <= Len(D) + Len(E)
  BY <1>1, <1>2
<1> HIDE DEF f, C, F
<1>4. Len(C) + Len(F) = Len(D) + Len(E)
  BY <1>1
<1>5. \A i \in 1..Len(C) : C[i] = P[i]
  <2>1. ASSUME NEW i \in 1..Len(C) PROVE C[i] = P[i]
    <3>1. CASE i = k
      BY <1>1, <1>3, <3>1
    <3>2. CASE i # k
      <4>1. i \in 1..Len(D)
        BY <1>1, <3>2
      <4> QED
        BY <1>1, <1>2, <4>1
    <3> QED
      BY <3>1, <3>2
  <2> QED
    BY <2>1
<1>6. \A i \in 1..Len(F) : F[i] = P[Len(C) + i]
  <2>1. ASSUME NEW i \in 1..Len(F) PROVE F[i] = P[Len(C) + i]
    <3>1. i + 1 \in 1..Len(E) /\ F[i] = E[i + 1] /\ Len(D) + (i + 1) = Len(C) + i
      BY <1>1
    <3>2. E[i + 1] = P[Len(D) + (i + 1)]
      BY <1>2, <3>1
    <3> QED
      BY <3>1, <3>2
  <2> QED
    BY <2>1
<1>7. CASE f = "close"
  <2>0. f \in LastFrames /\ P[k] \in LastFrames
    BY <1>3, <1>7 DEF LastFrames
  <2>k. k = Len(P)
    <3>1. ~(k < Len(P))
      BY <1>2, <1>3, <2>0
    <3>2. Len(D) \in Nat /\ Len(P) \in Nat /\ k \in 1..Len(P)
      BY <1>1, <1>3
    <3> QED
      BY <3>1, <3>2
  <2>1. task # "running" /\ k = Len(P)
    BY <1>2, <1>3, <2>0, <2>k
  <2>2. \A i \in 1..Len(P) : P[i] \in WsFrames => i <= Len(C)
    BY <1>1, <2>1
  <2>3. FlowOf(C, F, B, P, task, "peer")
    BY <1>2, <1>4, <1>5, <1>6, <2>1, <2>2 DEF FlowOf
  <2> QED
    BY <1>7, <2>3 DEF f, C, F
<1>8. CASE f # "close"
  <2>1. end = "peer" => \A i \in 1..Len(P) : P[i] \in WsFrames => i <= Len(C)
    BY <1>1, <1>2
  <2>2. FlowOf(C, F, B, P, task, end)
    BY <1>2, <1>4, <1>5, <1>6, <2>1 DEF FlowOf
  <2> QED
    BY <1>8, <2>2 DEF f, C, F
<1> QED
  BY <1>7, <1>8

\* The peer sends a frame.
LEMMA FlowSend ==
  ASSUME NEW D \in Seq(WsFrame), NEW E \in Seq(WsFrame), NEW B \in Seq(WsFrame),
         NEW P \in Seq(WsFrame), NEW end, NEW f \in WsFrame,
         FlowOf(D, E, B, P, "running", end), P # <<>> => P[Len(P)] \notin LastFrames
  PROVE  FlowOf(D, E, Append(B, f), Append(P, f), "running", end)
<1> DEFINE C == Append(B, f)
           Q == Append(P, f)
<1>1. /\ Len(D) \in Nat /\ Len(E) \in Nat /\ Len(B) \in Nat /\ Len(P) \in Nat
      /\ Len(C) = Len(B) + 1 /\ C[Len(B) + 1] = f /\ \A i \in 1..Len(B) : C[i] = B[i]
      /\ Len(Q) = Len(P) + 1 /\ Q[Len(P) + 1] = f /\ \A i \in 1..Len(P) : Q[i] = P[i]
      /\ (P = <<>> <=> Len(P) = 0)
  OBVIOUS
<1>2. /\ Len(P) = Len(D) + Len(E) + Len(B) /\ end # "peer"
      /\ \A i \in 1..Len(D) : D[i] = P[i]
      /\ \A i \in 1..Len(E) : E[i] = P[Len(D) + i]
      /\ \A i \in 1..Len(B) : B[i] = P[Len(D) + Len(E) + i]
      /\ \A i \in 1..Len(P) : i < Len(P) => P[i] \notin LastFrames
      /\ \A i \in 1..Len(P) : i <= Len(D) + Len(E) => P[i] \notin LastFrames
  BY DEF FlowOf
<1>3. \A i \in 1..Len(P) : P[i] \notin LastFrames
  BY <1>1, <1>2
<1> HIDE DEF C, Q
<1>4. \A i \in 1..Len(D) : D[i] = Q[i]
  BY <1>1, <1>2
<1>5. \A i \in 1..Len(E) : E[i] = Q[Len(D) + i]
  <2>1. ASSUME NEW i \in 1..Len(E) PROVE E[i] = Q[Len(D) + i]
    <3>1. Len(D) + i \in 1..Len(P)
      BY <1>1, <1>2
    <3> QED
      BY <1>1, <1>2, <3>1
  <2> QED
    BY <2>1
<1>6. \A i \in 1..Len(C) : C[i] = Q[Len(D) + Len(E) + i]
  <2>1. ASSUME NEW i \in 1..Len(C) PROVE C[i] = Q[Len(D) + Len(E) + i]
    <3>1. CASE i = Len(B) + 1
      <4>1. Len(D) + Len(E) + i = Len(P) + 1
        BY <1>1, <1>2, <3>1
      <4> QED
        BY <1>1, <3>1, <4>1
    <3>2. CASE i # Len(B) + 1
      <4>1. /\ Len(D) \in Nat /\ Len(E) \in Nat /\ Len(B) \in Nat /\ Len(C) = Len(B) + 1
            /\ Len(P) = Len(D) + Len(E) + Len(B)
        BY <1>1, <1>2
      <4>2. i \in 1..Len(B) /\ Len(D) + Len(E) + i \in 1..Len(P)
        BY <3>2, <4>1
      <4> QED
        BY <1>1, <1>2, <4>2
    <3> QED
      BY <3>1, <3>2
  <2> QED
    BY <2>1
<1>7. /\ \A i \in 1..Len(Q) : i < Len(Q) => Q[i] \notin LastFrames
      /\ \A i \in 1..Len(Q) : i <= Len(D) + Len(E) => Q[i] \notin LastFrames
  <2>1. /\ Len(D) \in Nat /\ Len(E) \in Nat /\ Len(B) \in Nat /\ Len(Q) = Len(P) + 1
        /\ Len(P) = Len(D) + Len(E) + Len(B)
    BY <1>1, <1>2
  <2>2. \A i \in 1..Len(Q) : (i < Len(Q) \/ i <= Len(D) + Len(E)) => i \in 1..Len(P)
    BY <2>1
  <2> QED
    BY <1>1, <1>3, <2>2
<1>8. Len(Q) = Len(D) + Len(E) + Len(C)
  BY <1>1, <1>2
<1> QED
  BY <1>2, <1>4, <1>5, <1>6, <1>7, <1>8 DEF FlowOf, C, Q

\* An abort moves no frame, and neither does the end of a connect for another
\* reason than the peer.
LEMMA FlowKept ==
  ASSUME NEW D, NEW E, NEW B, NEW P, NEW task, NEW end, FlowOf(D, E, B, P, task, end),
         NEW task2, task2 \in {task, "aborted"}, NEW end2, end2 = "peer" => end = "peer"
  PROVE  FlowOf(D, E, B, P, task2, end2)
  BY DEF FlowOf

\* A new connection has moved nothing yet.
LEMMA FlowOpen ==
  ASSUME NEW D \in Seq(WsFrame), NEW E \in Seq(WsFrame), NEW B \in Seq(WsFrame),
         NEW P \in Seq(WsFrame), FlowOf(D, E, B, P, "none", "")
  PROVE  FlowOf(D, E, B, P, "running", "")
<1>1. Len(D) \in Nat /\ Len(E) \in Nat /\ Len(B) \in Nat /\ Len(P) = 0
  BY DEF FlowOf
<1>2. Len(D) = 0 /\ Len(E) = 0 /\ Len(B) = 0
  BY <1>1 DEF FlowOf
<1> QED
  BY <1>1, <1>2 DEF FlowOf

\* The channel of a finished read task is drained.
LEMMA FlowDrained ==
  ASSUME NEW D \in Seq(WsFrame), NEW B \in Seq(WsFrame), NEW P \in Seq(WsFrame), NEW end,
         FlowOf(D, <<>>, B, P, "done", end)
  PROVE  FlowOf(D, <<>>, B, P, "done", "peer")
<1>1. Len(D) \in Nat /\ Len(P) \in Nat /\ Len(B) = 0 /\ Len(<<>>) = 0
  BY DEF FlowOf
<1>2. Len(P) = Len(D) \/ (Len(P) = Len(D) + 1 /\ P[Len(P)] = "eof")
  BY <1>1 DEF FlowOf
<1>3. "eof" \notin WsFrames
  BY WsAssumption DEF LastFrames
<1>4. ASSUME NEW i \in 1..Len(P), P[i] \in WsFrames PROVE i <= Len(D)
  <2>1. i # Len(P) \/ Len(P) = Len(D)
    BY <1>2, <1>3, <1>4
  <2> QED
    BY <1>1, <1>2, <2>1
<1> QED
  BY <1>4 DEF FlowOf

\* After an error event nothing more comes.
LEMMA FlowError ==
  ASSUME NEW D \in Seq(WsFrame), NEW E \in Seq(WsFrame), NEW B \in Seq(WsFrame),
         NEW P \in Seq(WsFrame), NEW task, NEW end, FlowOf(D, E, B, P, task, end),
         D # <<>>, D[Len(D)] = "error"
  PROVE  FlowOf(D, E, B, P, task, "peer")
<1>1. /\ Len(D) \in Nat \ {0} /\ Len(E) \in Nat /\ Len(B) \in Nat /\ Len(P) \in Nat
  OBVIOUS
<1>2. Len(P) >= Len(D)
  BY <1>1 DEF FlowOf
<1>3. Len(D) \in 1..Len(P) /\ Len(D) \in 1..Len(D)
  BY <1>1, <1>2
<1>4. P[Len(D)] = "error"
  BY <1>3 DEF FlowOf
<1>5. P[Len(D)] \in LastFrames
  BY <1>4 DEF LastFrames
<1>6. ~(Len(D) < Len(P))
  BY <1>3, <1>5 DEF FlowOf
<1>7. task # "running"
  <2>1. Len(D) <= Len(D) + Len(E)
    BY <1>1
  <2> QED
    BY <1>3, <1>5, <2>1 DEF FlowOf
<1>8. \A i \in 1..Len(P) : i <= Len(D)
  BY <1>1, <1>6
<1> QED
  BY <1>7, <1>8 DEF FlowOf

\* Every step keeps the order of the frames.
LEMMA WsFlowStep == WsTypes /\ WsPlaces /\ WsFlow /\ [WsNext]_wsvars => WsFlow'
<1> SUFFICES ASSUME WsTypes, WsPlaces, WsFlow, [WsNext]_wsvars PROVE WsFlow'
  OBVIOUS
<1> USE DEF ws_tasks, ws_ghosts, ws_script
<1> DEFINE Moved == UNCHANGED <<dispatched, evts, inbox, peer>>
           Kept(s) == /\ read_task'[s] \in {read_task[s], "aborted"}
                      /\ ended'[s] = "peer" => ended[s] = "peer"
           Seqs(s) == /\ dispatched[s] \in Seq(WsFrame) /\ evts[s] \in Seq(WsFrame)
                      /\ inbox[s] \in Seq(WsFrame) /\ peer[s] \in Seq(WsFrame)
<1>t. ASSUME NEW s \in WsSessionIds PROVE Seqs(s) /\ Flow(s)
  BY DEF WsTypes, WsFlow
<1>k. ASSUME NEW s \in WsSessionIds, Moved, Kept(s) PROVE Flow(s)'
  <2>1. FlowOf(dispatched[s], evts[s], inbox[s], peer[s], read_task[s], ended[s])
    BY <1>t DEF Flow
  <2>2. FlowOf(dispatched[s], evts[s], inbox[s], peer[s], read_task'[s], ended'[s])
    BY <1>k, <2>1, FlowKept
  <2> QED
    BY <1>k, <2>2 DEF Flow
<1>e. ASSUME UNCHANGED <<dispatched, cur>>, stage' = "errhandler" => stage = "errhandler"
      PROVE  ErrorLast'
  BY <1>e DEF WsFlow, ErrorLast
<1>1. CASE \/ UNCHANGED wsvars \/ SocketSend \/ SocketClose \/ HandlerBlocks \/ HandlerResumes
           \/ RecvTimeout \/ Opened
  <2>1. Moved /\ \A s \in WsSessionIds : Kept(s)
    BY <1>1 DEF wsvars, SocketSend, SocketClose, HandlerBlocks, HandlerResumes, RecvTimeout, Opened
  <2>2. UNCHANGED <<dispatched, cur>> /\ (stage' = "errhandler" => stage = "errhandler")
    BY <1>1 DEF wsvars, SocketSend, SocketClose, HandlerBlocks, HandlerResumes, RecvTimeout, Opened
  <2> QED
    BY <1>e, <1>k, <2>1, <2>2 DEF WsFlow
<1>2. CASE WsOpen
  <2>1. Moved /\ UNCHANGED <<read_task, ended>> /\ stage' = "opening"
    BY <1>2 DEF WsOpen
  <2>2. ErrorLast'
    BY <2>1 DEF ErrorLast
  <2> QED
    BY <1>k, <2>1, <2>2 DEF WsFlow
<1>3. CASE ConnectFails \/ HandlerThrows
  <2>1. /\ Moved /\ UNCHANGED <<read_task, cur>> /\ stage' = "idle"
        /\ ended' = [ended EXCEPT ![cur] = "throw"]
    BY <1>3 DEF ConnectFails, HandlerThrows
  <2>2. \A s \in WsSessionIds : Kept(s)
    BY <2>1 DEF WsTypes
  <2> QED
    BY <1>e, <1>k, <2>1, <2>2 DEF WsFlow
<1>4. CASE Connected
  <2>1. /\ stage = "opening" /\ place[cur] = "none" /\ Moved /\ UNCHANGED <<cur, stage, ended>>
        /\ read_task' = [read_task EXCEPT ![cur] = "running"]
    BY <1>4 DEF Connected
  <2>2. /\ cur \in WsSessionIds /\ ended[cur] = "" /\ read_task[cur] = "none"
    BY <2>1 DEF WsPlaces, ScriptAt, PlaceOf, InConnect
  <2>3. ASSUME NEW s \in WsSessionIds PROVE Flow(s)'
    <3>1. CASE s # cur
      <4>1. Kept(s)
        BY <2>1, <3>1 DEF WsTypes
      <4> QED
        BY <1>k, <2>1, <4>1
    <3>2. CASE s = cur
      <4>1. read_task'[s] = "running" /\ ended'[s] = "" /\ read_task[s] = "none" /\ ended[s] = ""
        BY <2>1, <2>2, <3>2 DEF WsTypes
      <4>2. Seqs(s) /\ FlowOf(dispatched[s], evts[s], inbox[s], peer[s], "none", "")
        BY <1>t, <4>1 DEF Flow
      <4>3. FlowOf(dispatched[s], evts[s], inbox[s], peer[s], "running", "")
        BY <4>2, FlowOpen
      <4> QED
        BY <2>1, <4>1, <4>3 DEF Flow
    <3> QED
      BY <3>1, <3>2
  <2> QED
    BY <1>e, <2>1, <2>3 DEF WsFlow
<1>5. CASE StageEnds
  <2>1. /\ InConnect /\ stage # "opening" /\ Moved /\ UNCHANGED <<cur, read_task>>
        /\ ended' = [ended EXCEPT ![cur] = IF shim_closed THEN "script"
                                           ELSE IF shim_closed' THEN "peer" ELSE @]
        /\ shim_closed' = (shim_closed \/ stage = "errhandler")
        /\ stage' # "errhandler"
    BY <1>5 DEF StageEnds, ScriptRuns, InConnect
  <2>2. cur \in WsSessionIds
    BY <2>1 DEF WsPlaces, ScriptAt
  <2>3. ASSUME NEW s \in WsSessionIds PROVE Flow(s)'
    <3>1. CASE Kept(s)
      BY <1>k, <2>1, <3>1
    <3>2. CASE ~Kept(s)
      <4>1. s = cur /\ ended'[s] = "peer" /\ stage = "errhandler" /\ read_task'[s] = read_task[s]
        BY <2>1, <2>2, <3>2 DEF WsTypes
      <4>2. dispatched[s] # <<>> /\ dispatched[s][Len(dispatched[s])] = "error"
        BY <4>1 DEF WsFlow, ErrorLast
      <4>3. Seqs(s) /\ FlowOf(dispatched[s], evts[s], inbox[s], peer[s], read_task[s], ended[s])
        BY <1>t DEF Flow
      <4>4. FlowOf(dispatched[s], evts[s], inbox[s], peer[s], read_task[s], "peer")
        BY <4>2, <4>3, FlowError
      <4> QED
        BY <2>1, <4>1, <4>4 DEF Flow
    <3> QED
      BY <3>1, <3>2
  <2> QED
    BY <1>e, <2>1, <2>3 DEF WsFlow
<1>6. CASE Cleanup \/ VuDropped
  <2>1. /\ Moved /\ UNCHANGED cur /\ stage' # "errhandler" /\ \E S : DropSessions(S)
        /\ \A s \in WsSessionIds : ended'[s] = "peer" => ended[s] = "peer"
    BY <1>6 DEF Cleanup, VuDropped
  <2>2. \A s \in WsSessionIds : read_task'[s] \in {read_task[s], "aborted"}
    BY <2>1 DEF DropSessions, Aborted
  <2> QED
    BY <1>e, <1>k, <2>1, <2>2 DEF WsFlow
<1>7. CASE RecvEvent
  <2>1. /\ stage = "recv" /\ evts[cur] # <<>> /\ UNCHANGED <<cur, read_task, inbox, peer>>
        /\ evts' = [evts EXCEPT ![cur] = Tail(evts[cur])]
        /\ dispatched' = [dispatched EXCEPT ![cur] = Append(dispatched[cur], Head(evts[cur]))]
        /\ ended' = [ended EXCEPT ![cur] = IF Head(evts[cur]) = "close" THEN "peer" ELSE @]
        /\ (stage' = "errhandler" => Head(evts[cur]) = "error")
    BY <1>7 DEF RecvEvent
  <2>2. cur \in WsSessionIds
    BY <2>1 DEF WsPlaces, ScriptAt, InConnect
  <2>3. /\ evts'[cur] = Tail(evts[cur])
        /\ dispatched'[cur] = Append(dispatched[cur], Head(evts[cur]))
        /\ ended'[cur] = IF Head(evts[cur]) = "close" THEN "peer" ELSE ended[cur]
        /\ \A s \in WsSessionIds : s # cur =>
             evts'[s] = evts[s] /\ dispatched'[s] = dispatched[s] /\ ended'[s] = ended[s]
    BY <2>1, <2>2 DEF WsTypes
  <2>4. Seqs(cur) /\ FlowOf(dispatched[cur], evts[cur], inbox[cur], peer[cur], read_task[cur], ended[cur])
    BY <1>t, <2>2 DEF Flow
  <2>5. FlowOf(Append(dispatched[cur], Head(evts[cur])), Tail(evts[cur]), inbox[cur], peer[cur],
               read_task[cur], IF Head(evts[cur]) = "close" THEN "peer" ELSE ended[cur])
    BY <2>1, <2>4, FlowDispatch
  <2>6. Flow(cur)'
    BY <2>1, <2>3, <2>5 DEF Flow
  <2>7. ASSUME NEW s \in WsSessionIds PROVE Flow(s)'
    <3>1. CASE s = cur
      BY <2>1, <2>6, <3>1 DEF Flow
    <3>2. CASE s # cur
      BY <1>t, <2>1, <2>3, <3>2 DEF Flow
    <3> QED
      BY <3>1, <3>2
  <2>8. ErrorLast'
    <3>1. Head(evts[cur]) \in WsFrame
      BY <2>1, <2>4
    <3>2. LET C == Append(dispatched[cur], Head(evts[cur]))
          IN  C # <<>> /\ C[Len(C)] = Head(evts[cur])
      <4>1. \A q \in Seq(WsFrame), x \in WsFrame :
              Append(q, x) # <<>> /\ Append(q, x)[Len(Append(q, x))] = x
        OBVIOUS
      <4> QED
        BY <2>4, <3>1, <4>1
    <3> QED
      BY <2>1, <2>3, <3>2 DEF ErrorLast
  <2> QED
    BY <2>7, <2>8 DEF WsFlow
<1>8. CASE RecvClosed
  <2>1. /\ stage = "recv" /\ evts[cur] = <<>> /\ read_task[cur] # "running" /\ Moved
        /\ UNCHANGED <<cur, read_task>> /\ stage' = "onclose"
        /\ ended' = [ended EXCEPT ![cur] = "peer"]
    BY <1>8 DEF RecvClosed
  <2>2. cur \in WsSessionIds /\ read_task[cur] = "done"
    BY <2>1 DEF WsPlaces, ScriptAt, PlaceOf, InConnect
  <2>3. ASSUME NEW s \in WsSessionIds PROVE Flow(s)'
    <3>1. CASE s # cur
      <4>1. Kept(s)
        BY <2>1, <3>1 DEF WsTypes
      <4> QED
        BY <1>k, <2>1, <4>1
    <3>2. CASE s = cur
      <4>1. ended'[s] = "peer" /\ read_task'[s] = "done" /\ read_task[s] = "done" /\ evts[s] = <<>>
        BY <2>1, <2>2, <3>2 DEF WsTypes
      <4>2. Seqs(s) /\ FlowOf(dispatched[s], <<>>, inbox[s], peer[s], "done", ended[s])
        BY <1>t, <4>1 DEF Flow
      <4>3. FlowOf(dispatched[s], <<>>, inbox[s], peer[s], "done", "peer")
        BY <4>2, FlowDrained
      <4> QED
        BY <2>1, <4>1, <4>3 DEF Flow
    <3> QED
      BY <3>1, <3>2
  <2> QED
    BY <1>e, <2>1, <2>3 DEF WsFlow
<1>9. ASSUME NEW s \in WsSessionIds, ReadTask(s) PROVE WsFlow'
  <2>1. /\ read_task[s] = "running" /\ inbox[s] # <<>> /\ UNCHANGED <<cur, stage, peer, dispatched, ended>>
        /\ evts' = [evts EXCEPT ![s] = IF Head(inbox[s]) = "eof" THEN evts[s]
                                       ELSE Append(evts[s], Head(inbox[s]))]
        /\ inbox' = [inbox EXCEPT ![s] = Tail(inbox[s])]
        /\ read_task' = [read_task EXCEPT ![s] = IF Head(inbox[s]) \in LastFrames THEN "done" ELSE @]
    BY <1>9 DEF ReadTask
  <2>2. /\ evts'[s] = (IF Head(inbox[s]) = "eof" THEN evts[s] ELSE Append(evts[s], Head(inbox[s])))
        /\ inbox'[s] = Tail(inbox[s])
        /\ read_task'[s] = (IF Head(inbox[s]) \in LastFrames THEN "done" ELSE "running")
        /\ \A r \in WsSessionIds : r # s =>
             evts'[r] = evts[r] /\ inbox'[r] = inbox[r] /\ read_task'[r] = read_task[r]
    BY <2>1 DEF WsTypes
  <2>3. Seqs(s) /\ FlowOf(dispatched[s], evts[s], inbox[s], peer[s], "running", ended[s])
    BY <1>t, <2>1 DEF Flow
  <2>4. FlowOf(dispatched[s], IF Head(inbox[s]) = "eof" THEN evts[s] ELSE Append(evts[s], Head(inbox[s])),
               Tail(inbox[s]), peer[s],
               IF Head(inbox[s]) \in LastFrames THEN "done" ELSE "running", ended[s])
    BY <2>1, <2>3, FlowRead
  <2>5. Flow(s)'
    BY <2>1, <2>2, <2>4 DEF Flow
  <2>6. ASSUME NEW r \in WsSessionIds, r # s PROVE Flow(r)'
    BY <1>t, <2>1, <2>2, <2>6 DEF Flow
  <2> QED
    BY <1>e, <2>1, <2>5, <2>6 DEF WsFlow
<1>10. ASSUME NEW s \in WsSessionIds, WriteTask(s) PROVE WsFlow'
  <2>1. Moved /\ UNCHANGED <<cur, stage, read_task, ended>>
    BY <1>10 DEF WriteTask
  <2> QED
    BY <1>e, <1>k, <2>1 DEF WsFlow
<1>11. ASSUME NEW s \in WsSessionIds, NEW f \in WsFrame, PeerSends(s, f) PROVE WsFlow'
  <2>1. /\ read_task[s] = "running" /\ (peer[s] # <<>> => peer[s][Len(peer[s])] \notin LastFrames)
        /\ peer' = [peer EXCEPT ![s] = Append(peer[s], f)]
        /\ inbox' = [inbox EXCEPT ![s] = Append(inbox[s], f)]
        /\ UNCHANGED <<cur, stage, read_task, evts, dispatched, ended>>
    BY <1>11 DEF PeerSends, PeerDone, Last
  <2>2. /\ peer'[s] = Append(peer[s], f) /\ inbox'[s] = Append(inbox[s], f)
        /\ \A r \in WsSessionIds : r # s => peer'[r] = peer[r] /\ inbox'[r] = inbox[r]
    BY <2>1 DEF WsTypes
  <2>3. Seqs(s) /\ FlowOf(dispatched[s], evts[s], inbox[s], peer[s], "running", ended[s])
    BY <1>t, <2>1 DEF Flow
  <2>4. FlowOf(dispatched[s], evts[s], Append(inbox[s], f), Append(peer[s], f), "running", ended[s])
    BY <2>1, <2>3, FlowSend
  <2>5. Flow(s)'
    BY <2>1, <2>2, <2>4 DEF Flow
  <2>6. ASSUME NEW r \in WsSessionIds, r # s PROVE Flow(r)'
    BY <1>t, <2>1, <2>2, <2>6 DEF Flow
  <2> QED
    BY <1>e, <2>1, <2>5, <2>6 DEF WsFlow
<1> QED
  BY <1>1, <1>2, <1>3, <1>4, <1>5, <1>6, <1>7, <1>8, <1>9, <1>10, <1>11
     DEF WsNext, WsScriptStep, WsFrame

\* The handlers get the peer's frames in order and without a gap, and all of
\* them when it is the peer that ends the connect.
THEOREM LosslessSound == WsSpec => []WsLossless
<1>1. WsInit => WsFlow
  <2> SUFFICES ASSUME WsInit PROVE WsFlow
    OBVIOUS
  <2>1. FlowOf(<<>>, <<>>, <<>>, <<>>, "none", "")
    BY DEF FlowOf
  <2>2. ASSUME NEW s \in WsSessionIds PROVE Flow(s)
    BY <2>1 DEF WsInit, PerSession, Flow
  <2>3. ErrorLast
    BY DEF WsInit, ErrorLast
  <2> QED
    BY <2>2, <2>3 DEF WsFlow
<1>2. WsTypes /\ WsFlow => WsLossless
  <2> SUFFICES ASSUME WsTypes, WsFlow, NEW s \in WsSessionIds
               PROVE  /\ Len(dispatched[s]) <= Len(peer[s])
                      /\ \A i \in 1..Len(dispatched[s]) : dispatched[s][i] = peer[s][i]
                      /\ ended[s] = "peer" => \A i \in 1..Len(peer[s]) :
                                                peer[s][i] \in WsFrames => i <= Len(dispatched[s])
    BY DEF WsLossless
  <2>1. FlowOf(dispatched[s], evts[s], inbox[s], peer[s], read_task[s], ended[s])
    BY DEF WsFlow, Flow
  <2>t. dispatched[s] \in Seq(WsFrame) /\ evts[s] \in Seq(WsFrame) /\ inbox[s] \in Seq(WsFrame)
    BY DEF WsTypes
  <2>2. Len(dispatched[s]) \in Nat /\ Len(evts[s]) \in Nat /\ Len(inbox[s]) \in Nat
    BY <2>t
  <2>n. \A d, e, b \in Nat : d <= d + e + b /\ d <= d + e + 1
    OBVIOUS
  <2>3. \/ Len(peer[s]) = Len(dispatched[s]) + Len(evts[s]) + Len(inbox[s])
        \/ Len(peer[s]) = Len(dispatched[s]) + Len(evts[s]) + 1
    BY <2>1 DEF FlowOf
  <2>4. Len(dispatched[s]) <= Len(peer[s])
    BY <2>2, <2>3, <2>n
  <2> QED
    BY <2>1, <2>4 DEF FlowOf
<1> QED
  BY <1>1, <1>2, WsStart, WsTypesStep, WsPlacesStep, WsFlowStep, PTL DEF WsSpec

-----------------------------------------------------------------------------
(* gRPC, for every set of clients and of messages.                          *)

\* Ids are minted once; what a client or a connect in flight holds is open, and
\* held by nobody else.
IdInv ==
  /\ conn_id \in [Clients -> Nat] /\ minted \in Nat
  /\ \A i \in DOMAIN connections : i \in 1..minted
  /\ \A c \in Clients : conn_id[c] # 0 =>
       /\ conn_id[c] \in DOMAIN connections
       /\ \A d \in Clients : d # c => conn_id[d] # conn_id[c]
  /\ call.op = "connect" => call.client \in Clients
  /\ call.op = "connected" =>
       /\ call.client \in Clients /\ call.id \in DOMAIN connections
       /\ \A c \in Clients : conn_id[c] # call.id

\* The message on its way.
EchoInv ==
  /\ call.op \in {"invoke", "sent", "response"} => call.message \in Messages
  /\ call.op = "sent" => call.body = serde_to_prost(call.message)
  /\ call.op = "response" /\ call.status = 0 =>
       call.reply = serde_json_to_js(prost_value_to_json(serde_to_prost(call.message)))

\* The values of a message survive the conversions.
LEMMA EchoSame ==
  ASSUME NEW v \in Messages
  PROVE  SameValue(v, serde_json_to_js(prost_value_to_json(serde_to_prost(v))))
<1> DEFINE w == serde_json_to_js(prost_value_to_json(serde_to_prost(v)))
<1>1. CASE v \in Leaves
  <2>1. v.k # "tree" /\ (v.k = "num" => v \in [k : {"num"}, n : Int, int : BOOLEAN])
    BY <1>1 DEF Leaves
  <2>2. CASE v.k = "num"
    <3>1. serde_to_prost(v) = [k |-> "num", n |-> v.n, int |-> FALSE]
      BY <2>1, <2>2 DEF serde_to_prost, OverItems
    <3>2. w = [k |-> "num", n |-> v.n, int |-> FALSE]
      BY <3>1 DEF prost_value_to_json, serde_json_to_js, OverItems
    <3> QED
      BY <2>1, <2>2, <3>2 DEF SameValue
  <2>3. CASE v.k # "num"
    <3>1. w = v
      BY <2>1, <2>3 DEF serde_to_prost, prost_value_to_json, serde_json_to_js, OverItems
    <3> QED
      BY <2>1, <2>3, <3>1 DEF SameValue
  <2> QED
    BY <2>2, <2>3
<1>2. CASE v = [k |-> "tree", items |-> v.items] /\ v.items \in [DOMAIN v.items -> Leaves]
  <2> DEFINE F == [i \in DOMAIN v.items |-> IF v.items[i].k = "num"
                                            THEN [v.items[i] EXCEPT !.int = FALSE] ELSE v.items[i]]
  <2>1. v.k = "tree" /\ \A i \in DOMAIN v.items : v.items[i] \in Leaves
    BY <1>2
  <2>2. serde_to_prost(v) = [k |-> "tree", items |-> F]
    BY <1>2, <2>1 DEF serde_to_prost, OverItems
  <2>3. \A i \in DOMAIN v.items :
          F[i].k = v.items[i].k /\ (F[i].k = "num" => F[i].n = v.items[i].n /\ ~F[i].int)
    BY <2>1 DEF Leaves
  <2> HIDE DEF F
  <2>4. DOMAIN F = DOMAIN v.items
    BY DEF F
  <2>5. w = [k |-> "tree", items |-> [i \in DOMAIN F |-> IF F[i].k = "num" /\ F[i].int
                                 THEN [F[i] EXCEPT !.n = Wrapped(@)] ELSE F[i]]]
    BY <2>2 DEF prost_value_to_json, serde_json_to_js, OverItems
  <2>6. w.k = "tree" /\ DOMAIN w.items = DOMAIN v.items
        /\ \A i \in DOMAIN v.items : w.items[i] = F[i]
    BY <2>3, <2>4, <2>5
  <2> HIDE DEF w
  <2>7. SameValue(v, w)
    BY <2>1, <2>3, <2>6 DEF SameValue
  <2> QED
    BY <2>7 DEF w
<1> QED
  BY <1>1, <1>2, GrpcAssumption

\* Every step keeps the ids apart.
LEMMA IdStep == IdInv /\ [GrpcNext]_grpcvars => IdInv'
<1> SUFFICES ASSUME IdInv, [GrpcNext]_grpcvars PROVE IdInv'
  OBVIOUS
<1>0. CASE /\ call' = call \/ call'.op \notin {"connect", "connected"}
           /\ UNCHANGED <<conn_id, connections, minted>>
  BY <1>0 DEF IdInv
<1>1. CASE GrpcConnectFails \/ GrpcRefused \/ GrpcReturns \/ UNCHANGED grpcvars
  BY <1>0, <1>1 DEF GrpcConnectFails, GrpcRefused, GrpcReturns, grpcvars, Idle
<1>8. CASE GrpcSent
  <2>1. call'.op = "sent" /\ UNCHANGED <<conn_id, connections, minted>>
    BY <1>8 DEF GrpcSent
  <2> QED
    BY <1>0, <2>1
<1>9. CASE GrpcAnswered
  <2>1. call'.op = "response" /\ UNCHANGED <<conn_id, connections, minted>>
    BY <1>9 DEF GrpcAnswered
  <2> QED
    BY <1>0, <2>1
<1>2. ASSUME NEW c \in Clients, NEW m \in Metadatas, GrpcConnect(c, m) PROVE IdInv'
  BY <1>2 DEF GrpcConnect, IdInv
<1>3. ASSUME NEW c \in Clients, NEW m \in Metadatas, NEW v \in Messages, GrpcInvoke(c, m, v)
      PROVE  IdInv'
  BY <1>0, <1>3 DEF GrpcInvoke
<1>4. CASE GrpcConnected
  <2>1. /\ call.op = "connect" /\ minted' = minted + 1 /\ conn_id' = conn_id
        /\ call' = [op |-> "connected", client |-> call.client, id |-> minted']
        /\ DOMAIN connections' = DOMAIN connections \cup {minted'}
    BY <1>4 DEF GrpcConnected
  <2>2. minted' \in Nat /\ minted' \notin DOMAIN connections /\ minted' # 0
        /\ \A i \in DOMAIN connections' : i \in 1..minted'
    BY <2>1 DEF IdInv
  <2>3. \A c \in Clients : conn_id[c] # minted'
    BY <2>2 DEF IdInv
  <2>4. call'.op = "connected" /\ call'.client \in Clients /\ call'.id = minted'
    BY <2>1 DEF IdInv
  <2> QED
    BY <2>1, <2>2, <2>3, <2>4 DEF IdInv
<1>5. CASE GrpcConnectReturns
  <2>1. /\ call.op = "connected" /\ conn_id' = [conn_id EXCEPT ![call.client] = call.id]
        /\ call' = Idle /\ UNCHANGED <<connections, minted>>
    BY <1>5 DEF GrpcConnectReturns
  <2>2. /\ call.client \in Clients /\ call.id \in DOMAIN connections /\ call.id \in 1..minted
        /\ \A c \in Clients : conn_id[c] # call.id
    BY <2>1 DEF IdInv
  <2>3. conn_id' \in [Clients -> Nat]
    BY <2>1, <2>2 DEF IdInv
  <2>4. \A c \in Clients : conn_id'[c] = IF c = call.client THEN call.id ELSE conn_id[c]
    BY <2>1 DEF IdInv
  <2>5. \A c \in Clients : conn_id'[c] # 0 =>
          /\ conn_id'[c] \in DOMAIN connections
          /\ \A d \in Clients : d # c => conn_id'[d] # conn_id'[c]
    BY <2>2, <2>4 DEF IdInv
  <2>6. call'.op = "idle"
    BY <2>1 DEF Idle
  <2> QED
    BY <2>1, <2>3, <2>5, <2>6 DEF IdInv
<1>6. ASSUME NEW c \in Clients, GrpcClose(c) PROVE IdInv'
  <2>1. /\ call = Idle /\ conn_id[c] # 0 /\ conn_id' = [conn_id EXCEPT ![c] = 0]
        /\ DOMAIN connections' = DOMAIN connections \ {conn_id[c]}
        /\ UNCHANGED <<minted, call>>
    BY <1>6 DEF GrpcClose, Restrict
  <2>2. \A d \in Clients : conn_id'[d] = IF d = c THEN 0 ELSE conn_id[d]
    BY <2>1 DEF IdInv
  <2>3. conn_id' \in [Clients -> Nat]
    BY <2>1 DEF IdInv
  <2>4. call'.op = "idle"
    BY <2>1 DEF Idle
  <2>5. \A d \in Clients : conn_id'[d] # 0 =>
          /\ conn_id'[d] \in DOMAIN connections'
          /\ \A b \in Clients : b # d => conn_id'[b] # conn_id'[d]
    BY <2>1, <2>2 DEF IdInv
  <2> QED
    BY <2>1, <2>3, <2>4, <2>5 DEF IdInv
<1>7. CASE GrpcVuDropped
  <2>1. /\ call' = [op |-> "dropped"] /\ conn_id' = [c \in Clients |-> 0]
        /\ DOMAIN connections' = {} /\ UNCHANGED minted
    BY <1>7 DEF GrpcVuDropped
  <2> QED
    BY <2>1 DEF IdInv
<1> QED
  BY <1>1, <1>2, <1>3, <1>4, <1>5, <1>6, <1>7, <1>8, <1>9 DEF GrpcNext

\* Every step hands the message on as it is.
LEMMA EchoStep == EchoInv /\ [GrpcNext]_grpcvars => EchoInv'
<1> SUFFICES ASSUME EchoInv, [GrpcNext]_grpcvars PROVE EchoInv'
  OBVIOUS
<1>0. CASE call' = call \/ call'.op \notin {"invoke", "sent", "response"}
  BY <1>0 DEF EchoInv
<1>1. CASE \/ GrpcConnectFails \/ GrpcRefused \/ GrpcReturns \/ GrpcConnected \/ GrpcConnectReturns
           \/ GrpcVuDropped \/ UNCHANGED grpcvars
  BY <1>0, <1>1 DEF GrpcConnectFails, GrpcRefused, GrpcReturns, GrpcConnected, GrpcConnectReturns,
                    GrpcVuDropped, grpcvars, Idle
<1>2. ASSUME NEW c \in Clients, NEW m \in Metadatas, GrpcConnect(c, m) PROVE EchoInv'
  BY <1>0, <1>2 DEF GrpcConnect
<1>3. ASSUME NEW c \in Clients, NEW m \in Metadatas, NEW v \in Messages, GrpcInvoke(c, m, v)
      PROVE  EchoInv'
  BY <1>3 DEF GrpcInvoke, EchoInv
<1>4. CASE GrpcSent
  <2>1. /\ call.op = "invoke" /\ call'.op = "sent" /\ call'.message = call.message
        /\ call'.body = serde_to_prost(call.message)
    BY <1>4 DEF GrpcSent
  <2> QED
    BY <2>1 DEF EchoInv
<1>5. CASE GrpcAnswered
  <2>1. /\ call.op = "sent" /\ call'.op = "response" /\ call'.message = call.message
        /\ (call'.status = 0 => call'.reply = serde_json_to_js(prost_value_to_json(call.body)))
    BY <1>5 DEF GrpcAnswered
  <2> QED
    BY <2>1 DEF EchoInv
<1>6. ASSUME NEW c \in Clients, GrpcClose(c) PROVE EchoInv'
  BY <1>0, <1>6 DEF GrpcClose
<1> QED
  BY <1>1, <1>2, <1>3, <1>4, <1>5, <1>6 DEF GrpcNext

\* A client's id names an open connection of its own, and an echoed message is
\* the message.
THEOREM GrpcSoundness == GrpcSpec => []GrpcSound
<1>1. GrpcInit => IdInv /\ EchoInv
  BY DEF GrpcInit, Idle, IdInv, EchoInv
<1>2. IdInv /\ EchoInv => GrpcSound
  <2> SUFFICES ASSUME IdInv, EchoInv PROVE GrpcSound
    OBVIOUS
  <2>1. ASSUME call.op = "response", call.status = 0 PROVE SameValue(call.message, call.reply)
    <3>1. /\ call.message \in Messages
          /\ call.reply = serde_json_to_js(prost_value_to_json(serde_to_prost(call.message)))
      BY <2>1 DEF EchoInv
    <3> QED
      BY <3>1, EchoSame
  <2>2. \A c \in Clients : conn_id[c] # 0 =>
          /\ conn_id[c] \in DOMAIN connections
          /\ \A d \in Clients \ {c} : conn_id[d] # conn_id[c]
    BY DEF IdInv
  <2> QED
    BY <2>1, <2>2 DEF GrpcSound
<1> QED
  BY <1>1, <1>2, IdStep, EchoStep, PTL DEF GrpcSpec
==============================================================================
