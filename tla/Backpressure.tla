---------------------------- MODULE Backpressure ----------------------------
(***************************************************************************)
(* The in-flight limit on HTTP requests (k6-core/src/backpressure.rs), as  *)
(* run_op of k6-js/src/vu_sched.rs uses it: a request takes a permit of    *)
(* the fair semaphore, is counted, sent, uncounted, and gives the permit   *)
(* back.  A hard stop drops the request's future wherever it is.           *)
(***************************************************************************)
EXTENDS Integers, Sequences, FiniteSets, Waiters

CONSTANTS
    Requests,       \* concurrent requests of all VUs and batches
    max_in_flight

ASSUME GateAssumption ==
    IsFiniteSet(Requests) /\ max_in_flight \in Nat \ {0}

VARIABLES
    req,               \* [Requests -> "idle" | "waiting" | "granted" | "sending" | "uncounted"]
    waiters,           \* the semaphore's FIFO queue
    available,         \* free permits
    current_in_flight  \* the counter

vars == <<req, waiters, available, current_in_flight>>

Init ==
    /\ req = [r \in Requests |-> "idle"] /\ waiters = <<>>
    /\ available = max_in_flight /\ current_in_flight = 0

\* The first poll of acquire_owned: a free permit with nobody waiting is taken
\* at once, otherwise the request queues.
Acquire(r) ==
    /\ req[r] = "idle"
    /\ IF available > 0 /\ waiters = <<>>
       THEN /\ available' = available - 1
            /\ req' = [req EXCEPT ![r] = "granted"]
            /\ UNCHANGED waiters
       ELSE /\ waiters' = Append(waiters, r)
            /\ req' = [req EXCEPT ![r] = "waiting"]
            /\ UNCHANGED available
    /\ UNCHANGED current_in_flight

\* fetch_add after the permit.
Count(r) ==
    /\ req[r] = "granted"
    /\ current_in_flight' = current_in_flight + 1
    /\ req' = [req EXCEPT ![r] = "sending"]
    /\ UNCHANGED <<waiters, available>>

\* InFlightPermit::drop: fetch_sub; the permit field is dropped after it.  The
\* response arrived, or the sending future was dropped.
Uncount(r) ==
    /\ req[r] = "sending"
    /\ current_in_flight' = current_in_flight - 1
    /\ req' = [req EXCEPT ![r] = "uncounted"]
    /\ UNCHANGED <<waiters, available>>

\* Mutant: a released permit is not handed to the waiters.
GiveBackUnheard(r, next) ==
    /\ available' = available + 1
    /\ req' = [req EXCEPT ![r] = next]
    /\ UNCHANGED waiters

\* A released permit goes to the oldest waiter.
GiveBack(r, next) ==
    IF waiters = <<>>
    THEN /\ available' = available + 1
         /\ req' = [req EXCEPT ![r] = next]
         /\ UNCHANGED waiters
    ELSE /\ waiters' = Tail(waiters)
         /\ req' = [req EXCEPT ![r] = next, ![Head(waiters)] = "granted"]
         /\ UNCHANGED available

Release(r) ==
    /\ req[r] = "uncounted"
    /\ GiveBack(r, "idle")
    /\ UNCHANGED current_in_flight

\* The future is dropped while it waits: it leaves the queue.
CancelWaiting(r) ==
    /\ req[r] = "waiting"
    /\ waiters' = Without(waiters, r)
    /\ req' = [req EXCEPT ![r] = "idle"]
    /\ UNCHANGED <<available, current_in_flight>>

\* Mutant: a permit granted to a dropped future is lost.
CancelLeaks(r) ==
    /\ req[r] = "granted"
    /\ req' = [req EXCEPT ![r] = "idle"]
    /\ UNCHANGED <<waiters, available, current_in_flight>>

\* It is dropped after the grant and before it was polled again: the permit
\* goes back uncounted.
CancelGranted(r) ==
    /\ req[r] = "granted"
    /\ GiveBack(r, "idle")
    /\ UNCHANGED current_in_flight

Next == \E r \in Requests :
    Acquire(r) \/ Count(r) \/ Uncount(r) \/ Release(r) \/ CancelWaiting(r) \/ CancelGranted(r)

Spec == Init /\ [][Next]_vars

-----------------------------------------------------------------------------
(* Properties.                                                              *)

\* Every variable stays in its domain.
TypeOK ==
    /\ req \in [Requests -> {"idle", "waiting", "granted", "sending", "uncounted"}]
    /\ waiters \in Seq(Requests)
    /\ available \in Nat /\ current_in_flight \in Int

Holding == {r \in Requests : req[r] \in {"granted", "sending", "uncounted"}}

\* Permits are conserved, whatever futures are dropped.
PermitsConserved == available + Cardinality(Holding) = max_in_flight

\* in_flight() never reports more than max_in_flight requests, and at least
\* every request that is on the wire.
InFlightBounded ==
    /\ current_in_flight <= max_in_flight
    /\ current_in_flight = Cardinality({r \in Requests : req[r] = "sending"})

\* A waiting request always gets its turn (or is dropped): the limit delays
\* requests but starves none, although cancelled neighbours leave the queue.
NoStarvation == \A r \in Requests : req[r] = "waiting" ~> req[r] # "waiting"
=============================================================================
