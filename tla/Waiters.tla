------------------------------- MODULE Waiters -------------------------------
(***************************************************************************)
(* The FIFO queues of tokio's Semaphore and Mutex: futures wait in order,  *)
(* and one that is dropped leaves its place to the next.                   *)
(***************************************************************************)
EXTENDS Integers, Sequences

\* The queue s without x, which is in it.
Without(s, x) == LET p == CHOOSE i \in 1..Len(s) : s[i] = x
                 IN  [i \in 1..Len(s) - 1 |-> IF i < p THEN s[i] ELSE s[i + 1]]
=============================================================================
