--------------------------- MODULE IterationBudget ---------------------------
(***************************************************************************)
(* What the VU-count executors promise (RunSummary's contract,             *)
(* k6-core/src/traits.rs): a budget of planned iterations, or an unlimited *)
(* one, is handed out, never more than planned, and every iteration handed *)
(* out leaves through exactly one lane; the report adds what the lanes do  *)
(* not hold as dropped.                                                    *)
(***************************************************************************)
EXTENDS Integers

Unlimited == -1

VARIABLES planned,    \* the budget
          claimed,    \* iterations handed out
          finished,   \* [lane |-> iterations that left through it]
          dropped     \* -1 until the report

Lanes == {"completed", "errored", "interrupted", "lost"}
Reported == finished["completed"] + finished["errored"] + finished["interrupted"]

Init == planned \in Nat \cup {Unlimited}
        /\ claimed = 0 /\ finished = [l \in Lanes |-> 0] /\ dropped = -1

Claim == /\ planned = Unlimited \/ claimed < planned
         /\ dropped = -1
         /\ claimed' = claimed + 1
         /\ UNCHANGED <<planned, finished, dropped>>

Finish == /\ Reported + finished["lost"] < claimed
          /\ \E l \in Lanes : finished' = [finished EXCEPT ![l] = @ + 1]
          /\ UNCHANGED <<planned, claimed, dropped>>

Report == /\ dropped = -1 /\ Reported + finished["lost"] = claimed
          /\ dropped' = IF planned = Unlimited THEN 0 ELSE planned - Reported
          /\ UNCHANGED <<planned, claimed, finished>>

Next == Claim \/ Finish \/ Report

Spec == Init /\ [][Next]_<<planned, claimed, finished, dropped>>
=============================================================================
