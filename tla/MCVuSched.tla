------------------------------ MODULE MCVuSched ------------------------------
(* Instances of VuSched for TLC: two iterations, two async requests and a     *)
(* batch of two are enough for a request to outlive its iteration.            *)
EXTENDS VuSched
=============================================================================
