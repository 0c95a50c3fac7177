------------------------------ MODULE MCWaiter ------------------------------
(* Waiter on small instances. *)
EXTENDS Waiter, TLC

Interchangeable == Permutations(Consumers) \cup Permutations(Producers)
=============================================================================
