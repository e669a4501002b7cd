--------------------------- MODULE MCCircuitBreaker ---------------------------
(* Instances of CircuitBreaker for TLC: the tasks are interchangeable. *)
EXTENDS CircuitBreaker, TLC

TaskSymmetry == Permutations(Tasks)
===============================================================================
