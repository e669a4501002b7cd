-------------------------- MODULE MCConnectionLimiter --------------------------
(* Instances of ConnectionLimiter for TLC: connections are interchangeable. *)
EXTENDS ConnectionLimiter, TLC

ConnectionSymmetry == Permutations(Connections)
===============================================================================
