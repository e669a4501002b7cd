----------------------------- MODULE MCRateLimiter -----------------------------
(* Instances of RateLimiter for TLC: threads and clients are interchangeable. *)
EXTENDS RateLimiter, TLC

Symmetry == Permutations(Threads) \cup Permutations(Clients)
===============================================================================
