---------------------------- MODULE MCRetryExecutor ----------------------------
(* An instance of RetryExecutor for TLC: the powers of the multipliers 2, 3/2,   *)
(* 1/2 and -1.                                                                   *)
EXTENDS RetryExecutor

PowersOf(num, den) == [n \in 0..MaxRetries |-> num ^ n * den ^ (MaxRetries - n)]
MCPowers == {PowersOf(2, 1), PowersOf(3, 2), PowersOf(1, 2), PowersOf(-1, 1)}
===============================================================================
