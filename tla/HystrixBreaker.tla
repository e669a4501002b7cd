---------------------------- MODULE HystrixBreaker ----------------------------
(***************************************************************************)
(* What a Hystrix-style circuit breaker promises, with every operation     *)
(* atomic: closed until FailureThreshold failures in a row, then open until *)
(* Timeout has passed since the last failure, then half-open until         *)
(* SuccessThreshold successes close it or one failure opens it again.      *)
(*                                                                         *)
(* Each number counts in one state only and is 0 in the other two.         *)
(***************************************************************************)
EXTENDS Naturals

CONSTANTS FailureThreshold, SuccessThreshold, Timeout

VARIABLES
  state,
  failures,   \* failures in a row, while closed
  successes,  \* successful probes, while half-open
  timer,      \* age of the last failure, saturating at Timeout, while open
  resetting   \* a reset has taken effect and has not returned yet

numbers == <<failures, successes, timer>>
abstractVars == <<state, numbers, resetting>>

Enter(s, f, n) ==
  state' = s /\ failures' = f /\ successes' = n /\ timer' = 0

HInit ==
  /\ state = "Closed" /\ failures = 0 /\ successes = 0 /\ timer = 0
  /\ resetting = FALSE

Probe == state = "Open" /\ timer = Timeout /\ Enter("HalfOpen", 0, 0)

Success ==
  \/ state = "Closed" /\ Enter("Closed", 0, 0)
  \/ /\ state = "HalfOpen"
     /\ IF successes + 1 >= SuccessThreshold THEN Enter("Closed", 0, 0)
        ELSE Enter("HalfOpen", 0, successes + 1)

Failure ==
  \/ /\ state = "Closed"
     /\ IF failures + 1 >= FailureThreshold THEN Enter("Open", 0, 0)
        ELSE Enter("Closed", failures + 1, 0)
  \/ state \in {"HalfOpen", "Open"} /\ Enter("Open", 0, 0)

Wait ==
  /\ state = "Open" /\ timer < Timeout
  /\ timer' = timer + 1
  /\ UNCHANGED <<state, failures, successes>>

BeginReset == ~resetting /\ resetting' = TRUE /\ Enter("Closed", 0, 0)

EndReset == resetting /\ resetting' = FALSE /\ UNCHANGED <<state, numbers>>

HNext ==
  \/ (Probe \/ Success \/ Failure \/ Wait) /\ UNCHANGED resetting
  \/ BeginReset
  \/ EndReset

HSpec == HInit /\ [][HNext]_abstractVars
===============================================================================
