----------------------- MODULE CircuitBreakerRefinement -----------------------
(***************************************************************************)
(* Serial use of the breaker: requests overlap, but at most one task at a  *)
(* time is inside one of the breaker's operations.  Used that way,         *)
(* CircuitBreaker implements HystrixBreaker: its several stores act as one. *)
(***************************************************************************)
EXTENDS CircuitBreaker

OneInside ==
  \A t, u \in Tasks :
    t # u => pc[t] \in {"idle", "request"} \/ pc[u] \in {"idle", "request"}

SerialSpec == Init /\ [][Next /\ OneInside']_vars

\* A failure takes effect when its instant is read, so a breaker that is being
\* opened still counts as closed (or half-open) until then.
AbsState ==
  IF Pending({"open", "open_stamp"}) THEN "Closed"
  ELSE IF Pending({"reopen", "reopen_stamp"}) THEN "HalfOpen"
  ELSE state

\* Counts that an unfinished operation is about to clear are already 0, and
\* the increment that leads to a transition belongs to that transition.
AbsFailures ==
  IF AbsState # "Closed" \/ Pending({"close_clear_f", "reset_clear_f"}) THEN 0
  ELSE IF Pending({"open", "open_stamp"}) THEN failure_count - 1
  ELSE failure_count

AbsSuccesses ==
  IF AbsState # "HalfOpen" \/ Pending({"half_clear"}) THEN 0
  ELSE IF Pending({"close"}) THEN success_count - 1
  ELSE success_count

AbsTimer ==
  IF AbsState # "Open" THEN 0
  ELSE IF Pending(SaveSteps) THEN stamp[CHOOSE t \in Tasks : pc[t] \in SaveSteps]
  ELSE last_failure_time

Abstract == INSTANCE HystrixBreaker WITH
  state <- AbsState, failures <- AbsFailures,
  successes <- AbsSuccesses, timer <- AbsTimer,
  resetting <- Pending(ResetSteps)

\* Every step of a serially used breaker (all of src/circuit_breaker.rs,
\* resets between overlapping requests included) is a step of the abstract
\* breaker or invisible to it.
ImplementsHystrixBreaker == Abstract!HSpec
===============================================================================
