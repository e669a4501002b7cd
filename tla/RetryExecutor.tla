----------------------------- MODULE RetryExecutor -----------------------------
(***************************************************************************)
(* The retry executor of src/retry.rs with its policy.  execute borrows    *)
(* the executor mutably, so its calls follow one another; the attempt      *)
(* counter outlives a call, and only reset clears it.  The future of a     *)
(* call may be dropped while it awaits a request or sleeps.                *)
(*                                                                         *)
(* An error matters only by whether its text counts as retryable; execute  *)
(* looks at no status code.                                                *)
(***************************************************************************)
EXTENDS Integers

CONSTANTS
  MaxRetries,    \* config.max_retries
  BaseDelay,     \* config.base_delay, in milliseconds
  MaxDelay,      \* config.max_delay, in milliseconds
  Powers,        \* the values of config.backoff_multiplier, each by its powers
  UseJitter,     \* the values of config.use_jitter to consider
  ExecuteBound   \* bound: calls of execute between two resets

\* The multiplier is any rational number, checked nowhere: above or below 1, zero or
\* negative.  Its n-th power, f64::powi, is p[n] / p[0].
ASSUME RetryAssumption ==
  /\ MaxRetries \in Nat
  /\ BaseDelay \in Nat
  /\ MaxDelay \in Nat
  /\ Powers \subseteq [0..MaxRetries -> Int]
  /\ \A p \in Powers : p[0] > 0 /\ \A n \in 1..MaxRetries : p[n] * p[0] = p[n - 1] * p[1]
  /\ UseJitter \subseteq BOOLEAN
  /\ ExecuteBound \in Nat

Outcomes == {"ok", "retryable_error", "other_error"}

VARIABLES
  use_jitter, powi,  \* the configuration, fixed when the executor is built
  attempt,
  pc,        \* idle, or what execute awaits: a request or a sleep
  delay,     \* the last delay that was slept since the last reset
  calls,     \* requests made by the current call of execute
  result,    \* what the last call returned, and the attempts it reported
  started,   \* history since the last reset: the calls of execute,
  requests   \*                               and the requests they made

config == <<use_jitter, powi>>
history == <<started, requests>>
vars == <<config, attempt, pc, delay, calls, result, history>>

NoResult == [kind |-> "none", attempts |-> 0]

Init ==
  /\ use_jitter \in UseJitter
  /\ powi \in Powers
  /\ attempt = 0
  /\ pc = "idle"
  /\ delay = 0
  /\ calls = 0
  /\ result = NoResult
  /\ started = 0
  /\ requests = 0

-------------------------------------------------------------------------------
\* RetryPolicy

HasRemainingRetries == attempt < MaxRetries

ShouldRetryError(outcome) == HasRemainingRetries /\ outcome = "retryable_error"

Lesser(a, b) == IF a <= b THEN a ELSE b

\* The delay before jitter, in units of 1 / powi[0] milliseconds.
Backoff(n) == Lesser(BaseDelay * powi[n], MaxDelay * powi[0])

\* delay_ms as u64: what is negative becomes zero, and a fraction is cut off.
WholeMillis(d) == IF d > 0 THEN d \div powi[0] ELSE 0

\* The delays that next_delay may compute.  The jitter is a factor of at least
\* 0.5 and less than 1.5 on what the cap has left.
NextDelayOfRemaining == {WholeMillis(Backoff(MaxRetries - attempt))}

NextDelay ==
  LET d == Backoff(attempt)
  IN  IF use_jitter /\ d > 0
      THEN (d \div (2 * powi[0]))..((3 * d - 1) \div (2 * powi[0]))
      ELSE {WholeMillis(d)}

RecordRetryUncounted ==
  /\ delay' \in NextDelay
  /\ UNCHANGED attempt

RecordRetryTwice ==
  /\ HasRemainingRetries
  /\ delay' \in NextDelay
  /\ attempt' = attempt + 2

RecordRetry ==
  /\ HasRemainingRetries
  /\ delay' \in NextDelay
  /\ attempt' = attempt + 1

-------------------------------------------------------------------------------
\* RetryExecutor

\* One round of the loop begins by calling request_fn.  The two numbers of
\* requests saturate just above what the properties allow.
RequestFn(n) ==
  /\ pc' = "request"
  /\ calls' = Lesser(n, MaxRetries + 2)
  /\ requests' = Lesser(requests + 1, ExecuteBound + MaxRetries + 1)

Execute ==
  /\ pc = "idle"
  /\ started < ExecuteBound
  /\ RequestFn(1)
  /\ started' = started + 1
  /\ result' = NoResult
  /\ UNCHANGED <<config, attempt, delay>>

Return(kind, attempts) ==
  /\ pc' = "idle"
  /\ result' = [kind |-> kind, attempts |-> attempts]
  /\ UNCHANGED <<config, attempt, delay, calls, history>>

\* The request completes; any Ok is returned as it is, and the loop ends.
Complete(outcome) ==
  /\ pc = "request"
  /\ \/ outcome = "ok" /\ Return("ok", 0)
     \/ /\ ShouldRetryError(outcome)
        /\ RecordRetry
        /\ pc' = "sleep"
        /\ UNCHANGED <<config, calls, result, history>>
     \/ /\ outcome \in {"retryable_error", "other_error"}
        /\ ~ShouldRetryError(outcome)
        /\ Return("exhausted", attempt + 1)

Wake ==
  /\ pc = "sleep"
  /\ RequestFn(calls + 1)
  /\ UNCHANGED <<config, attempt, delay, result, started>>

Reset ==
  /\ pc = "idle"
  /\ attempt' = 0
  /\ delay' = 0
  /\ started' = 0
  /\ requests' = 0
  /\ result' = NoResult
  /\ UNCHANGED <<config, pc, calls>>

\* The future of execute is dropped by its caller.
Cancel ==
  /\ pc # "idle"
  /\ pc' = "idle"
  /\ UNCHANGED <<config, attempt, delay, calls, result, history>>

Progress == Wake \/ \E outcome \in Outcomes : Complete(outcome)

Next == Execute \/ Progress \/ Reset \/ Cancel

Spec == Init /\ [][Next]_vars

\* A sleep ends, and a request completes (it runs under a timeout).
FairSpec == Spec /\ WF_vars(Progress)

-------------------------------------------------------------------------------
\* Properties

\* However often the executor is used, given up and used again without a reset
\* in between, all its calls together retry at most max_retries times.
RetriesBounded == requests <= started + MaxRetries

\* The attempts reported by the first call after a reset (line 230) are the
\* requests it made, also when an earlier call was dropped in its sleep.
AttemptsExact ==
  result.kind = "exhausted" /\ started = 1 => result.attempts = calls

\* Without jitter no delay is above the cap, and from one retry to the next they
\* never shrink if the multiplier is at least 1, whatever fractions are cut off.
\* With jitter neither holds: the factor is applied after the cap (lines 118 to 128).
BackoffGrows ==
  [][pc = "request" /\ pc' = "sleep" /\ ~use_jitter =>
       /\ delay' <= MaxDelay
       /\ powi[1] >= powi[0] => delay' >= delay]_vars

\* A call of execute returns (or is dropped) although every request may fail.
ExecuteReturns == pc # "idle" ~> pc = "idle"
===============================================================================
