---------------------------- MODULE CircuitBreaker ----------------------------
(***************************************************************************)
(* The circuit breaker of src/circuit_breaker.rs, shared by the tasks of a *)
(* multi-threaded runtime.                                                 *)
(*                                                                         *)
(* The state and the time of the last failure sit behind two separate      *)
(* locks, the counters are atomics, and no operation keeps one of them     *)
(* locked while it touches another.  So one step of this model is one      *)
(* access to one shared field, and the steps of different tasks interleave *)
(* freely.  A task follows the protocol of the module's documentation:     *)
(* allow_request, the guarded request, then record_success or              *)
(* record_failure.                                                         *)
(*                                                                         *)
(* An Instant is represented by its age in ticks.  The code only compares  *)
(* an age with the timeout, so ages saturate at Timeout.                   *)
(***************************************************************************)
EXTENDS Naturals

CONSTANTS
  Tasks,             \* the concurrent callers
  FailureThreshold,  \* config.failure_threshold
  SuccessThreshold,  \* config.success_threshold
  Timeout,           \* config.timeout, in ticks
  CounterMod,        \* the wrap-around of the usize statistics counters
  NoInstant,         \* None of Option<Instant>
  Faults,            \* which of "racing_reset" and "cancel" may happen
  CountBound         \* futures are only dropped while the counts are this small

ASSUME ConfigAssumption ==
  /\ FailureThreshold \in Nat \ {0}
  /\ SuccessThreshold \in Nat \ {0}
  /\ Timeout \in Nat
  /\ CounterMod \in Nat \ {0}
  /\ NoInstant \notin Nat
  /\ Faults \subseteq {"racing_reset", "cancel"}
  /\ CountBound \in Nat

VARIABLES
  state, failure_count, success_count, last_failure_time,
  total_requests, total_failures,
  pc,     \* the next step of each task
  stamp,  \* the evaluated Some(Instant::now()) a task is about to store
  up      \* whether the guarded service currently answers

counters == <<failure_count, success_count>>
totals == <<total_requests, total_failures>>
vars == <<state, counters, last_failure_time, totals, pc, stamp, up>>

State == {"Closed", "Open", "HalfOpen"}
Ages == 0..Timeout

ResetSteps == {"reset_clear_f", "reset_clear_s", "reset_forget"}
StampSteps == {"open_stamp", "reopen_stamp", "late_stamp"}
SaveSteps == {"open_save", "reopen_save", "late_save"}
Steps ==
  {"idle", "allow_read", "allow_timer", "half_open", "half_clear", "request",
   "success_read", "success_add", "success_clear",
   "close", "close_clear_f", "close_clear_s",
   "failure_read", "failure_add", "open", "reopen",
   "reopen_clear_f", "reopen_clear_s"}
    \cup StampSteps \cup SaveSteps \cup ResetSteps

\* The steps that begin with an .await, where a dropped future stops.
AwaitSteps ==
  {"allow_read", "allow_timer", "half_open", "request", "success_read",
   "close", "failure_read", "open", "reopen", "reset_forget"} \cup SaveSteps

Init ==
  /\ state = "Closed"
  /\ failure_count = 0
  /\ success_count = 0
  /\ last_failure_time = NoInstant
  /\ total_requests = 0
  /\ total_failures = 0
  /\ pc = [t \in Tasks |-> "idle"]
  /\ stamp = [t \in Tasks |-> 0]
  /\ up \in BOOLEAN

Goto(t, from, to) == pc[t] = from /\ pc' = [pc EXCEPT ![t] = to]

\* Without the fault "racing_reset" a reset has the breaker for itself.
NoResetRunning ==
  "racing_reset" \in Faults \/ \A u \in Tasks : pc[u] \notin ResetSteps

-------------------------------------------------------------------------------
\* allow_request

CallAllow(t) ==
  /\ NoResetRunning
  /\ Goto(t, "idle", "allow_read")
  /\ total_requests' = (total_requests + 1) % CounterMod
  /\ UNCHANGED <<state, counters, last_failure_time, total_failures, stamp, up>>

AllowRead(t) ==
  /\ Goto(t, "allow_read", IF state = "Open" THEN "allow_timer" ELSE "request")
  /\ UNCHANGED <<state, counters, last_failure_time, totals, stamp, up>>

Elapsed == last_failure_time # NoInstant /\ last_failure_time >= Timeout

AllowTimer(t) ==
  /\ Goto(t, "allow_timer", IF Elapsed THEN "half_open" ELSE "idle")
  /\ UNCHANGED <<state, counters, last_failure_time, totals, stamp, up>>

SetHalfOpenKeepingSuccesses(t) ==
  /\ Goto(t, "half_open", "request")
  /\ state' = "HalfOpen"
  /\ UNCHANGED <<counters, last_failure_time, totals, stamp, up>>

SetHalfOpen(t) ==
  /\ Goto(t, "half_open", "half_clear")
  /\ state' = "HalfOpen"
  /\ UNCHANGED <<counters, last_failure_time, totals, stamp, up>>

-------------------------------------------------------------------------------
\* The guarded request of the caller, then the start of record_success or
\* record_failure (whose first statement counts the failure).

RequestSucceeds(t) ==
  /\ up
  /\ Goto(t, "request", "success_read")
  /\ UNCHANGED <<state, counters, last_failure_time, totals, stamp, up>>

RequestFails(t) ==
  /\ ~up
  /\ Goto(t, "request", "failure_read")
  /\ total_failures' = (total_failures + 1) % CounterMod
  /\ UNCHANGED <<state, counters, last_failure_time, total_requests, stamp, up>>

-------------------------------------------------------------------------------
\* record_success

SuccessReadIgnoringHalfOpen(t) ==
  /\ Goto(t, "success_read", IF state = "Closed" THEN "success_clear" ELSE "idle")
  /\ UNCHANGED <<state, counters, last_failure_time, totals, stamp, up>>

SuccessRead(t) ==
  /\ \/ state = "HalfOpen" /\ Goto(t, "success_read", "success_add")
     \/ state = "Closed" /\ Goto(t, "success_read", "success_clear")
     \/ state = "Open" /\ Goto(t, "success_read", "idle")
  /\ UNCHANGED <<state, counters, last_failure_time, totals, stamp, up>>

SuccessAdd(t) ==
  /\ Goto(t, "success_add",
          IF success_count + 1 >= SuccessThreshold THEN "close" ELSE "idle")
  /\ success_count' = success_count + 1
  /\ UNCHANGED <<state, failure_count, last_failure_time, totals, stamp, up>>

SetClosedKeepingFailures(t) ==
  /\ Goto(t, "close", "close_clear_s")
  /\ state' = "Closed"
  /\ UNCHANGED <<counters, last_failure_time, totals, stamp, up>>

SetClosed(t) ==
  /\ Goto(t, "close", "close_clear_f")
  /\ state' = "Closed"
  /\ UNCHANGED <<counters, last_failure_time, totals, stamp, up>>

-------------------------------------------------------------------------------
\* record_failure

FailureRead(t) ==
  /\ \/ state = "Closed" /\ Goto(t, "failure_read", "failure_add")
     \/ state = "HalfOpen" /\ Goto(t, "failure_read", "reopen")
     \/ state = "Open" /\ Goto(t, "failure_read", "late_stamp")
  /\ UNCHANGED <<state, counters, last_failure_time, totals, stamp, up>>

FailureAddNotStored(t) ==
  /\ Goto(t, "failure_add",
          IF failure_count + 1 >= FailureThreshold THEN "open" ELSE "idle")
  /\ UNCHANGED <<state, counters, last_failure_time, totals, stamp, up>>

FailureAddOffByOne(t) ==
  /\ Goto(t, "failure_add",
          IF failure_count >= FailureThreshold THEN "open" ELSE "idle")
  /\ failure_count' = failure_count + 1
  /\ UNCHANGED <<state, success_count, last_failure_time, totals, stamp, up>>

FailureAdd(t) ==
  /\ Goto(t, "failure_add",
          IF failure_count + 1 >= FailureThreshold THEN "open" ELSE "idle")
  /\ failure_count' = failure_count + 1
  /\ UNCHANGED <<state, success_count, last_failure_time, totals, stamp, up>>

SetOpen(t) ==
  /\ \/ Goto(t, "open", "open_stamp")
     \/ Goto(t, "reopen", "reopen_stamp")
  /\ state' = "Open"
  /\ UNCHANGED <<counters, last_failure_time, totals, stamp, up>>

\* The right-hand side Some(Instant::now()), evaluated before the lock is taken.
Stamp(t) ==
  /\ \/ Goto(t, "open_stamp", "open_save")
     \/ Goto(t, "reopen_stamp", "reopen_save")
     \/ Goto(t, "late_stamp", "late_save")
  /\ stamp' = [stamp EXCEPT ![t] = 0]
  /\ UNCHANGED <<state, counters, last_failure_time, totals, up>>

SaveForgotten(t) ==
  /\ \/ Goto(t, "open_save", "idle")
     \/ Goto(t, "reopen_save", "reopen_clear_f")
     \/ Goto(t, "late_save", "idle")
  /\ stamp' = [stamp EXCEPT ![t] = 0]
  /\ UNCHANGED <<state, counters, last_failure_time, totals, up>>

Save(t) ==
  /\ \/ Goto(t, "open_save", "idle")
     \/ Goto(t, "reopen_save", "reopen_clear_f")
     \/ Goto(t, "late_save", "idle")
  /\ last_failure_time' = stamp[t]
  /\ stamp' = [stamp EXCEPT ![t] = 0]
  /\ UNCHANGED <<state, counters, totals, up>>

-------------------------------------------------------------------------------
\* reset, and the stores to the two counters that several operations share

CallReset(t) ==
  /\ "racing_reset" \in Faults \/ \A u \in Tasks : pc[u] = "idle"
  /\ Goto(t, "idle", "reset_clear_f")
  /\ state' = "Closed"
  /\ UNCHANGED <<counters, last_failure_time, totals, stamp, up>>

Forget(t) ==
  /\ Goto(t, "reset_forget", "idle")
  /\ last_failure_time' = NoInstant
  /\ UNCHANGED <<state, counters, totals, stamp, up>>

ClearFailures(t) ==
  /\ \/ Goto(t, "success_clear", "idle")
     \/ Goto(t, "close_clear_f", "close_clear_s")
     \/ Goto(t, "reopen_clear_f", "reopen_clear_s")
     \/ Goto(t, "reset_clear_f", "reset_clear_s")
  /\ failure_count' = 0
  /\ UNCHANGED <<state, success_count, last_failure_time, totals, stamp, up>>

DecrementSuccesses(t) ==
  /\ \/ Goto(t, "half_clear", "request")
     \/ Goto(t, "close_clear_s", "idle")
     \/ Goto(t, "reopen_clear_s", "idle")
     \/ Goto(t, "reset_clear_s", "reset_forget")
  /\ success_count' = success_count - 1
  /\ UNCHANGED <<state, failure_count, last_failure_time, totals, stamp, up>>

ClearSuccesses(t) ==
  /\ \/ Goto(t, "half_clear", "request")
     \/ Goto(t, "close_clear_s", "idle")
     \/ Goto(t, "reopen_clear_s", "idle")
     \/ Goto(t, "reset_clear_s", "reset_forget")
  /\ success_count' = 0
  /\ UNCHANGED <<state, failure_count, last_failure_time, totals, stamp, up>>

-------------------------------------------------------------------------------
\* The environment

\* The future of the call is dropped (its client went away) at an .await.
Cancel(t) ==
  /\ "cancel" \in Faults
  /\ pc[t] \in AwaitSteps
  /\ failure_count <= CountBound /\ success_count <= CountBound
  /\ pc' = [pc EXCEPT ![t] = "idle"]
  /\ stamp' = [stamp EXCEPT ![t] = 0]
  /\ UNCHANGED <<state, counters, last_failure_time, totals, up>>

Older(age) == IF age < Timeout THEN age + 1 ELSE age

Tick ==
  /\ last_failure_time' = IF last_failure_time = NoInstant
                            THEN NoInstant ELSE Older(last_failure_time)
  /\ stamp' = [t \in Tasks |->
                 IF pc[t] \in SaveSteps THEN Older(stamp[t]) ELSE stamp[t]]
  /\ UNCHANGED <<state, counters, totals, pc, up>>

UpstreamFlips ==
  /\ up' = ~up
  /\ UNCHANGED <<state, counters, last_failure_time, totals, pc, stamp>>

Run(t) ==
  \/ CallAllow(t) \/ AllowRead(t) \/ AllowTimer(t) \/ SetHalfOpen(t)
  \/ RequestSucceeds(t) \/ RequestFails(t)
  \/ SuccessRead(t) \/ SuccessAdd(t) \/ SetClosed(t)
  \/ FailureRead(t) \/ FailureAdd(t) \/ SetOpen(t) \/ Stamp(t) \/ Save(t)
  \/ Forget(t) \/ ClearFailures(t) \/ ClearSuccesses(t)

Next ==
  \/ \E t \in Tasks : Run(t) \/ CallReset(t) \/ Cancel(t)
  \/ Tick
  \/ UpstreamFlips

Spec == Init /\ [][Next]_vars

\* The runtime keeps polling every task, callers keep coming, time passes.
FairSpec == Spec /\ WF_vars(Tick) /\ \A t \in Tasks : WF_vars(Run(t))

-------------------------------------------------------------------------------
\* Properties

\* Every field holds a value of its Rust type: the counters are unsigned and
\* the stored instants are never ahead of the clock.
TypeOK ==
  /\ state \in State
  /\ failure_count \in Nat
  /\ success_count \in Nat
  /\ last_failure_time \in Ages \cup {NoInstant}
  /\ total_requests \in 0..(CounterMod - 1)
  /\ total_failures \in 0..(CounterMod - 1)
  /\ pc \in [Tasks -> Steps]
  /\ stamp \in [Tasks -> Ages]
  /\ up \in BOOLEAN

Pending(S) == \E t \in Tasks : pc[t] \in S

\* A closed breaker whose failures have reached the threshold is never at
\* rest: some task is about to open it (record_failure, line 159) or about to
\* clear a count that an earlier period left behind (lines 136 and 195).
NoMissedTrip ==
  state = "Closed" /\ failure_count >= FailureThreshold
    => Pending({"open", "close_clear_f", "reset_clear_f"})

\* A half-open breaker whose successes have reached the threshold is never at
\* rest: some task is about to close it (record_success, line 135) or about to
\* clear the successes of an earlier half-open period (line 113).
NoMissedClose ==
  state = "HalfOpen" /\ success_count >= SuccessThreshold
    => Pending({"close", "half_clear"})

\* An open breaker can always be left again: allow_request answers false for
\* ever when no failure time is stored (line 118), so an open breaker has one
\* or a task is still on its way to store one (lines 160 and 166).
OpenHasTimer ==
  state = "Open"
    => \/ last_failure_time # NoInstant
       \/ Pending({"open_stamp", "open_save", "reopen_stamp", "reopen_save"})

\* A service that is up for good gets its traffic back: once futures are no
\* longer dropped, and unless one was dropped at line 160 and left the breaker
\* open without a failure time, it is closed from some point on, whatever calls
\* were in flight when the service recovered.
Recovery ==
  /\ <>[]up
  /\ <>[][\A t \in Tasks : ~Cancel(t)]_vars
  /\ []OpenHasTimer
  => <>[](state = "Closed")

\* A service that is down for good is cut off: once resets and dropped futures
\* stop interfering, the breaker does not stay closed.  A trip lost to a dropped
\* future (line 159) is made up for by a later failure.
Trips ==
  /\ <>[](~up /\ ~Pending(ResetSteps))
  /\ <>[][\A t \in Tasks : ~Cancel(t)]_vars
  => []<>(state # "Closed")
===============================================================================
