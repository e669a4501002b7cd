------------------------- MODULE CircuitBreaker_proofs -------------------------
(***************************************************************************)
(* What is proved about the circuit breaker, for every number of tasks and *)
(* every configuration: its invariants under any interleaving, and that a  *)
(* serially used breaker implements the atomic one.                        *)
(***************************************************************************)
EXTENDS CircuitBreakerRefinement, TLAPS

\* A step of the protocol moves one task and leaves the others where they are.
LEMMA GotoMoves ==
  ASSUME NEW t \in Tasks, NEW l, NEW m, pc \in [Tasks -> Steps], Goto(t, l, m)
  PROVE  /\ pc[t] = l
         /\ pc'[t] = m
         /\ \A u \in Tasks \ {t} : pc'[u] = pc[u]
BY DEF Goto

LEMMA GotoType ==
  ASSUME NEW t \in Tasks, NEW l, NEW m \in Steps, pc \in [Tasks -> Steps],
         Goto(t, l, m)
  PROVE  pc' \in [Tasks -> Steps]
BY DEF Goto

\* A set of steps stays occupied when the task that moves comes from elsewhere,
\* and becomes occupied when that task enters it.
LEMMA PendingKept ==
  ASSUME NEW S, NEW t \in Tasks, NEW l, NEW m, pc \in [Tasks -> Steps],
         Goto(t, l, m), l \notin S
  PROVE  Pending(S) => Pending(S)'
BY GotoMoves DEF Pending

LEMMA PendingEntered ==
  ASSUME NEW S, NEW t \in Tasks, NEW l, NEW m, pc \in [Tasks -> Steps],
         Goto(t, l, m), m \in S
  PROVE  Pending(S)'
BY GotoMoves DEF Pending

\* Ages stay between 0 and the timeout as time passes.
LEMMA OlderType ==
  ASSUME NEW a \in Ages
  PROVE  Older(a) \in Ages
BY ConfigAssumption DEF Older, Ages

\* A statistics counter wraps around within its width.
LEMMA WrapType ==
  ASSUME NEW n \in 0..(CounterMod - 1)
  PROVE  (n + 1) % CounterMod \in 0..(CounterMod - 1)
BY ConfigAssumption

-------------------------------------------------------------------------------
\* The type invariant of the breaker is preserved by every step of every
\* operation: the counters stay unsigned, stored instants stay in the past.
LEMMA TypeStep == TypeOK /\ [Next]_vars => TypeOK'
<1> SUFFICES ASSUME TypeOK, [Next]_vars PROVE TypeOK'
  OBVIOUS
<1> USE DEF TypeOK, counters, totals
<1>1. ASSUME NEW t \in Tasks, CallAllow(t) PROVE TypeOK'
  <2>1. total_requests' \in 0..(CounterMod - 1)
    BY <1>1, WrapType DEF CallAllow
  <2> QED BY <1>1, <2>1, GotoType DEF CallAllow, Steps
<1>2. ASSUME NEW t \in Tasks, AllowRead(t) PROVE TypeOK'
  BY <1>2, GotoType DEF AllowRead, Steps
<1>3. ASSUME NEW t \in Tasks, AllowTimer(t) PROVE TypeOK'
  BY <1>3, GotoType DEF AllowTimer, Steps
<1>4. ASSUME NEW t \in Tasks, SetHalfOpen(t) PROVE TypeOK'
  BY <1>4, GotoType DEF SetHalfOpen, Steps, State
<1>5. ASSUME NEW t \in Tasks, RequestSucceeds(t) PROVE TypeOK'
  BY <1>5, GotoType DEF RequestSucceeds, Steps
<1>6. ASSUME NEW t \in Tasks, RequestFails(t) PROVE TypeOK'
  <2>1. total_failures' \in 0..(CounterMod - 1)
    BY <1>6, WrapType DEF RequestFails
  <2> QED BY <1>6, <2>1, GotoType DEF RequestFails, Steps
<1>7. ASSUME NEW t \in Tasks, SuccessRead(t) PROVE TypeOK'
  BY <1>7, GotoType DEF SuccessRead, Steps, State
<1>8. ASSUME NEW t \in Tasks, SuccessAdd(t) PROVE TypeOK'
  BY <1>8, GotoType DEF SuccessAdd, Steps
<1>9. ASSUME NEW t \in Tasks, SetClosed(t) PROVE TypeOK'
  BY <1>9, GotoType DEF SetClosed, Steps, State
<1>10. ASSUME NEW t \in Tasks, FailureRead(t) PROVE TypeOK'
  BY <1>10, GotoType DEF FailureRead, Steps, State, StampSteps
<1>11. ASSUME NEW t \in Tasks, FailureAdd(t) PROVE TypeOK'
  BY <1>11, GotoType DEF FailureAdd, Steps
<1>12. ASSUME NEW t \in Tasks, SetOpen(t) PROVE TypeOK'
  BY <1>12, GotoType DEF SetOpen, Steps, State, StampSteps
<1>13. ASSUME NEW t \in Tasks, Stamp(t) PROVE TypeOK'
  BY <1>13, GotoType, ConfigAssumption DEF Stamp, Steps, SaveSteps, Ages
<1>14. ASSUME NEW t \in Tasks, Save(t) PROVE TypeOK'
  BY <1>14, GotoType, ConfigAssumption DEF Save, Steps, Ages
<1>15. ASSUME NEW t \in Tasks, CallReset(t) PROVE TypeOK'
  BY <1>15, GotoType DEF CallReset, Steps, State, ResetSteps
<1>16. ASSUME NEW t \in Tasks, Forget(t) PROVE TypeOK'
  BY <1>16, GotoType DEF Forget, Steps
<1>17. ASSUME NEW t \in Tasks, ClearFailures(t) PROVE TypeOK'
  BY <1>17, GotoType DEF ClearFailures, Steps, ResetSteps
<1>18. ASSUME NEW t \in Tasks, ClearSuccesses(t) PROVE TypeOK'
  BY <1>18, GotoType DEF ClearSuccesses, Steps, ResetSteps
<1>19. ASSUME NEW t \in Tasks, Cancel(t) PROVE TypeOK'
  BY <1>19, ConfigAssumption DEF Cancel, Steps, Ages
<1>20. CASE Tick
  <2>1. last_failure_time' \in Ages \cup {NoInstant}
    BY <1>20, OlderType DEF Tick
  <2>2. stamp' \in [Tasks -> Ages]
    BY <1>20, OlderType DEF Tick
  <2> QED BY <1>20, <2>1, <2>2 DEF Tick
<1>21. CASE UpstreamFlips
  BY <1>21 DEF UpstreamFlips
<1>22. CASE UNCHANGED vars
  BY <1>22 DEF vars
<1> QED
  BY <1>1, <1>2, <1>3, <1>4, <1>5, <1>6, <1>7, <1>8, <1>9, <1>10, <1>11,
     <1>12, <1>13, <1>14, <1>15, <1>16, <1>17, <1>18, <1>19, <1>20, <1>21,
     <1>22 DEF Next, Run

\* Type correctness of the breaker under any interleaving of its callers,
\* dropped futures and racing resets included.
THEOREM TypeCorrect == Spec => []TypeOK
<1>1. Init => TypeOK
  BY ConfigAssumption DEF Init, TypeOK, State, Steps, Ages
<1> QED BY <1>1, TypeStep, PTL DEF Spec
-------------------------------------------------------------------------------
\* As long as no future is dropped, every step preserves NoMissedTrip: the step
\* that takes the count to the threshold leaves its task about to open, and
\* the two stores of Closed leave theirs about to clear the count.
LEMMA NoMissedTripStep ==
  ASSUME "cancel" \notin Faults, TypeOK, NoMissedTrip, [Next]_vars
  PROVE  NoMissedTrip'
<1> USE DEF counters, totals, NoMissedTrip, TypeOK
<1>1. ASSUME NEW t \in Tasks, CallAllow(t) PROVE NoMissedTrip'
  BY <1>1, PendingKept DEF CallAllow
<1>2. ASSUME NEW t \in Tasks, AllowRead(t) PROVE NoMissedTrip'
  BY <1>2, PendingKept DEF AllowRead
<1>3. ASSUME NEW t \in Tasks, AllowTimer(t) PROVE NoMissedTrip'
  BY <1>3, PendingKept DEF AllowTimer
<1>4. ASSUME NEW t \in Tasks, SetHalfOpen(t) PROVE NoMissedTrip'
  BY <1>4 DEF SetHalfOpen
<1>5. ASSUME NEW t \in Tasks, RequestSucceeds(t) PROVE NoMissedTrip'
  BY <1>5, PendingKept DEF RequestSucceeds
<1>6. ASSUME NEW t \in Tasks, RequestFails(t) PROVE NoMissedTrip'
  BY <1>6, PendingKept DEF RequestFails
<1>7. ASSUME NEW t \in Tasks, SuccessRead(t) PROVE NoMissedTrip'
  BY <1>7, PendingKept DEF SuccessRead
<1>8. ASSUME NEW t \in Tasks, SuccessAdd(t) PROVE NoMissedTrip'
  BY <1>8, PendingKept DEF SuccessAdd
<1>9. ASSUME NEW t \in Tasks, SetClosed(t) PROVE NoMissedTrip'
  BY <1>9, PendingEntered DEF SetClosed
<1>10. ASSUME NEW t \in Tasks, FailureRead(t) PROVE NoMissedTrip'
  BY <1>10, PendingKept DEF FailureRead
<1>11. ASSUME NEW t \in Tasks, FailureAdd(t) PROVE NoMissedTrip'
  <2>1. CASE failure_count + 1 >= FailureThreshold
    BY <1>11, <2>1, PendingEntered DEF FailureAdd
  <2>2. CASE ~(failure_count + 1 >= FailureThreshold)
    BY <1>11, <2>2 DEF FailureAdd
  <2> QED BY <2>1, <2>2
<1>12. ASSUME NEW t \in Tasks, SetOpen(t) PROVE NoMissedTrip'
  BY <1>12 DEF SetOpen
<1>13. ASSUME NEW t \in Tasks, Stamp(t) PROVE NoMissedTrip'
  BY <1>13, PendingKept DEF Stamp
<1>14. ASSUME NEW t \in Tasks, Save(t) PROVE NoMissedTrip'
  BY <1>14, PendingKept DEF Save
<1>15. ASSUME NEW t \in Tasks, CallReset(t) PROVE NoMissedTrip'
  BY <1>15, PendingEntered DEF CallReset
<1>16. ASSUME NEW t \in Tasks, Forget(t) PROVE NoMissedTrip'
  BY <1>16, PendingKept DEF Forget
<1>17. ASSUME NEW t \in Tasks, ClearFailures(t) PROVE NoMissedTrip'
  BY <1>17, ConfigAssumption DEF ClearFailures
<1>18. ASSUME NEW t \in Tasks, ClearSuccesses(t) PROVE NoMissedTrip'
  BY <1>18, PendingKept DEF ClearSuccesses
<1>19. ASSUME NEW t \in Tasks, Cancel(t) PROVE NoMissedTrip'
  BY <1>19 DEF Cancel
<1>20. CASE Tick
  BY <1>20 DEF Tick, Pending
<1>21. CASE UpstreamFlips
  BY <1>21 DEF UpstreamFlips, Pending
<1>22. CASE UNCHANGED vars
  BY <1>22 DEF vars, Pending
<1> QED
  BY <1>1, <1>2, <1>3, <1>4, <1>5, <1>6, <1>7, <1>8, <1>9, <1>10, <1>11,
     <1>12, <1>13, <1>14, <1>15, <1>16, <1>17, <1>18, <1>19, <1>20, <1>21,
     <1>22 DEF Next, Run

\* In every interleaving of any number of callers and racing resets, failures
\* that reached the threshold of a closed breaker are acted on.
THEOREM NeverMissesTrip ==
  ASSUME "cancel" \notin Faults
  PROVE  Spec => []NoMissedTrip
<1>1. Init => NoMissedTrip
  BY ConfigAssumption DEF Init, NoMissedTrip
<1>2. TypeOK /\ NoMissedTrip /\ [Next]_vars => NoMissedTrip'
  BY NoMissedTripStep
<1> QED BY <1>1, <1>2, TypeCorrect, PTL DEF Spec

\* The same for the successes of a half-open breaker.
LEMMA NoMissedCloseStep ==
  ASSUME "cancel" \notin Faults, TypeOK, NoMissedClose, [Next]_vars
  PROVE  NoMissedClose'
<1> USE DEF counters, totals, NoMissedClose, TypeOK
<1>1. ASSUME NEW t \in Tasks, CallAllow(t) PROVE NoMissedClose'
  BY <1>1, PendingKept DEF CallAllow
<1>2. ASSUME NEW t \in Tasks, AllowRead(t) PROVE NoMissedClose'
  BY <1>2, PendingKept DEF AllowRead
<1>3. ASSUME NEW t \in Tasks, AllowTimer(t) PROVE NoMissedClose'
  BY <1>3, PendingKept DEF AllowTimer
<1>4. ASSUME NEW t \in Tasks, SetHalfOpen(t) PROVE NoMissedClose'
  BY <1>4, PendingEntered DEF SetHalfOpen
<1>5. ASSUME NEW t \in Tasks, RequestSucceeds(t) PROVE NoMissedClose'
  BY <1>5, PendingKept DEF RequestSucceeds
<1>6. ASSUME NEW t \in Tasks, RequestFails(t) PROVE NoMissedClose'
  BY <1>6, PendingKept DEF RequestFails
<1>7. ASSUME NEW t \in Tasks, SuccessRead(t) PROVE NoMissedClose'
  BY <1>7, PendingKept DEF SuccessRead
<1>8. ASSUME NEW t \in Tasks, SuccessAdd(t) PROVE NoMissedClose'
  <2>1. CASE success_count + 1 >= SuccessThreshold
    BY <1>8, <2>1, PendingEntered DEF SuccessAdd
  <2>2. CASE ~(success_count + 1 >= SuccessThreshold)
    BY <1>8, <2>2 DEF SuccessAdd
  <2> QED BY <2>1, <2>2
<1>9. ASSUME NEW t \in Tasks, SetClosed(t) PROVE NoMissedClose'
  BY <1>9 DEF SetClosed
<1>10. ASSUME NEW t \in Tasks, FailureRead(t) PROVE NoMissedClose'
  BY <1>10, PendingKept DEF FailureRead
<1>11. ASSUME NEW t \in Tasks, FailureAdd(t) PROVE NoMissedClose'
  BY <1>11, PendingKept DEF FailureAdd
<1>12. ASSUME NEW t \in Tasks, SetOpen(t) PROVE NoMissedClose'
  BY <1>12 DEF SetOpen
<1>13. ASSUME NEW t \in Tasks, Stamp(t) PROVE NoMissedClose'
  BY <1>13, PendingKept DEF Stamp
<1>14. ASSUME NEW t \in Tasks, Save(t) PROVE NoMissedClose'
  BY <1>14, PendingKept DEF Save
<1>15. ASSUME NEW t \in Tasks, CallReset(t) PROVE NoMissedClose'
  BY <1>15 DEF CallReset
<1>16. ASSUME NEW t \in Tasks, Forget(t) PROVE NoMissedClose'
  BY <1>16, PendingKept DEF Forget
<1>17. ASSUME NEW t \in Tasks, ClearFailures(t) PROVE NoMissedClose'
  BY <1>17, PendingKept DEF ClearFailures
<1>18. ASSUME NEW t \in Tasks, ClearSuccesses(t) PROVE NoMissedClose'
  BY <1>18, ConfigAssumption DEF ClearSuccesses
<1>19. ASSUME NEW t \in Tasks, Cancel(t) PROVE NoMissedClose'
  BY <1>19 DEF Cancel
<1>20. CASE Tick
  BY <1>20 DEF Tick, Pending
<1>21. CASE UpstreamFlips
  BY <1>21 DEF UpstreamFlips, Pending
<1>22. CASE UNCHANGED vars
  BY <1>22 DEF vars, Pending
<1> QED
  BY <1>1, <1>2, <1>3, <1>4, <1>5, <1>6, <1>7, <1>8, <1>9, <1>10, <1>11,
     <1>12, <1>13, <1>14, <1>15, <1>16, <1>17, <1>18, <1>19, <1>20, <1>21,
     <1>22 DEF Next, Run

\* In every interleaving of any number of callers and racing resets, successes
\* that reached the threshold of a half-open breaker are acted on.
THEOREM NeverMissesClose ==
  ASSUME "cancel" \notin Faults
  PROVE  Spec => []NoMissedClose
<1>1. Init => NoMissedClose
  BY DEF Init, NoMissedClose
<1>2. TypeOK /\ NoMissedClose /\ [Next]_vars => NoMissedClose'
  BY NoMissedCloseStep
<1> QED BY <1>1, <1>2, TypeCorrect, PTL DEF Spec

-------------------------------------------------------------------------------
\* What keeps a reset from wiping out the timer of an open breaker: when resets
\* do not race, the task inside reset is the only one inside any operation,
\* and the breaker stays closed until it is done.
ResetAlone ==
  \A t \in Tasks : pc[t] \in ResetSteps =>
    /\ state = "Closed"
    /\ \A u \in Tasks \ {t} : pc[u] = "idle"

\* No step of any task breaks the isolation of a reset.
LEMMA ResetAloneStep ==
  ASSUME Faults = {}, TypeOK, ResetAlone, [Next]_vars
  PROVE  ResetAlone'
<1> USE DEF counters, totals, ResetAlone, TypeOK
<1>1. ASSUME NEW t \in Tasks, CallAllow(t) PROVE ResetAlone'
  BY <1>1, GotoMoves DEF CallAllow, NoResetRunning, ResetSteps
<1>2. ASSUME NEW t \in Tasks, AllowRead(t) PROVE ResetAlone'
  BY <1>2, GotoMoves DEF AllowRead, ResetSteps
<1>3. ASSUME NEW t \in Tasks, AllowTimer(t) PROVE ResetAlone'
  BY <1>3, GotoMoves DEF AllowTimer, ResetSteps
<1>4. ASSUME NEW t \in Tasks, SetHalfOpen(t) PROVE ResetAlone'
  BY <1>4, GotoMoves DEF SetHalfOpen, ResetSteps
<1>5. ASSUME NEW t \in Tasks, RequestSucceeds(t) PROVE ResetAlone'
  BY <1>5, GotoMoves DEF RequestSucceeds, ResetSteps
<1>6. ASSUME NEW t \in Tasks, RequestFails(t) PROVE ResetAlone'
  BY <1>6, GotoMoves DEF RequestFails, ResetSteps
<1>7. ASSUME NEW t \in Tasks, SuccessRead(t) PROVE ResetAlone'
  BY <1>7, GotoMoves DEF SuccessRead, ResetSteps
<1>8. ASSUME NEW t \in Tasks, SuccessAdd(t) PROVE ResetAlone'
  BY <1>8, GotoMoves DEF SuccessAdd, ResetSteps
<1>9. ASSUME NEW t \in Tasks, SetClosed(t) PROVE ResetAlone'
  BY <1>9, GotoMoves DEF SetClosed, ResetSteps
<1>10. ASSUME NEW t \in Tasks, FailureRead(t) PROVE ResetAlone'
  BY <1>10, GotoMoves DEF FailureRead, ResetSteps
<1>11. ASSUME NEW t \in Tasks, FailureAdd(t) PROVE ResetAlone'
  BY <1>11, GotoMoves DEF FailureAdd, ResetSteps
<1>12. ASSUME NEW t \in Tasks, SetOpen(t) PROVE ResetAlone'
  BY <1>12, GotoMoves DEF SetOpen, ResetSteps
<1>13. ASSUME NEW t \in Tasks, Stamp(t) PROVE ResetAlone'
  BY <1>13, GotoMoves DEF Stamp, ResetSteps
<1>14. ASSUME NEW t \in Tasks, Save(t) PROVE ResetAlone'
  BY <1>14, GotoMoves DEF Save, ResetSteps
<1>15. ASSUME NEW t \in Tasks, CallReset(t) PROVE ResetAlone'
  BY <1>15, GotoMoves DEF CallReset, ResetSteps
<1>16. ASSUME NEW t \in Tasks, Forget(t) PROVE ResetAlone'
  BY <1>16, GotoMoves DEF Forget, ResetSteps
<1>17. ASSUME NEW t \in Tasks, ClearFailures(t) PROVE ResetAlone'
  BY <1>17, GotoMoves DEF ClearFailures, ResetSteps
<1>18. ASSUME NEW t \in Tasks, ClearSuccesses(t) PROVE ResetAlone'
  BY <1>18, GotoMoves DEF ClearSuccesses, ResetSteps
<1>19. ASSUME NEW t \in Tasks, Cancel(t) PROVE ResetAlone'
  BY <1>19 DEF Cancel
<1>20. CASE Tick
  BY <1>20, ConfigAssumption DEF Tick, Pending
<1>21. CASE UpstreamFlips
  BY <1>21 DEF UpstreamFlips, Pending
<1>22. CASE UNCHANGED vars
  BY <1>22 DEF vars, Pending
<1> QED
  BY <1>1, <1>2, <1>3, <1>4, <1>5, <1>6, <1>7, <1>8, <1>9, <1>10, <1>11,
     <1>12, <1>13, <1>14, <1>15, <1>16, <1>17, <1>18, <1>19, <1>20, <1>21,
     <1>22 DEF Next, Run

\* Given that isolation, every step preserves OpenHasTimer: the store of Open
\* leaves its task on the way to store the time, and that store is only lost
\* to a reset, which runs while the breaker is closed.
LEMMA OpenHasTimerStep ==
  ASSUME Faults = {}, TypeOK, ResetAlone, OpenHasTimer, [Next]_vars
  PROVE  OpenHasTimer'
<1> USE DEF counters, totals, OpenHasTimer, TypeOK
<1>1. ASSUME NEW t \in Tasks, CallAllow(t) PROVE OpenHasTimer'
  BY <1>1, PendingKept DEF CallAllow
<1>2. ASSUME NEW t \in Tasks, AllowRead(t) PROVE OpenHasTimer'
  BY <1>2, PendingKept DEF AllowRead
<1>3. ASSUME NEW t \in Tasks, AllowTimer(t) PROVE OpenHasTimer'
  BY <1>3, PendingKept DEF AllowTimer
<1>4. ASSUME NEW t \in Tasks, SetHalfOpen(t) PROVE OpenHasTimer'
  BY <1>4 DEF SetHalfOpen
<1>5. ASSUME NEW t \in Tasks, RequestSucceeds(t) PROVE OpenHasTimer'
  BY <1>5, PendingKept DEF RequestSucceeds
<1>6. ASSUME NEW t \in Tasks, RequestFails(t) PROVE OpenHasTimer'
  BY <1>6, PendingKept DEF RequestFails
<1>7. ASSUME NEW t \in Tasks, SuccessRead(t) PROVE OpenHasTimer'
  BY <1>7, PendingKept DEF SuccessRead
<1>8. ASSUME NEW t \in Tasks, SuccessAdd(t) PROVE OpenHasTimer'
  BY <1>8, PendingKept DEF SuccessAdd
<1>9. ASSUME NEW t \in Tasks, SetClosed(t) PROVE OpenHasTimer'
  BY <1>9 DEF SetClosed
<1>10. ASSUME NEW t \in Tasks, FailureRead(t) PROVE OpenHasTimer'
  BY <1>10, PendingKept DEF FailureRead
<1>11. ASSUME NEW t \in Tasks, FailureAdd(t) PROVE OpenHasTimer'
  BY <1>11, PendingKept DEF FailureAdd
<1>12. ASSUME NEW t \in Tasks, SetOpen(t) PROVE OpenHasTimer'
  BY <1>12, PendingEntered DEF SetOpen
<1>13. ASSUME NEW t \in Tasks, Stamp(t) PROVE OpenHasTimer'
  <2>1. CASE Goto(t, "late_stamp", "late_save")
    BY <1>13, <2>1, PendingKept DEF Stamp
  <2>2. CASE ~Goto(t, "late_stamp", "late_save")
    BY <1>13, <2>2, PendingEntered DEF Stamp
  <2> QED BY <2>1, <2>2
<1>14. ASSUME NEW t \in Tasks, Save(t) PROVE OpenHasTimer'
  <2>1. last_failure_time' \in Nat
    BY <1>14 DEF Save, Ages
  <2> QED BY <2>1, ConfigAssumption
<1>15. ASSUME NEW t \in Tasks, CallReset(t) PROVE OpenHasTimer'
  BY <1>15 DEF CallReset
<1>16. ASSUME NEW t \in Tasks, Forget(t) PROVE OpenHasTimer'
  <2>1. state = "Closed"
    BY <1>16 DEF Forget, Goto, ResetAlone, ResetSteps
  <2> QED BY <1>16, <2>1 DEF Forget
<1>17. ASSUME NEW t \in Tasks, ClearFailures(t) PROVE OpenHasTimer'
  BY <1>17, PendingKept DEF ClearFailures
<1>18. ASSUME NEW t \in Tasks, ClearSuccesses(t) PROVE OpenHasTimer'
  BY <1>18, PendingKept DEF ClearSuccesses
<1>19. ASSUME NEW t \in Tasks, Cancel(t) PROVE OpenHasTimer'
  BY <1>19 DEF Cancel
<1>20. CASE Tick
  BY <1>20, ConfigAssumption DEF Tick, Pending, Ages, Older
<1>21. CASE UpstreamFlips
  BY <1>21 DEF UpstreamFlips, Pending
<1>22. CASE UNCHANGED vars
  BY <1>22 DEF vars, Pending
<1> QED
  BY <1>1, <1>2, <1>3, <1>4, <1>5, <1>6, <1>7, <1>8, <1>9, <1>10, <1>11,
     <1>12, <1>13, <1>14, <1>15, <1>16, <1>17, <1>18, <1>19, <1>20, <1>21,
     <1>22 DEF Next, Run

\* For any number of callers, a breaker whose futures are never dropped and
\* whose resets do not race can always leave Open again.
THEOREM OpenIsTimed ==
  ASSUME Faults = {}
  PROVE  Spec => []OpenHasTimer
<1> DEFINE IInv == ResetAlone /\ OpenHasTimer
<1>1. Init => IInv
  BY DEF Init, ResetAlone, ResetSteps, OpenHasTimer
<1>2. TypeOK /\ IInv /\ [Next]_vars => IInv'
  BY ResetAloneStep, OpenHasTimerStep
<1>3. IInv => OpenHasTimer
  OBVIOUS
<1> QED BY <1>1, <1>2, <1>3, TypeCorrect, PTL DEF Spec

-------------------------------------------------------------------------------
\* The serially used breaker implements the atomic one

Outside == {"idle", "request"}
TimerSteps == {"open_stamp", "open_save", "reopen_stamp", "reopen_save"}

\* What the abstract variables are when p is the step of the one task inside the
\* breaker, or "idle" if there is none, and st its stamp.
MapState(p, s) ==
  IF p \in {"open", "open_stamp"} THEN "Closed"
  ELSE IF p \in {"reopen", "reopen_stamp"} THEN "HalfOpen" ELSE s

MapFailures(p, s, f) ==
  IF MapState(p, s) # "Closed" \/ p \in {"close_clear_f", "reset_clear_f"} THEN 0
  ELSE IF p \in {"open", "open_stamp"} THEN f - 1 ELSE f

MapSuccesses(p, s, n) ==
  IF MapState(p, s) # "HalfOpen" \/ p = "half_clear" THEN 0
  ELSE IF p = "close" THEN n - 1 ELSE n

MapTimer(p, s, age, st) ==
  IF MapState(p, s) # "Open" THEN 0
  ELSE IF p \in SaveSteps THEN st ELSE age

\* What is known of the breaker while a task is at step p.
Phase(p) ==
  /\ p \in {"allow_timer", "half_open", "late_stamp", "open_stamp", "reopen_stamp",
            "reopen_clear_f", "reopen_clear_s"} \cup SaveSteps => state = "Open"
  /\ p \in {"half_clear", "success_add", "close", "reopen"} => state = "HalfOpen"
  /\ p \in {"success_clear", "close_clear_f", "close_clear_s", "failure_add", "open"}
           \cup ResetSteps => state = "Closed"
  /\ p = "half_open" => last_failure_time = Timeout
  /\ p = "close" => success_count >= SuccessThreshold
  /\ p \in {"open", "open_stamp"} => failure_count >= FailureThreshold

RInv ==
  /\ TypeOK /\ OneInside /\ OpenHasTimer
  /\ \A t \in Tasks : Phase(pc[t])

\* The abstract variables as functions of the breaker's fields and of where t is.
SeenBy(t) ==
  /\ AbsState = MapState(pc[t], state)
  /\ AbsFailures = MapFailures(pc[t], state, failure_count)
  /\ AbsSuccesses = MapSuccesses(pc[t], state, success_count)
  /\ AbsTimer = MapTimer(pc[t], state, last_failure_time, stamp[t])
  /\ Pending(ResetSteps) <=> pc[t] \in ResetSteps
  /\ OpenHasTimer <=> (state = "Open" => last_failure_time # NoInstant
                                            \/ pc[t] \in TimerSteps)

LEMMA View ==
  ASSUME NEW t \in Tasks, \A u \in Tasks \ {t} : pc[u] \in Outside
  PROVE  SeenBy(t)
<1>1. ASSUME NEW S, S \cap Outside = {} PROVE Pending(S) <=> pc[t] \in S
  BY <1>1 DEF Pending
<1>2. AbsState = MapState(pc[t], state)
  BY <1>1 DEF AbsState, MapState, Outside
<1>3. AbsFailures = MapFailures(pc[t], state, failure_count)
  BY <1>1, <1>2 DEF AbsFailures, MapFailures, MapState, Outside
<1>4. AbsSuccesses = MapSuccesses(pc[t], state, success_count)
  BY <1>1, <1>2 DEF AbsSuccesses, MapSuccesses, Outside
<1>5. AbsTimer = MapTimer(pc[t], state, last_failure_time, stamp[t])
  <2>1. pc[t] \in SaveSteps => (CHOOSE u \in Tasks : pc[u] \in SaveSteps) = t
    BY DEF Outside, SaveSteps
  <2>2. Pending(SaveSteps) <=> pc[t] \in SaveSteps
    BY <1>1 DEF Outside, SaveSteps
  <2> QED BY <1>2, <2>1, <2>2 DEF AbsTimer, MapTimer
<1>6. Pending(ResetSteps) <=> pc[t] \in ResetSteps
  BY <1>1 DEF Outside, ResetSteps
<1>7. OpenHasTimer <=> (state = "Open" => last_failure_time # NoInstant
                                            \/ pc[t] \in TimerSteps)
  BY <1>1 DEF Outside, TimerSteps, OpenHasTimer
<1> QED BY <1>2, <1>3, <1>4, <1>5, <1>6, <1>7 DEF SeenBy

\* The same after a step.
LEMMA ViewNext ==
  ASSUME NEW t \in Tasks, \A u \in Tasks \ {t} : pc'[u] \in Outside
  PROVE  SeenBy(t)'
<1>1. ASSUME NEW S, S \cap Outside = {} PROVE Pending(S)' <=> pc'[t] \in S
  BY <1>1 DEF Pending
<1>2. AbsState' = MapState(pc'[t], state')
  BY <1>1 DEF AbsState, MapState, Outside
<1>3. AbsFailures' = MapFailures(pc'[t], state', failure_count')
  BY <1>1, <1>2 DEF AbsFailures, MapFailures, MapState, Outside
<1>4. AbsSuccesses' = MapSuccesses(pc'[t], state', success_count')
  BY <1>1, <1>2 DEF AbsSuccesses, MapSuccesses, Outside
<1>5. AbsTimer' = MapTimer(pc'[t], state', last_failure_time', stamp'[t])
  <2>1. pc'[t] \in SaveSteps => (CHOOSE u \in Tasks : pc'[u] \in SaveSteps) = t
    BY DEF Outside, SaveSteps
  <2>2. Pending(SaveSteps)' <=> pc'[t] \in SaveSteps
    BY <1>1 DEF Outside, SaveSteps
  <2> QED BY <1>2, <2>1, <2>2 DEF AbsTimer, MapTimer
<1>6. Pending(ResetSteps)' <=> pc'[t] \in ResetSteps
  BY <1>1 DEF Outside, ResetSteps
<1>7. OpenHasTimer' <=> (state' = "Open" => last_failure_time' # NoInstant
                                              \/ pc'[t] \in TimerSteps)
  BY <1>1 DEF Outside, TimerSteps, OpenHasTimer
<1> QED BY <1>2, <1>3, <1>4, <1>5, <1>6, <1>7
        DEF SeenBy, SaveSteps, ResetSteps, TimerSteps

\* A step of the breaker has it for itself, before and after.
LEMMA Moves ==
  ASSUME RInv, OneInside', NEW t \in Tasks, NEW l, NEW m, Goto(t, l, m),
         l \notin Outside \/ m \notin Outside
  PROVE  /\ pc[t] = l /\ pc'[t] = m /\ Phase(l)
         /\ \A u \in Tasks \ {t} : pc[u] \in Outside /\ pc'[u] = pc[u]
         /\ SeenBy(t) /\ SeenBy(t)'
<1>1. pc[t] = l /\ pc'[t] = m /\ \A u \in Tasks \ {t} : pc'[u] = pc[u]
  BY GotoMoves DEF RInv, TypeOK
<1>2. \A u \in Tasks \ {t} : pc[u] \in Outside
  BY <1>1 DEF RInv, OneInside, Outside
<1> QED BY <1>1, <1>2, View, ViewNext DEF RInv
-------------------------------------------------------------------------------
\* The steps of the atomic breaker, on the mapped variables.
Same ==
  /\ AbsState' = AbsState /\ AbsFailures' = AbsFailures
  /\ AbsSuccesses' = AbsSuccesses /\ AbsTimer' = AbsTimer
  /\ Pending(ResetSteps)' <=> Pending(ResetSteps)

Simulated == Same \/ Abstract!HNext

Abs(s, f, n, k, r) ==
  /\ AbsState = s /\ AbsFailures = f /\ AbsSuccesses = n /\ AbsTimer = k
  /\ Pending(ResetSteps) = r

\* A step of task t keeps what is known of the breaker and is simulated.
Good(t) == Phase(pc[t])' /\ OpenHasTimer' /\ Simulated

\* allow_request: only the store of HalfOpen is visible, as Probe.
LEMMA AllowGood ==
  ASSUME RInv, OneInside', NEW t \in Tasks,
         CallAllow(t) \/ AllowRead(t) \/ AllowTimer(t) \/ SetHalfOpen(t)
  PROVE  Good(t)
<1> USE DEF Good, Simulated, Same, Abs, SeenBy, Phase, Outside, counters, totals,
            MapState, MapFailures, MapSuccesses, MapTimer,
            ResetSteps, SaveSteps, TimerSteps
<1>1. CASE CallAllow(t)
  BY <1>1, Moves DEF CallAllow, RInv
<1>2. CASE AllowRead(t)
  BY <1>2, Moves DEF AllowRead, RInv
<1>3. CASE AllowTimer(t)
  <2>1. Elapsed => last_failure_time = Timeout
    BY ConfigAssumption DEF Elapsed, RInv, TypeOK, Ages
  <2> QED BY <1>3, <2>1, Moves DEF AllowTimer, RInv
<1>4. CASE SetHalfOpen(t)
  <2>1. /\ pc[t] = "half_open" /\ pc'[t] = "half_clear" /\ Phase("half_open")
        /\ SeenBy(t) /\ SeenBy(t)'
    BY <1>4, Moves DEF SetHalfOpen
  <2>2. Phase(pc[t])' /\ OpenHasTimer'
    BY <1>4, <2>1 DEF SetHalfOpen
  <2>3. Abs("Open", AbsFailures, AbsSuccesses, Timeout, FALSE)
    BY <2>1
  <2>4. Abs("HalfOpen", 0, 0, 0, FALSE)'
    BY <1>4, <2>1 DEF SetHalfOpen
  <2>5. Abstract!Probe /\ UNCHANGED Pending(ResetSteps)
    BY <2>3, <2>4 DEF Abstract!Probe, Abstract!Enter
  <2> QED BY <2>2, <2>5 DEF Abstract!HNext
<1> QED BY <1>1, <1>2, <1>3, <1>4

\* The guarded request and the read that starts record_success or
\* record_failure are invisible.
LEMMA RequestGood ==
  ASSUME RInv, OneInside', NEW t \in Tasks,
         RequestSucceeds(t) \/ RequestFails(t) \/ SuccessRead(t) \/ FailureRead(t)
  PROVE  Good(t)
<1> USE DEF Good, Simulated, Same, SeenBy, Phase, Outside, counters, totals,
            MapState, MapFailures, MapSuccesses, MapTimer,
            ResetSteps, SaveSteps, TimerSteps
<1>1. CASE RequestSucceeds(t)
  BY <1>1, Moves DEF RequestSucceeds, RInv
<1>2. CASE RequestFails(t)
  BY <1>2, Moves DEF RequestFails, RInv
<1>3. CASE SuccessRead(t)
  <2>1. CASE state = "HalfOpen"
    BY <1>3, <2>1, Moves DEF SuccessRead, RInv
  <2>2. CASE state = "Closed"
    BY <1>3, <2>2, Moves DEF SuccessRead, RInv
  <2>3. CASE state = "Open"
    BY <1>3, <2>3, Moves DEF SuccessRead, RInv
  <2> QED BY <1>3, <2>1, <2>2, <2>3 DEF SuccessRead
<1>4. CASE FailureRead(t)
  <2>1. CASE state = "HalfOpen"
    BY <1>4, <2>1, Moves DEF FailureRead, RInv
  <2>2. CASE state = "Closed"
    BY <1>4, <2>2, Moves DEF FailureRead, RInv
  <2>3. CASE state = "Open"
    BY <1>4, <2>3, Moves DEF FailureRead, RInv
  <2> QED BY <1>4, <2>1, <2>2, <2>3 DEF FailureRead
<1> QED BY <1>1, <1>2, <1>3, <1>4

\* record_success: an addition below the threshold and the store of Closed are
\* each a Success.
LEMMA SuccessGood ==
  ASSUME RInv, OneInside', NEW t \in Tasks, SuccessAdd(t) \/ SetClosed(t)
  PROVE  Good(t)
<1> USE DEF Good, Simulated, Same, Abs, SeenBy, Phase, Outside, counters, totals,
            MapState, MapFailures, MapSuccesses, MapTimer,
            ResetSteps, SaveSteps, TimerSteps
<1>0. success_count \in Nat /\ SuccessThreshold \in Nat
  BY ConfigAssumption DEF RInv, TypeOK
<1>1. CASE SuccessAdd(t)
  <2>1. CASE success_count + 1 >= SuccessThreshold
    <3>1. /\ pc[t] = "success_add" /\ pc'[t] = "close" /\ Phase("success_add")
          /\ SeenBy(t) /\ SeenBy(t)'
      BY <1>1, <2>1, Moves DEF SuccessAdd
    <3> QED BY <1>0, <1>1, <2>1, <3>1 DEF SuccessAdd
  <2>2. CASE ~(success_count + 1 >= SuccessThreshold)
    <3>1. /\ pc[t] = "success_add" /\ pc'[t] = "idle" /\ Phase("success_add")
          /\ SeenBy(t) /\ SeenBy(t)'
      BY <1>1, <2>2, Moves DEF SuccessAdd
    <3>2. Phase(pc[t])' /\ OpenHasTimer'
      BY <1>1, <3>1 DEF SuccessAdd
    <3>3. Abs("HalfOpen", 0, success_count, 0, FALSE)
      BY <3>1
    <3>4. Abs("HalfOpen", 0, success_count, 0, FALSE)'
      BY <1>1, <3>1 DEF SuccessAdd
    <3>5. Abstract!Success /\ UNCHANGED Pending(ResetSteps)
      BY <1>0, <1>1, <2>2, <3>3, <3>4 DEF SuccessAdd, Abstract!Success, Abstract!Enter
    <3> QED BY <3>2, <3>5 DEF Abstract!HNext
  <2> QED BY <2>1, <2>2
<1>2. CASE SetClosed(t)
  <2>1. /\ pc[t] = "close" /\ pc'[t] = "close_clear_f" /\ Phase("close")
        /\ SeenBy(t) /\ SeenBy(t)'
    BY <1>2, Moves DEF SetClosed
  <2>2. Phase(pc[t])' /\ OpenHasTimer'
    BY <1>2, <2>1 DEF SetClosed
  <2>3. Abs("HalfOpen", 0, success_count - 1, 0, FALSE)
    BY <2>1
  <2>4. Abs("Closed", 0, 0, 0, FALSE)'
    BY <1>2, <2>1 DEF SetClosed
  <2>5. (success_count - 1) + 1 >= SuccessThreshold
    BY <1>0, <2>1
  <2>6. Abstract!Success /\ UNCHANGED Pending(ResetSteps)
    BY <2>3, <2>4, <2>5 DEF Abstract!Success, Abstract!Enter
  <2> QED BY <2>2, <2>6 DEF Abstract!HNext
<1> QED BY <1>1, <1>2
\* record_failure: an addition below the threshold and the reading of the clock
\* are each a Failure; the stores of Open and of the instant are invisible.
LEMMA FailureGood ==
  ASSUME RInv, OneInside', NEW t \in Tasks,
         FailureAdd(t) \/ SetOpen(t) \/ Stamp(t) \/ Save(t)
  PROVE  Good(t)
<1> USE DEF Good, Simulated, Same, Abs, SeenBy, Phase, Outside, counters, totals,
            MapState, MapFailures, MapSuccesses, MapTimer,
            ResetSteps, SaveSteps, TimerSteps
<1>0. /\ failure_count \in Nat /\ FailureThreshold \in Nat
      /\ stamp[t] \in Nat /\ NoInstant \notin Nat
  BY ConfigAssumption DEF RInv, TypeOK, Ages
<1>1. CASE FailureAdd(t)
  <2>1. CASE failure_count + 1 >= FailureThreshold
    <3>1. /\ pc[t] = "failure_add" /\ pc'[t] = "open" /\ Phase("failure_add")
          /\ SeenBy(t) /\ SeenBy(t)'
      BY <1>1, <2>1, Moves DEF FailureAdd
    <3> QED BY <1>0, <1>1, <2>1, <3>1 DEF FailureAdd
  <2>2. CASE ~(failure_count + 1 >= FailureThreshold)
    <3>1. /\ pc[t] = "failure_add" /\ pc'[t] = "idle" /\ Phase("failure_add")
          /\ SeenBy(t) /\ SeenBy(t)'
      BY <1>1, <2>2, Moves DEF FailureAdd
    <3>2. Phase(pc[t])' /\ OpenHasTimer'
      BY <1>1, <3>1 DEF FailureAdd
    <3>3. Abs("Closed", failure_count, 0, 0, FALSE)
      BY <3>1
    <3>4. Abs("Closed", failure_count, 0, 0, FALSE)'
      BY <1>1, <3>1 DEF FailureAdd
    <3>5. Abstract!Failure /\ UNCHANGED Pending(ResetSteps)
      BY <1>0, <1>1, <2>2, <3>3, <3>4 DEF FailureAdd, Abstract!Failure, Abstract!Enter
    <3> QED BY <3>2, <3>5 DEF Abstract!HNext
  <2> QED BY <2>1, <2>2
<1>2. CASE SetOpen(t)
  <2>1. CASE Goto(t, "open", "open_stamp")
    <3>1. /\ pc[t] = "open" /\ pc'[t] = "open_stamp" /\ Phase("open")
          /\ SeenBy(t) /\ SeenBy(t)'
      BY <2>1, Moves
    <3> QED BY <1>2, <3>1 DEF SetOpen
  <2>2. CASE Goto(t, "reopen", "reopen_stamp")
    <3>1. /\ pc[t] = "reopen" /\ pc'[t] = "reopen_stamp" /\ Phase("reopen")
          /\ SeenBy(t) /\ SeenBy(t)'
      BY <2>2, Moves
    <3> QED BY <1>2, <3>1 DEF SetOpen
  <2> QED BY <1>2, <2>1, <2>2 DEF SetOpen
<1>3. CASE Stamp(t)
  <2>1. PICK l \in StampSteps, m \in SaveSteps :
          /\ Goto(t, l, m)
          /\ \/ l = "open_stamp" /\ m = "open_save"
             \/ l = "reopen_stamp" /\ m = "reopen_save"
             \/ l = "late_stamp" /\ m = "late_save"
    BY <1>3 DEF Stamp, StampSteps
  <2>2. /\ pc[t] = l /\ pc'[t] = m /\ Phase(l)
        /\ SeenBy(t) /\ SeenBy(t)'
    BY <2>1, Moves
  <2>3. Phase(pc[t])' /\ OpenHasTimer'
    <3>1. OpenHasTimer <=> (state = "Open" => last_failure_time # NoInstant
                                                \/ pc[t] \in TimerSteps)
      BY <2>2
    <3>2. OpenHasTimer
      BY DEF RInv
    <3> QED BY <1>3, <2>1, <2>2, <3>1, <3>2 DEF Stamp
  <2>4. stamp'[t] = 0
    BY <1>3 DEF Stamp, RInv, TypeOK
  <2>5. Abs("Open", 0, 0, 0, FALSE)'
    BY <1>3, <2>1, <2>2, <2>4 DEF Stamp
  <2>6. /\ \/ AbsState = "Closed" /\ AbsFailures = failure_count - 1
              /\ failure_count >= FailureThreshold
           \/ AbsState \in {"HalfOpen", "Open"}
        /\ Pending(ResetSteps) = FALSE
    BY <2>1, <2>2 DEF Pending
  <2>7. AbsState = "Closed" => AbsFailures + 1 >= FailureThreshold
    BY <1>0, <2>6
  <2>8. Abstract!Failure
    BY <2>5, <2>6, <2>7 DEF Abstract!Failure, Abstract!Enter
  <2>9. UNCHANGED Pending(ResetSteps)
    BY <2>5, <2>6
  <2> QED BY <2>3, <2>8, <2>9 DEF Abstract!HNext
<1>4. CASE Save(t)
  <2>1. PICK l \in SaveSteps, m \in {"idle", "reopen_clear_f"} : Goto(t, l, m)
    BY <1>4 DEF Save
  <2>2. /\ pc[t] = l /\ pc'[t] = m /\ Phase(l)
        /\ SeenBy(t) /\ SeenBy(t)'
    BY <2>1, Moves
  <2> QED BY <1>0, <1>4, <2>1, <2>2 DEF Save
<1> QED BY <1>1, <1>2, <1>3, <1>4

\* reset begins with its store of Closed and ends with its last one; a store of
\* 0 to a counter is a Success in record_success's closed arm, and otherwise
\* finishes a transition that was visible before.
LEMMA ClearGood ==
  ASSUME RInv, OneInside', NEW t \in Tasks,
         CallReset(t) \/ Forget(t) \/ ClearFailures(t) \/ ClearSuccesses(t)
  PROVE  Good(t)
<1> USE DEF Good, Simulated, Same, Abs, SeenBy, Phase, Outside, counters, totals,
            MapState, MapFailures, MapSuccesses, MapTimer,
            ResetSteps, SaveSteps, TimerSteps
<1>1. CASE CallReset(t)
  <2>1. /\ pc[t] = "idle" /\ pc'[t] = "reset_clear_f"
        /\ SeenBy(t) /\ SeenBy(t)'
    BY <1>1, Moves DEF CallReset
  <2>2. Phase(pc[t])' /\ OpenHasTimer'
    BY <1>1, <2>1 DEF CallReset
  <2>3. Abs("Closed", 0, 0, 0, TRUE)' /\ ~Pending(ResetSteps)
    BY <1>1, <2>1 DEF CallReset
  <2>4. Abstract!BeginReset
    BY <2>3 DEF Abstract!BeginReset, Abstract!Enter
  <2> QED BY <2>2, <2>4 DEF Abstract!HNext
<1>2. CASE Forget(t)
  <2>1. /\ pc[t] = "reset_forget" /\ pc'[t] = "idle" /\ Phase("reset_forget")
        /\ SeenBy(t) /\ SeenBy(t)'
    BY <1>2, Moves DEF Forget
  <2>2. Phase(pc[t])' /\ OpenHasTimer'
    BY <1>2, <2>1 DEF Forget
  <2>3. Abs("Closed", failure_count, 0, 0, TRUE)
    BY <2>1
  <2>4. Abs("Closed", failure_count, 0, 0, FALSE)'
    BY <1>2, <2>1 DEF Forget
  <2>5. Abstract!EndReset
    BY <1>2, <2>3, <2>4 DEF Forget, Abstract!EndReset, Abstract!numbers
  <2> QED BY <2>2, <2>5 DEF Abstract!HNext
<1>3. CASE ClearFailures(t)
  <2>1. CASE Goto(t, "success_clear", "idle")
    <3>1. /\ pc[t] = "success_clear" /\ pc'[t] = "idle" /\ Phase("success_clear")
          /\ SeenBy(t) /\ SeenBy(t)'
      BY <2>1, Moves
    <3>2. Phase(pc[t])' /\ OpenHasTimer'
      BY <1>3, <3>1 DEF ClearFailures
    <3>3. Abs("Closed", failure_count, 0, 0, FALSE) /\ Abs("Closed", 0, 0, 0, FALSE)'
      BY <1>3, <3>1 DEF ClearFailures
    <3>4. Abstract!Success /\ UNCHANGED Pending(ResetSteps)
      BY <3>3 DEF Abstract!Success, Abstract!Enter
    <3> QED BY <3>2, <3>4 DEF Abstract!HNext
  <2>2. CASE ~Goto(t, "success_clear", "idle")
    <3>1. PICK l, m :
            /\ Goto(t, l, m)
            /\ \/ l = "close_clear_f" /\ m = "close_clear_s"
               \/ l = "reopen_clear_f" /\ m = "reopen_clear_s"
               \/ l = "reset_clear_f" /\ m = "reset_clear_s"
      BY <1>3, <2>2 DEF ClearFailures
    <3>2. pc[t] = l /\ pc'[t] = m /\ Phase(l) /\ SeenBy(t) /\ SeenBy(t)'
      BY <3>1, Moves
    <3>3. OpenHasTimer
      BY DEF RInv
    <3> QED BY <1>3, <3>1, <3>2, <3>3 DEF ClearFailures
  <2> QED BY <2>1, <2>2
<1>4. CASE ClearSuccesses(t)
  <2>1. PICK l, m :
          /\ Goto(t, l, m)
          /\ \/ l = "half_clear" /\ m = "request"
             \/ l = "close_clear_s" /\ m = "idle"
             \/ l = "reopen_clear_s" /\ m = "idle"
             \/ l = "reset_clear_s" /\ m = "reset_forget"
    BY <1>4 DEF ClearSuccesses
  <2>2. pc[t] = l /\ pc'[t] = m /\ Phase(l) /\ SeenBy(t) /\ SeenBy(t)'
    BY <2>1, Moves
  <2>3. OpenHasTimer
    BY DEF RInv
  <2> QED BY <1>4, <2>1, <2>2, <2>3 DEF ClearSuccesses
<1> QED BY <1>1, <1>2, <1>3, <1>4
\* Time passes: the age of the failure that opened the breaker grows, whether it
\* is stored already or still in the hands of the task that will store it.
LEMMA TickGood ==
  ASSUME RInv, OneInside', Tick
  PROVE  (\A t \in Tasks : Phase(pc[t])') /\ OpenHasTimer' /\ Simulated
<1>1. /\ pc' = pc /\ state' = state /\ failure_count' = failure_count
      /\ success_count' = success_count
  BY DEF Tick, counters
<1>2. last_failure_time \in Ages => last_failure_time' = Older(last_failure_time)
  BY ConfigAssumption DEF Tick, Ages
<1>3. last_failure_time = NoInstant => last_failure_time' = NoInstant
  BY DEF Tick
<1>4. \A t \in Tasks : pc[t] \in SaveSteps => stamp'[t] = Older(stamp[t])
  BY DEF Tick
<1>5. last_failure_time' = NoInstant <=> last_failure_time = NoInstant
  BY <1>2, <1>3, OlderType, ConfigAssumption DEF RInv, TypeOK, Ages
<1>6. \A t \in Tasks : Phase(pc[t])'
  <2>1. last_failure_time = Timeout => last_failure_time' = Timeout
    BY <1>2, ConfigAssumption DEF Ages, Older
  <2> QED BY <1>1, <2>1 DEF RInv, Phase
<1>7. OpenHasTimer'
  BY <1>1, <1>5 DEF RInv, OpenHasTimer, Pending
<1>8. /\ UNCHANGED <<AbsState, AbsFailures, AbsSuccesses>>
      /\ UNCHANGED Pending(ResetSteps)
  BY <1>1 DEF AbsState, AbsFailures, AbsSuccesses, Pending
<1>9. AbsState # "Open" => AbsTimer' = AbsTimer
  BY <1>8 DEF AbsTimer
<1>10. AbsState = "Open" => AbsTimer \in Ages /\ AbsTimer' = Older(AbsTimer)
  <2> SUFFICES ASSUME AbsState = "Open"
               PROVE  AbsTimer \in Ages /\ AbsTimer' = Older(AbsTimer)
    OBVIOUS
  <2>1. CASE Pending(SaveSteps)
    <3> DEFINE u == CHOOSE t \in Tasks : pc[t] \in SaveSteps
    <3>1. u \in Tasks /\ pc[u] \in SaveSteps
      BY <2>1 DEF Pending
    <3>2. AbsTimer = stamp[u]
      BY <2>1 DEF AbsTimer
    <3>3. AbsTimer' = stamp'[u]
      BY <1>1, <1>8, <2>1 DEF AbsTimer, Pending
    <3> QED BY <1>4, <3>1, <3>2, <3>3 DEF RInv, TypeOK
  <2>2. CASE ~Pending(SaveSteps)
    <3>1. AbsTimer = last_failure_time /\ AbsTimer' = last_failure_time'
      BY <1>1, <1>8, <2>2 DEF AbsTimer, Pending
    <3>2. ~Pending({"open_stamp", "reopen_stamp"}) /\ state = "Open"
      BY DEF AbsState, Pending
    <3>3. last_failure_time # NoInstant
      BY <2>2, <3>2 DEF RInv, OpenHasTimer, Pending, SaveSteps
    <3> QED BY <1>2, <3>1, <3>3 DEF RInv, TypeOK
  <2> QED BY <2>1, <2>2
<1>11. Simulated
  <2>1. CASE AbsState = "Open" /\ AbsTimer < Timeout
    <3>1. AbsTimer' = AbsTimer + 1
      BY <1>10, <2>1 DEF Older
    <3>2. Abstract!Wait
      BY <1>8, <2>1, <3>1 DEF Abstract!Wait
    <3> QED BY <1>8, <3>2 DEF Simulated, Abstract!HNext
  <2>2. CASE ~(AbsState = "Open" /\ AbsTimer < Timeout)
    BY <1>8, <1>9, <1>10, <2>2 DEF Simulated, Same, Older
  <2> QED BY <2>1, <2>2
<1> QED BY <1>6, <1>7, <1>11

\* Every step of a breaker that is used serially and whose futures are not
\* dropped is simulated.
LEMMA SerialStep ==
  ASSUME "cancel" \notin Faults, RInv, [Next /\ OneInside']_vars
  PROVE  RInv' /\ Simulated
<1>1. TypeOK'
  BY TypeStep DEF RInv
<1>2. CASE UNCHANGED vars
  BY <1>2 DEF vars, counters, RInv, OneInside, OpenHasTimer, Phase, Pending,
     Simulated, Same, AbsState, AbsFailures, AbsSuccesses, AbsTimer, TypeOK, totals
<1>3. ASSUME OneInside', UpstreamFlips
      PROVE  RInv' /\ Simulated
  BY <1>1, <1>3 DEF UpstreamFlips, counters, RInv, OpenHasTimer, Phase, Pending,
     Simulated, Same, AbsState, AbsFailures, AbsSuccesses, AbsTimer
<1>4. ASSUME OneInside', Tick
      PROVE  RInv' /\ Simulated
  BY <1>1, <1>4, TickGood DEF RInv
<1>5. ASSUME OneInside', NEW t \in Tasks, Run(t) \/ CallReset(t)
      PROVE  RInv' /\ Simulated
  <2>1. Good(t)
    BY <1>5, AllowGood, RequestGood, SuccessGood, FailureGood, ClearGood DEF Run
  <2>2. PICK l, m : Goto(t, l, m) /\ (l \notin Outside \/ m \notin Outside)
    BY <1>5 DEF Run, CallAllow, AllowRead, AllowTimer, SetHalfOpen, RequestSucceeds,
       RequestFails, SuccessRead, SuccessAdd, SetClosed, FailureRead, FailureAdd,
       SetOpen, Stamp, Save, Forget, ClearFailures, ClearSuccesses, CallReset, Outside
  <2>3. \A u \in Tasks \ {t} : pc'[u] \in Outside
    BY <1>5, <2>2, Moves
  <2>4. \A u \in Tasks \ {t} : Phase(pc[u])'
    BY <2>3 DEF Phase, Outside, SaveSteps, ResetSteps
  <2> QED BY <1>1, <1>5, <2>1, <2>4 DEF Good, RInv
<1> QED BY <1>2, <1>3, <1>4, <1>5 DEF Next, Cancel

\* A breaker that is used serially implements the atomic one: for any number of
\* callers, any thresholds and any timeout, and with resets between overlapping
\* requests, the separate stores of src/circuit_breaker.rs act as one, as long
\* as no future is dropped half way.
THEOREM SerialUseIsAtomic ==
  ASSUME "cancel" \notin Faults
  PROVE  SerialSpec => ImplementsHystrixBreaker
<1>1. Init => RInv
  BY ConfigAssumption DEF Init, RInv, TypeOK, OneInside, OpenHasTimer, Phase, State,
     Steps, Ages, SaveSteps, ResetSteps
<1>2. Init => Abstract!HInit
  BY DEF Init, Abstract!HInit, AbsState, AbsFailures, AbsSuccesses, AbsTimer, Pending,
     SaveSteps, ResetSteps
<1>3. RInv /\ [Next /\ OneInside']_vars => RInv'
  BY SerialStep
<1>4. RInv /\ [Next /\ OneInside']_vars
        => [Abstract!HNext]_(Abstract!abstractVars)
  <2>1. Same => UNCHANGED Abstract!abstractVars
    BY DEF Same, Abstract!abstractVars, Abstract!numbers, Pending
  <2> QED BY <2>1, SerialStep DEF Simulated
<1> QED BY <1>1, <1>2, <1>3, <1>4, PTL
        DEF SerialSpec, ImplementsHystrixBreaker, Abstract!HSpec
===============================================================================
