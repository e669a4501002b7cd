----------------------------- MODULE TokenBucket -----------------------------
(***************************************************************************)
(* The token bucket of src/ratelimit.rs as operators on a record.          *)
(*                                                                         *)
(* Time is counted in ticks of 1/TicksPerSecond seconds and tokens in      *)
(* units of 1/TicksPerSecond token, so that one tick refills exactly       *)
(* RequestsPerSecond units and the code's fractional token counts are      *)
(* whole numbers here.                                                     *)
(***************************************************************************)
EXTENDS Naturals

CONSTANTS
  RequestsPerSecond,  \* refill_rate
  BurstSize,          \* capacity
  TicksPerSecond      \* resolution of the clock

ASSUME BucketAssumption ==
  /\ RequestsPerSecond \in Nat \ {0}
  /\ BurstSize \in Nat \ {0}
  /\ TicksPerSecond \in Nat \ {0}

Capacity == BurstSize * TicksPerSecond
OneToken == TicksPerSecond

Lesser(a, b) == IF a <= b THEN a ELSE b

NewBucketEmpty(now) == [tokens |-> 0, last_update |-> now]

NewBucket(now) == [tokens |-> Capacity, last_update |-> now]

RefillUncapped(b, now) ==
  [tokens |-> b.tokens + (now - b.last_update) * RequestsPerSecond,
   last_update |-> now]

RefillKeepingTime(b, now) ==
  [tokens |-> Lesser(b.tokens + (now - b.last_update) * RequestsPerSecond,
                     Capacity),
   last_update |-> b.last_update]

Refill(b, now) ==
  [tokens |-> Lesser(b.tokens + (now - b.last_update) * RequestsPerSecond,
                     Capacity),
   last_update |-> now]

CanConsume(b, now) == Refill(b, now).tokens >= OneToken

\* The bucket that try_consume leaves behind; it answers CanConsume.
TryConsume(b, now) ==
  [Refill(b, now) EXCEPT !.tokens = IF @ >= OneToken THEN @ - OneToken ELSE @]

\* wait_time in whole seconds, as retry_after_secs reports it: the fraction is
\* cut off, and the answer is at least 1.
RetryAfterSecsUnclamped(b) ==
  IF b.tokens >= OneToken THEN 0
  ELSE (OneToken - b.tokens) \div (RequestsPerSecond * TicksPerSecond)

RetryAfterSecs(b) ==
  LET secs == IF b.tokens >= OneToken THEN 0
              ELSE (OneToken - b.tokens)
                     \div (RequestsPerSecond * TicksPerSecond)
  IN  IF secs >= 1 THEN secs ELSE 1
===============================================================================
