------------------------- MODULE RetryExecutor_proofs -------------------------
(***************************************************************************)
(* Proofs about RetryExecutor, for every configuration of the policy.      *)
(***************************************************************************)
EXTENDS RetryExecutor, TLAPS

Types ==
  /\ attempt \in 0..MaxRetries
  /\ pc \in {"idle", "request", "sleep"}
  /\ calls \in Nat
  /\ started \in Nat
  /\ requests \in Nat

\* Every retry is counted before its request is made: while execute sleeps,
\* the counter is one ahead.
Ahead == IF pc = "sleep" THEN 1 ELSE 0

RetriesCounted == requests + Ahead <= started + attempt

\* In the first call after a reset the counter stands for that call alone.
FirstCall ==
  /\ started = 0 => attempt = 0 /\ pc = "idle" /\ result = NoResult
  /\ pc # "idle" => result = NoResult
  /\ started = 1 /\ pc # "idle" => calls + Ahead = attempt + 1
  /\ started = 1 /\ result.kind = "exhausted" => result.attempts = calls

IInv == Types /\ RetriesCounted /\ FirstCall

\* The executor starts with nothing counted.
LEMMA InitIInv == Init => IInv
  BY RetryAssumption
     DEF Init, IInv, Types, RetriesCounted, FirstCall, Ahead, NoResult

\* Each action of the executor preserves what the counter stands for.
LEMMA StepIInv == IInv /\ [Next]_vars => IInv'
<1> SUFFICES ASSUME IInv, [Next]_vars PROVE IInv'
  OBVIOUS
<1> USE RetryAssumption
<1>1. CASE Execute
  BY <1>1 DEF Execute, RequestFn, Lesser, IInv, Types, RetriesCounted,
              FirstCall, Ahead, NoResult
<1>2. CASE Wake
  BY <1>2 DEF Wake, RequestFn, Lesser, IInv, Types, RetriesCounted,
              FirstCall, Ahead, NoResult
<1>3. ASSUME NEW outcome \in Outcomes, Complete(outcome) PROVE IInv'
  <2>1. CASE pc' = "idle"
    <3>1. /\ pc = "request"
          /\ \/ Return("ok", 0)
             \/ Return("exhausted", attempt + 1)
      BY <1>3, <2>1 DEF Complete
    <3>2. CASE Return("ok", 0)
      BY <3>1, <3>2 DEF Return, history, IInv, Types, RetriesCounted,
                        FirstCall, Ahead, NoResult
    <3>3. CASE Return("exhausted", attempt + 1)
      BY <3>1, <3>3 DEF Return, history, IInv, Types, RetriesCounted,
                        FirstCall, Ahead, NoResult
    <3> QED BY <3>1, <3>2, <3>3
  <2>2. CASE pc' # "idle"
    <3>1. /\ pc = "request" /\ pc' = "sleep"
          /\ attempt < MaxRetries /\ attempt' = attempt + 1
          /\ UNCHANGED <<calls, result, started, requests>>
      BY <1>3, <2>2 DEF Complete, Return, ShouldRetryError, RecordRetry,
                        HasRemainingRetries, history
    <3> QED BY <3>1 DEF IInv, Types, RetriesCounted, FirstCall, Ahead, NoResult
  <2> QED BY <2>1, <2>2
<1>4. CASE Reset
  BY <1>4 DEF Reset, IInv, Types, RetriesCounted, FirstCall, Ahead, NoResult
<1>5. CASE Cancel
  BY <1>5 DEF Cancel, history, IInv, Types, RetriesCounted, FirstCall, Ahead,
              NoResult
<1>6. CASE UNCHANGED vars
  BY <1>6 DEF vars, history, IInv, Types, RetriesCounted, FirstCall, Ahead,
              NoResult
<1> QED BY <1>1, <1>2, <1>3, <1>4, <1>5, <1>6 DEF Next, Progress

\* The calls of one executor together never retry more than max_retries times
\* between two resets, dropped calls included.
THEOREM RetryBudget == Spec => []RetriesBounded
<1>1. IInv => RetriesBounded
  BY RetryAssumption DEF IInv, Types, RetriesCounted, Ahead, RetriesBounded
<1> QED BY InitIInv, StepIInv, <1>1, PTL DEF Spec

\* The first call after a reset reports exactly the requests it made.
THEOREM ReportsAttempts == Spec => []AttemptsExact
<1>1. IInv => AttemptsExact
  BY DEF IInv, FirstCall, AttemptsExact
<1> QED BY InitIInv, StepIInv, <1>1, PTL DEF Spec

-------------------------------------------------------------------------------
\* The delays.  Without jitter, and with a multiplier of at least 1, the last one is
\* at most the delay of the current attempt, from which the next one is computed.

Growing == MaxRetries > 0 /\ powi[1] >= powi[0]

Slept ==
  /\ powi \in Powers
  /\ delay \in Int
  /\ ~use_jitter /\ Growing =>
       powi[attempt] >= 0 /\ delay <= WholeMillis(Backoff(attempt))

LEMMA Product ==
  ASSUME NEW k \in Nat, NEW a \in Int, NEW b \in Int, a <= b
  PROVE  k * a \in Int /\ k * b \in Int /\ k * a <= k * b
<1>1. PICK d \in Nat : b = a + d
  <2>1. b - a \in Nat /\ b = a + (b - a)
    OBVIOUS
  <2> QED BY <2>1
<1>2. k * (a + d) = k * a + k * d
  OBVIOUS
<1>3. k * d \in Nat /\ k * a \in Int
  OBVIOUS
<1> QED BY <1>1, <1>2, <1>3

\* The whole part of a quotient grows with what is divided.
LEMMA Quotient ==
  ASSUME NEW a \in Nat, NEW b \in Nat, NEW s \in Nat \ {0}, a <= b
  PROVE  a \div s \in Nat /\ b \div s \in Nat /\ a \div s <= b \div s
<1>1. /\ a \div s \in Nat /\ b \div s \in Nat
      /\ s * (a \div s) <= a /\ b < s * (b \div s) + s
  OBVIOUS
<1>2. PICK qa \in Nat, qb \in Nat : qa = a \div s /\ qb = b \div s
  BY <1>1
<1>3. qb + 1 <= qa => s * (qb + 1) <= s * qa
  BY Product
<1>4. s * (qb + 1) = s * qb + s
  OBVIOUS
<1>5. s * qb \in Nat /\ s * qa \in Nat
  OBVIOUS
<1> QED BY <1>1, <1>2, <1>3, <1>4, <1>5

\* One more attempt does not make the power smaller.
LEMMA PowerGrows ==
  ASSUME NEW p \in Powers, NEW n \in 0..MaxRetries, n < MaxRetries,
         p[1] >= p[0], p[n] >= 0
  PROVE  /\ p[0] \in Nat \ {0} /\ p[n] \in Nat /\ p[n + 1] \in Nat
         /\ p[n] <= p[n + 1]
<1>1. /\ n + 1 \in 1..MaxRetries /\ 0 \in 0..MaxRetries /\ 1 \in 0..MaxRetries
      /\ n + 1 \in 0..MaxRetries /\ (n + 1) - 1 = n
  BY RetryAssumption
<1>2. /\ p[0] \in Int /\ p[1] \in Int /\ p[n] \in Int /\ p[n + 1] \in Int /\ p[0] > 0
      /\ p[n + 1] * p[0] = p[n] * p[1]
  BY <1>1, RetryAssumption
<1>3. PICK s \in Nat \ {0}, m \in Int, a \in Nat, b \in Int :
        s = p[0] /\ m = p[1] /\ a = p[n] /\ b = p[n + 1]
  BY <1>2
<1>4. b * s = a * m /\ m >= s
  BY <1>2, <1>3
<1>5. a * s <= a * m
  BY <1>4, Product
<1>6. b < a => s * b < s * a
  <2> SUFFICES ASSUME b < a PROVE s * b < s * a
    OBVIOUS
  <2>1. b + 1 <= a /\ b + 1 \in Int
    OBVIOUS
  <2>2. s * (b + 1) <= s * a
    BY <2>1, Product
  <2>3. s * (b + 1) = s * b + s /\ s * b \in Int /\ s * a \in Int
    OBVIOUS
  <2> QED BY <2>2, <2>3
<1>7. s * b = b * s /\ s * a = a * s /\ a * s \in Int /\ b * s \in Int /\ a * m \in Int
  OBVIOUS
<1>8. a <= b
  BY <1>4, <1>5, <1>6, <1>7
<1> QED BY <1>2, <1>3, <1>8

\* What the cap leaves is at most the cap, and no less after one more attempt.
LEMMA CapFacts ==
  ASSUME NEW x \in Int, NEW s \in Nat \ {0}
  PROVE  /\ Lesser(x, MaxDelay * s) \in Int /\ Lesser(x, MaxDelay * s) <= MaxDelay * s
         /\ \A y \in Int : x <= y => Lesser(x, MaxDelay * s) <= Lesser(y, MaxDelay * s)
<1>1. MaxDelay * s \in Int
  BY RetryAssumption
<1>2. PICK m \in Int : m = MaxDelay * s
  BY <1>1
<1>3. Lesser(x, m) \in Int /\ Lesser(x, m) <= m
  BY DEF Lesser
<1>4. \A y \in Int : x <= y => Lesser(x, m) <= Lesser(y, m)
  BY DEF Lesser
<1> QED BY <1>2, <1>3, <1>4

LEMMA BackoffIs ==
  ASSUME powi \in Powers, NEW n \in 0..MaxRetries
  PROVE  /\ powi[0] \in Nat \ {0} /\ BaseDelay * powi[n] \in Int
         /\ Backoff(n) \in Int /\ Backoff(n) <= MaxDelay * powi[0]
<1>1. 0 \in 0..MaxRetries
  BY RetryAssumption
<1>2. powi[0] \in Nat \ {0} /\ powi[n] \in Int
  BY <1>1, RetryAssumption
<1>3. BaseDelay * powi[n] \in Int
  BY <1>2, RetryAssumption
<1> QED BY <1>2, <1>3, CapFacts DEF Backoff

\* Cutting off to whole milliseconds keeps both facts.
LEMMA WholeMillisIs ==
  ASSUME powi \in Powers, NEW n \in 0..MaxRetries
  PROVE  WholeMillis(Backoff(n)) \in 0..MaxDelay
<1>1. PICK d \in Int, s \in Nat \ {0} :
        d = Backoff(n) /\ s = powi[0] /\ d <= MaxDelay * s
  BY BackoffIs
<1>2. CASE d > 0
  <2>1. MaxDelay * s \in Nat /\ d \in Nat
    BY <1>1, <1>2, RetryAssumption
  <2>2. d \div s \in Nat /\ d \div s <= (MaxDelay * s) \div s
    BY <1>1, <2>1, Quotient
  <2>3. (MaxDelay * s) \div s = MaxDelay
    <3>1. PICK q \in Nat : q = (MaxDelay * s) \div s
      BY <2>1, Quotient
    <3>2. s * q <= MaxDelay * s /\ MaxDelay * s < s * q + s
      BY <2>1, <3>1
    <3>3. s * (q + 1) = s * q + s /\ MaxDelay * s = s * MaxDelay
          /\ s * q \in Nat /\ s * MaxDelay \in Nat
      BY RetryAssumption
    <3>4. q + 1 <= MaxDelay => s * (q + 1) <= s * MaxDelay
      BY Product, RetryAssumption
    <3>5. MaxDelay + 1 <= q => s * (MaxDelay + 1) <= s * q
      BY Product, RetryAssumption
    <3>6. s * (MaxDelay + 1) = s * MaxDelay + s
      BY RetryAssumption
    <3> QED BY <3>1, <3>2, <3>3, <3>4, <3>5, <3>6, RetryAssumption
  <2> QED BY <1>1, <1>2, <2>2, <2>3, RetryAssumption DEF WholeMillis
<1>3. CASE ~(d > 0)
  BY <1>1, <1>3, RetryAssumption DEF WholeMillis
<1> QED BY <1>2, <1>3

LEMMA WholeMillisGrows ==
  ASSUME powi \in Powers, Growing, NEW n \in 0..MaxRetries, n < MaxRetries, powi[n] >= 0
  PROVE  /\ powi[n + 1] >= 0
         /\ WholeMillis(Backoff(n)) <= WholeMillis(Backoff(n + 1))
<1>1. /\ powi[0] \in Nat \ {0} /\ powi[n] \in Nat /\ powi[n + 1] \in Nat
      /\ powi[n] <= powi[n + 1] /\ n + 1 \in 0..MaxRetries
  BY PowerGrows, RetryAssumption DEF Growing
<1>2. /\ BaseDelay * powi[n] <= BaseDelay * powi[n + 1]
      /\ BaseDelay * powi[n] \in Int /\ BaseDelay * powi[n + 1] \in Int
  <2>1. PICK x \in Int, y \in Int : x = powi[n] /\ y = powi[n + 1] /\ x <= y
    BY <1>1
  <2> QED BY <2>1, Product, RetryAssumption
<1>3. Backoff(n) <= Backoff(n + 1) /\ Backoff(n) \in Int /\ Backoff(n + 1) \in Int
  BY <1>1, <1>2, CapFacts DEF Backoff
<1>4. PICK a \in Int, b \in Int, s \in Nat \ {0} :
        a = Backoff(n) /\ b = Backoff(n + 1) /\ s = powi[0] /\ a <= b
  BY <1>1, <1>3
<1>5. CASE a > 0
  BY <1>1, <1>4, <1>5, Quotient DEF WholeMillis
<1>6. CASE ~(a > 0)
  <2>1. b > 0 => b \div s \in Nat
    BY <1>4, Quotient
  <2> QED BY <1>1, <1>4, <1>6, <2>1 DEF WholeMillis
<1> QED BY <1>1, <1>5, <1>6

\* A delay is a number, and without jitter it is the whole part of what the cap left.
LEMMA NextDelayIs ==
  ASSUME powi \in Powers, attempt \in 0..MaxRetries, NEW d \in NextDelay
  PROVE  /\ d \in Int
         /\ ~use_jitter => d = WholeMillis(Backoff(attempt))
<1>1. WholeMillis(Backoff(attempt)) \in Int
  BY WholeMillisIs, RetryAssumption
<1> QED BY <1>1 DEF NextDelay

LEMMA SleptStep ==
  ASSUME IInv, Slept, [Next]_vars
  PROVE  Slept' /\ [pc = "request" /\ pc' = "sleep" /\ ~use_jitter =>
                      /\ delay' <= MaxDelay
                      /\ powi[1] >= powi[0] => delay' >= delay]_vars
<1>1. attempt \in 0..MaxRetries /\ powi \in Powers /\ 0 \in 0..MaxRetries
  BY RetryAssumption DEF IInv, Types, Slept
<1>2. use_jitter' = use_jitter /\ powi' = powi
  BY DEF Next, Progress, Execute, Wake, RequestFn, Reset, Cancel, Complete, Return,
     RecordRetry, vars, config
<1>3. CASE pc = "request" /\ pc' = "sleep"
  <2>1. delay' \in NextDelay /\ attempt' = attempt + 1 /\ attempt < MaxRetries
    BY <1>3 DEF Next, Progress, Execute, Wake, RequestFn, Reset, Cancel, Complete, Return,
       RecordRetry, HasRemainingRetries, vars
  <2>2. delay' \in Int /\ (~use_jitter => delay' = WholeMillis(Backoff(attempt)))
    BY <1>1, <2>1, NextDelayIs
  <2>3. ~use_jitter /\ Growing =>
          /\ powi[attempt + 1] >= 0
          /\ WholeMillis(Backoff(attempt)) <= WholeMillis(Backoff(attempt + 1))
    BY <1>1, <2>1, WholeMillisGrows DEF Slept
  <2>4. Slept'
    BY <1>1, <1>2, <2>1, <2>2, <2>3 DEF Slept, Growing, Backoff, WholeMillis
  <2>5. ~use_jitter => delay' <= MaxDelay
    BY <1>1, <2>2, WholeMillisIs, RetryAssumption
  <2>6. ~use_jitter /\ powi[1] >= powi[0] => delay' >= delay
    BY <1>1, <2>1, <2>2, RetryAssumption DEF Slept, Growing
  <2> QED BY <2>4, <2>5, <2>6
<1>4. CASE ~(pc = "request" /\ pc' = "sleep")
  <2>1. \/ delay' = delay /\ attempt' = attempt
        \/ delay' = 0 /\ attempt' = 0
    BY <1>4 DEF Next, Progress, Execute, Wake, RequestFn, Reset, Cancel, Complete, Return,
       RecordRetry, HasRemainingRetries, vars, history
  <2>2. ASSUME delay' = delay, attempt' = attempt PROVE Slept'
    BY <1>2, <2>2 DEF Slept, Growing, Backoff, WholeMillis
  <2>3. ASSUME delay' = 0, attempt' = 0 PROVE Slept'
    <3>1. 0 <= WholeMillis(Backoff(0)) /\ powi[0] >= 0
      BY <1>1, WholeMillisIs, BackoffIs, RetryAssumption
    <3> QED BY <1>1, <1>2, <2>3, <3>1 DEF Slept, Growing, Backoff, WholeMillis
  <2> QED BY <1>4, <2>1, <2>2, <2>3
<1> QED BY <1>3, <1>4

\* For every policy without jitter: no delay is above max_delay, and if the multiplier
\* is at least 1 no retry is sooner after its failure than the one before (next_delay
\* and record_retry of src/retry.rs).
THEOREM DelaysGrow == Spec => BackoffGrows
<1> DEFINE Grows == pc = "request" /\ pc' = "sleep" /\ ~use_jitter =>
                      /\ delay' <= MaxDelay
                      /\ powi[1] >= powi[0] => delay' >= delay
<1>1. Init => Slept
  <2> SUFFICES ASSUME Init PROVE Slept
    OBVIOUS
  <2>1. powi \in Powers /\ attempt = 0 /\ delay = 0 /\ 0 \in 0..MaxRetries
    BY RetryAssumption DEF Init
  <2>2. 0 <= WholeMillis(Backoff(0)) /\ powi[0] >= 0
    BY <2>1, WholeMillisIs, BackoffIs, RetryAssumption
  <2> QED BY <2>1, <2>2 DEF Slept
<1>2. IInv /\ Slept /\ [Next]_vars => Slept' /\ [Grows]_vars
  BY SleptStep
<1> QED BY <1>1, <1>2, InitIInv, StepIInv, PTL DEF Spec, BackoffGrows
===============================================================================
