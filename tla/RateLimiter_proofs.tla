--------------------------- MODULE RateLimiter_proofs ---------------------------
(***************************************************************************)
(* What is proved about the rate limiter for every configuration, any      *)
(* number of threads and clients, and any length of run: the global limit, *)
(* the honest Retry-After, the types, and, for checks that take no time,   *)
(* the idle client limit and what an eviction can forgive.                 *)
(***************************************************************************)
EXTENDS RateLimiter, FiniteSetTheorems, TLAPS

LEMMA Distribute ==
  ASSUME NEW k \in Int, NEW a \in Int, NEW b \in Int
  PROVE  k * (a + b) = k * a + k * b /\ (a + b) * k = a * k + b * k /\ k * a = a * k
OBVIOUS

LEMMA ProductNat ==
  ASSUME NEW k \in Nat, NEW a \in Nat
  PROVE  k * a \in Nat
OBVIOUS

LEMMA CapacityType == Capacity \in Nat /\ OneToken \in Nat \ {0}
BY BucketAssumption, ProductNat DEF Capacity, OneToken

-------------------------------------------------------------------------------
\* The token bucket

Bucket(b) ==
  /\ b = [tokens |-> b.tokens, last_update |-> b.last_update]
  /\ b.tokens \in 0..Capacity
  /\ b.last_update \in Nat

LEMMA RefillTokens ==
  ASSUME NEW b, NEW n
  PROVE  Refill(b, n).tokens
           = Lesser(b.tokens + (n - b.last_update) * RequestsPerSecond, Capacity)
BY DEF Refill

\* A refill never takes tokens away, never overfills the bucket and adds at
\* most what the elapsed time is worth.
LEMMA RefillBounds ==
  ASSUME NEW b, Bucket(b), NEW n \in Nat, b.last_update <= n
  PROVE  /\ Bucket(Refill(b, n))
         /\ Refill(b, n).last_update = n
         /\ Refill(b, n).tokens <= b.tokens + (n - b.last_update) * RequestsPerSecond
<1>1. (n - b.last_update) * RequestsPerSecond \in Nat
  BY BucketAssumption, ProductNat DEF Bucket
<1>2. b.tokens \in Nat /\ b.tokens <= Capacity
  BY CapacityType DEF Bucket
<1> QED BY <1>1, <1>2, CapacityType DEF Bucket, Refill, Lesser

\* try_consume takes exactly one token, and only when one is there.
LEMMA ConsumeBounds ==
  ASSUME NEW b, Bucket(b), NEW n \in Nat, b.last_update <= n
  PROVE  /\ Bucket(TryConsume(b, n))
         /\ TryConsume(b, n).last_update = n
         /\ CanConsume(b, n) =>
              TryConsume(b, n).tokens = Refill(b, n).tokens - OneToken
         /\ ~CanConsume(b, n) => TryConsume(b, n).tokens = Refill(b, n).tokens
<1>1. Bucket(Refill(b, n)) /\ Refill(b, n).last_update = n
  BY RefillBounds
<1>2. /\ TryConsume(b, n).last_update = Refill(b, n).last_update
      /\ TryConsume(b, n).tokens =
           IF CanConsume(b, n) THEN Refill(b, n).tokens - OneToken
           ELSE Refill(b, n).tokens
      /\ TryConsume(b, n) = [tokens |-> TryConsume(b, n).tokens,
                             last_update |-> TryConsume(b, n).last_update]
  BY DEF TryConsume, CanConsume, Refill
<1> QED BY <1>1, <1>2, CapacityType DEF Bucket, CanConsume

\* A caller that waits for as long as Retry-After says finds a token: after one
\* second the refill is worth at least one token, whatever the bucket held.
LEMMA RetrySuffices ==
  ASSUME NEW b, Bucket(b), NEW n \in Nat, b.last_update <= n
  PROVE  CanConsume(b, n + RetryAfterSecs(b) * TicksPerSecond)
<1> DEFINE k == RetryAfterSecs(b)
           d == (n + k * TicksPerSecond) - b.last_update
<1>1. k \in Nat /\ k >= 1
  <2>1. ASSUME b.tokens < OneToken
        PROVE  (OneToken - b.tokens) \div (RequestsPerSecond * TicksPerSecond) \in Nat
    <3>1. RequestsPerSecond * TicksPerSecond \in Nat \ {0}
      BY BucketAssumption
    <3>2. OneToken - b.tokens \in Nat
      BY <2>1, CapacityType DEF Bucket
    <3> QED BY <3>1, <3>2
  <2> QED BY <2>1, CapacityType DEF RetryAfterSecs, Bucket
<1> HIDE DEF k
<1>2. k * TicksPerSecond \in Nat /\ k * TicksPerSecond >= TicksPerSecond
  <2>1. PICK j \in Nat : k = j + 1
    <3>1. k - 1 \in Nat /\ k = (k - 1) + 1
      BY <1>1
    <3> QED BY <3>1
  <2>2. (j + 1) * TicksPerSecond = j * TicksPerSecond + 1 * TicksPerSecond
    BY Distribute, BucketAssumption
  <2>3. j * TicksPerSecond \in Nat
    BY ProductNat, BucketAssumption
  <2> QED BY <2>1, <2>2, <2>3, BucketAssumption
<1>3. d \in Nat /\ d >= TicksPerSecond
  BY <1>2, BucketAssumption DEF Bucket
<1>4. d * RequestsPerSecond \in Nat /\ d * RequestsPerSecond >= d
  <2>1. PICK r \in Nat : RequestsPerSecond = r + 1
    <3>1. RequestsPerSecond - 1 \in Nat
          /\ RequestsPerSecond = (RequestsPerSecond - 1) + 1
      BY BucketAssumption
    <3> QED BY <3>1
  <2>2. d * (r + 1) = d * r + d * 1
    BY <1>3, Distribute
  <2>3. d * r \in Nat
    BY <1>3, ProductNat
  <2> QED BY <1>3, <2>1, <2>2, <2>3
<1>5. Capacity >= OneToken
  <2>1. PICK m \in Nat : BurstSize = m + 1
    <3>1. BurstSize - 1 \in Nat
      BY BucketAssumption
    <3> QED BY <3>1, BucketAssumption
  <2>2. (m + 1) * TicksPerSecond = m * TicksPerSecond + 1 * TicksPerSecond
    BY Distribute, BucketAssumption
  <2>3. m * TicksPerSecond \in Nat
    BY ProductNat, BucketAssumption
  <2> QED BY <2>1, <2>2, <2>3, BucketAssumption DEF Capacity, OneToken
<1>6. b.tokens \in Nat
  BY CapacityType DEF Bucket
<1>7. b.tokens + d * RequestsPerSecond >= OneToken
  BY <1>3, <1>4, <1>6, BucketAssumption DEF OneToken
<1>8. Refill(b, n + k * TicksPerSecond).tokens
        = Lesser(b.tokens + d * RequestsPerSecond, Capacity)
  BY RefillTokens
<1> QED BY <1>5, <1>7, <1>8, <1>4, <1>6, CapacityType DEF CanConsume, Lesser, k

-------------------------------------------------------------------------------
\* The inductive invariant behind WindowLimit.  Measured from any earlier
\* moment s, what was taken and what is still in the bucket is paid for by one
\* full bucket and the refill up to the last update; after the last update
\* nothing was taken.
Paid(s) ==
  IF s <= global_bucket.last_update
    THEN (taken - taken_before[s]) * OneToken + global_bucket.tokens
           <= Capacity + RequestsPerSecond * (global_bucket.last_update - s)
    ELSE taken_before[s] = taken

GlobalInv ==
  /\ now \in 0..MaxTime
  /\ Bucket(global_bucket) /\ global_bucket.last_update <= now
  /\ taken \in Nat
  /\ taken_before \in [0..MaxTime -> Nat]
  /\ \A s \in 0..now : Paid(s)

LEMMA GlobalInvInit == Init => GlobalInv
<1> SUFFICES ASSUME Init PROVE GlobalInv
  OBVIOUS
<1>1. global_bucket = [tokens |-> Capacity, last_update |-> 0]
  BY DEF Init, NewBucket
<1>2. Bucket(global_bucket)
  BY <1>1, CapacityType DEF Bucket
<1>3. Paid(0)
  <2>1. (0 - 0) * OneToken = 0 /\ RequestsPerSecond * (0 - 0) = 0
    BY CapacityType, BucketAssumption
  <2> QED BY <1>1, <2>1, CapacityType, LimiterAssumption DEF Paid, Init
<1> QED BY <1>1, <1>2, <1>3, LimiterAssumption DEF Init, GlobalInv

\* Only CheckGlobal touches the global bucket: it is paid for before and after.
LEMMA CheckGlobalKeeps ==
  ASSUME GlobalInv, NEW t \in Threads, NEW ip,
         CheckGlobal(t, ip)
  PROVE  GlobalInv'
<1> DEFINE b == global_bucket
           R == Refill(b, now)
           c == IF CanConsume(b, now) THEN 1 ELSE 0
<1>1. /\ Bucket(b) /\ now \in Nat /\ b.last_update <= now
      /\ b.last_update \in Nat /\ b.tokens \in Nat
      /\ taken \in Nat
  BY LimiterAssumption, CapacityType DEF GlobalInv, Bucket
<1>2. /\ Bucket(R) /\ R.tokens \in Nat /\ R.tokens <= Capacity
      /\ R.tokens <= b.tokens + (now - b.last_update) * RequestsPerSecond
  BY <1>1, RefillBounds, CapacityType DEF Bucket
<1>3. /\ taken' = taken + c /\ now' = now /\ taken_before' = taken_before
      /\ global_bucket' = TryConsume(b, now)
  BY <1>1 DEF CheckGlobal, clock
<1>4. /\ Bucket(global_bucket)' /\ global_bucket'.last_update = now
      /\ c * OneToken + global_bucket'.tokens = R.tokens
  BY <1>1, <1>2, <1>3, ConsumeBounds, CapacityType DEF Bucket
<1>5. ASSUME NEW s \in 0..now PROVE Paid(s)'
  <2>1. s \in Nat /\ s <= now /\ s \in 0..MaxTime /\ taken_before[s] \in Nat
    BY LimiterAssumption DEF GlobalInv
  <2> DEFINE u == taken - taken_before[s]
  <2>2. (taken' - taken_before'[s]) * OneToken = u * OneToken + c * OneToken
    <3>1. taken' - taken_before'[s] = u + c /\ u \in Int /\ c \in Int
      BY <1>1, <1>3, <2>1
    <3> QED BY <3>1, Distribute, CapacityType
  <2>3. u * OneToken \in Int /\ c * OneToken \in Int
    BY <2>1, <1>1, CapacityType
  <2>4. SUFFICES u * OneToken + R.tokens <= Capacity + RequestsPerSecond * (now - s)
    <3>1. global_bucket'.tokens \in Nat
      BY <1>4, CapacityType DEF Bucket
    <3>2. (taken' - taken_before'[s]) * OneToken + global_bucket'.tokens
             = u * OneToken + R.tokens
      BY <1>2, <1>4, <2>2, <2>3, <3>1
    <3> QED BY <1>4, <2>1, <3>2 DEF Paid
  <2>5. CASE s <= b.last_update
    <3>1. u * OneToken + b.tokens
            <= Capacity + RequestsPerSecond * (b.last_update - s)
      BY <2>5 DEF GlobalInv, Paid
    <3>2. RequestsPerSecond * (now - s)
            = RequestsPerSecond * (b.last_update - s)
              + RequestsPerSecond * (now - b.last_update)
      <4>1. now - s = (b.last_update - s) + (now - b.last_update)
        BY <1>1, <2>1
      <4> QED BY <1>1, <2>1, <4>1, Distribute, BucketAssumption
    <3>3. (now - b.last_update) * RequestsPerSecond
            = RequestsPerSecond * (now - b.last_update)
      BY <1>1, Distribute, BucketAssumption
    <3>4. /\ RequestsPerSecond * (b.last_update - s) \in Int
          /\ RequestsPerSecond * (now - b.last_update) \in Int
      BY <1>1, <2>1, BucketAssumption
    <3> QED BY <1>1, <1>2, <2>3, <3>1, <3>2, <3>3, <3>4, CapacityType
  <2>6. CASE ~(s <= b.last_update)
    <3>1. u = 0
      BY <1>1, <2>1, <2>6 DEF GlobalInv, Paid
    <3>2. u * OneToken = 0
      BY <3>1, CapacityType
    <3>3. RequestsPerSecond * (now - s) \in Nat
      BY <1>1, <2>1, ProductNat, BucketAssumption
    <3> QED BY <1>2, <3>2, <3>3, CapacityType
  <2> QED BY <2>5, <2>6
<1> QED BY <1>1, <1>3, <1>4, <1>5 DEF GlobalInv

LEMMA TickKeeps ==
  ASSUME GlobalInv, Tick
  PROVE  GlobalInv'
<1>1. /\ now \in 0..MaxTime /\ now + 1 \in 0..MaxTime /\ now' = now + 1
      /\ global_bucket' = global_bucket /\ taken' = taken
      /\ taken_before' = [taken_before EXCEPT ![now + 1] = taken]
      /\ taken \in Nat /\ global_bucket.last_update \in Nat
      /\ global_bucket.last_update <= now
  BY LimiterAssumption DEF Tick, GlobalInv, shared, Bucket
<1>2. ASSUME NEW s \in 0..now' PROVE Paid(s)'
  <2>1. CASE s = now + 1
    BY <1>1, <2>1 DEF GlobalInv, Paid
  <2>2. CASE s # now + 1
    <3>1. s \in 0..now /\ taken_before'[s] = taken_before[s]
      BY <1>1, <2>2 DEF GlobalInv
    <3> QED BY <1>1, <3>1 DEF GlobalInv, Paid
  <2> QED BY <2>1, <2>2
<1>3. taken_before' \in [0..MaxTime -> Nat]
  BY <1>1 DEF GlobalInv
<1> QED BY <1>1, <1>2, <1>3 DEF GlobalInv, Bucket

Visits(t) == \E c \in Clients : Visit(t, c)

\* The rest of check, maybe_cleanup included, leaves the global bucket alone.
LEMMA GlobalInvStep == GlobalInv /\ [Next]_vars => GlobalInv'
<1> SUFFICES ASSUME GlobalInv, [Next]_vars PROVE GlobalInv'
  OBVIOUS
<1>1. ASSUME UNCHANGED <<clock, global_bucket, taken>> PROVE GlobalInv'
  BY <1>1 DEF clock, GlobalInv, Paid, Bucket
<1>2. ASSUME NEW t \in Threads,
             \/ GlobalWait(t) \/ Cleanup(t) \/ CountBefore(t) \/ CountAfter(t) \/ Visits(t)
             \/ Evict(t)
             \/ GetEntry(t) \/ ReadClock(t) \/ Touch(t) \/ Consume(t)
             \/ ClientWait(t)
      PROVE  UNCHANGED <<clock, global_bucket, taken>>
  BY <1>2 DEF GlobalWait, Cleanup, CountBefore, CountAfter, Visits, Visit, Evict,
     GetEntry, ReadClock, Touch, Consume, ClientWait, shared, clock
<1>3. CASE UNCHANGED vars
  BY <1>1, <1>3 DEF vars, shared
<1> QED BY <1>1, <1>2, <1>3, CheckGlobalKeeps, TickKeeps DEF Next, Visits

\* The limiter never lets more through its global bucket, in any stretch of
\* time, than a burst plus the refill of that stretch.
THEOREM GlobalLimit == Spec => []WindowLimit
<1>1. GlobalInv => WindowLimit
  <2> SUFFICES ASSUME GlobalInv, NEW s \in 0..now
               PROVE  (taken - taken_before[s]) * OneToken
                        <= Capacity + RequestsPerSecond * (now - s)
    BY DEF WindowLimit
  <2> DEFINE l == global_bucket.last_update
             used == (taken - taken_before[s]) * OneToken
  <2>1. /\ now \in Nat /\ s \in Nat /\ s <= now /\ l \in Nat /\ l <= now
        /\ taken_before[s] \in Nat /\ taken \in Nat
        /\ global_bucket.tokens \in Nat /\ used \in Int
    BY LimiterAssumption, CapacityType DEF GlobalInv, Bucket
  <2>2. CASE s <= l
    <3>1. used + global_bucket.tokens <= Capacity + RequestsPerSecond * (l - s)
      BY <2>2 DEF GlobalInv, Paid
    <3>2. RequestsPerSecond * (now - s)
            = RequestsPerSecond * (l - s) + RequestsPerSecond * (now - l)
      <4>1. now - s = (l - s) + (now - l)
        BY <2>1
      <4> QED BY <2>1, <4>1, Distribute, BucketAssumption
    <3>3. /\ RequestsPerSecond * (now - l) \in Nat
          /\ RequestsPerSecond * (l - s) \in Nat
      BY <2>1, <2>2, ProductNat, BucketAssumption
    <3> QED BY <2>1, <3>1, <3>2, <3>3, CapacityType
  <2>3. CASE ~(s <= l)
    <3>1. used = 0
      BY <2>1, <2>3, CapacityType DEF GlobalInv, Paid
    <3>2. RequestsPerSecond * (now - s) \in Nat
      BY <2>1, ProductNat, BucketAssumption
    <3> QED BY <3>1, <3>2, CapacityType
  <2> QED BY <2>2, <2>3
<1> QED BY <1>1, GlobalInvInit, GlobalInvStep, PTL DEF Spec

-------------------------------------------------------------------------------
\* The clients' entries.  An entry that the map or a thread refers to is alive,
\* also while other threads evict it, and its bucket is a bucket of the past.

Holding == {"stamp", "touch", "consume", "client_wait"}
Working == {"cleanup", "count", "retain", "entry"}

Entry(x) ==
  /\ x = [bucket |-> x.bucket, last_access |-> x.last_access]
  /\ Bucket(x.bucket) /\ x.bucket.last_update <= now

Heap == \A e \in DOMAIN entries : Entry(entries[e])

References ==
  /\ \A c \in Clients : client_buckets[c] # NoEntry => client_buckets[c] \in DOMAIN entries
  /\ \A t \in Threads : pc[t] \in Holding => entry[t] \in DOMAIN entries

Locals ==
  /\ DOMAIN pc = Threads /\ DOMAIN entry = Threads /\ DOMAIN client = Threads
  /\ DOMAIN client_buckets = Clients
  /\ \A t \in Threads : pc[t] \in Working => client[t] \in Clients

EntriesInv == now \in Nat /\ Heap /\ References /\ Locals

LEMMA ClientIpsAreClients == ClientIps \subseteq Clients \cup {NoClient}
<1> SUFFICES ASSUME NEW h \in Headers, NEW socket \in Clients \cup {NoClient}
             PROVE  ExtractClientIp(h, socket) \in Clients \cup {NoClient}
  BY DEF ClientIps
<1>1. h.real_ip \in Clients \cup {NoClient}
  BY DEF Headers
<1>2. h.forwarded_for # <<>> => Head(h.forwarded_for) \in Clients \cup {NoClient}
  BY DEF Headers
<1> QED BY <1>1, <1>2 DEF ExtractClientIp

LEMMA EntriesInit == Init => EntriesInv
BY LimiterAssumption DEF Init, EntriesInv, Heap, References, Locals, Holding, Working

\* The steps of a thread that change neither the map nor an entry.
LEMMA LocalStepsKeepEntries ==
  ASSUME EntriesInv, NEW t \in Threads,
         \/ \E ip \in ClientIps : CheckGlobal(t, ip)
         \/ GlobalWait(t) \/ Cleanup(t) \/ CountBefore(t) \/ CountAfter(t) \/ Visits(t)
         \/ ReadClock(t)
  PROVE  EntriesInv'
<1>1. /\ entries' = entries /\ client_buckets' = client_buckets
      /\ entry' = entry /\ now' = now
  BY DEF CheckGlobal, GlobalWait, Cleanup, CountBefore, CountAfter, Visits, Visit,
     ReadClock, shared, locals, sweep, clock
<1>2. Heap'
  BY <1>1 DEF EntriesInv, Heap, Entry, Bucket
<1>3. References'
  BY <1>1 DEF EntriesInv, References, Locals, Holding, CheckGlobal, GlobalWait,
     Cleanup, CountBefore, CountAfter, Visits, Visit, ReadClock, Goto
<1>4. Locals'
  <2>1. CASE \E ip \in ClientIps : CheckGlobal(t, ip)
    BY <1>1, <2>1, ClientIpsAreClients
       DEF EntriesInv, Locals, Working, CheckGlobal, Goto
  <2>2. CASE \/ GlobalWait(t) \/ Cleanup(t) \/ CountBefore(t) \/ CountAfter(t) \/ Visits(t)
             \/ ReadClock(t)
    BY <1>1, <2>2 DEF EntriesInv, Locals, Working, GlobalWait, Cleanup, CountBefore,
       CountAfter, Visits, Visit, ReadClock, Goto, locals, sweep
  <2> QED BY <2>1, <2>2
<1> QED BY <1>1, <1>2, <1>3, <1>4 DEF EntriesInv

LEMMA GetEntryKeepsEntries ==
  ASSUME EntriesInv, NEW t \in Threads, GetEntry(t)
  PROVE  EntriesInv'
<1>1. /\ client[t] \in Clients /\ now' = now /\ client' = client
      /\ pc' = [pc EXCEPT ![t] = "stamp"] /\ now \in Nat
  BY DEF EntriesInv, Locals, Working, GetEntry, Goto, clock
<1>2. CASE /\ client_buckets[client[t]] # NoEntry
           /\ entry' = [entry EXCEPT ![t] = client_buckets[client[t]]]
           /\ UNCHANGED <<client_buckets, entries>>
  <2>1. Heap'
    BY <1>1, <1>2 DEF EntriesInv, Heap, Entry, Bucket
  <2>2. References'
    BY <1>1, <1>2 DEF EntriesInv, References, Locals, Holding
  <2>3. Locals'
    BY <1>1, <1>2 DEF EntriesInv, Locals, Working
  <2> QED BY <1>1, <2>1, <2>2, <2>3 DEF EntriesInv
<1>3. CASE \E e :
             /\ client_buckets' = [client_buckets EXCEPT ![client[t]] = e]
             /\ entry' = [entry EXCEPT ![t] = e]
             /\ entries' = [i \in DOMAIN entries \cup {e} |->
                  IF i = e
                    THEN [bucket |-> NewBucket(now), last_access |-> now]
                    ELSE entries[i]]
  <2> PICK e : /\ client_buckets' = [client_buckets EXCEPT ![client[t]] = e]
               /\ entry' = [entry EXCEPT ![t] = e]
               /\ entries' = [i \in DOMAIN entries \cup {e} |->
                    IF i = e
                      THEN [bucket |-> NewBucket(now), last_access |-> now]
                      ELSE entries[i]]
    BY <1>3
  <2>1. Heap'
    <3>1. Bucket(NewBucket(now)) /\ NewBucket(now).last_update <= now
      BY <1>1, CapacityType DEF NewBucket, Bucket
    <3>2. ASSUME NEW i \in DOMAIN entries' PROVE Entry(entries[i])'
      <4>1. CASE i = e
        BY <1>1, <3>1, <4>1 DEF Entry, Bucket
      <4>2. CASE i # e
        BY <1>1, <4>2 DEF Entry, Bucket, EntriesInv, Heap
      <4> QED BY <4>1, <4>2
    <3> QED BY <3>2 DEF Heap
  <2>2. References'
    BY <1>1 DEF EntriesInv, References, Locals, Holding
  <2>3. Locals'
    BY <1>1 DEF EntriesInv, Locals, Working
  <2> QED BY <1>1, <2>1, <2>2, <2>3 DEF EntriesInv
<1> DEFINE fresh == CHOOSE i \in EntryIds : i \notin DOMAIN entries
<1>4. CASE client_buckets[client[t]] = NoEntry
  <2>1. /\ client_buckets' = [client_buckets EXCEPT ![client[t]] = fresh]
        /\ entry' = [entry EXCEPT ![t] = fresh]
        /\ entries' = [i \in DOMAIN entries \cup {fresh} |->
             IF i = fresh
               THEN [bucket |-> NewBucket(now), last_access |-> now]
               ELSE entries[i]]
    BY <1>4 DEF GetEntry
  <2> HIDE DEF fresh
  <2> QED BY <1>3, <2>1
<1> QED BY <1>2, <1>4 DEF GetEntry

\* An allocation stays as long as the map or a thread refers to it.
LEMMA RestrictionKeepsHeap ==
  ASSUME NEW heap, \A e \in DOMAIN heap : Entry(heap[e]),
         NEW S, now' = now, entries' = Restrict(heap, DOMAIN heap \cap S)
  PROVE  Heap' /\ DOMAIN entries' = DOMAIN heap \cap S
BY DEF Heap, Entry, Bucket, Restrict

LEMMA EvictKeepsEntries ==
  ASSUME EntriesInv, NEW t \in Threads, Evict(t)
  PROVE  EntriesInv'
<1>1. /\ now' = now /\ client' = client /\ entry' = entry
      /\ pc' = [pc EXCEPT ![t] = "retain"] /\ pc[t] = "retain"
      /\ client_buckets' = [client_buckets EXCEPT ![doomed[t]] = NoEntry]
      /\ entries' = Restrict(entries, DOMAIN entries \cap Live(client_buckets', entry))
  BY DEF Evict, Goto, clock
<1>2. Heap' /\ DOMAIN entries' = DOMAIN entries \cap Live(client_buckets', entry)
  BY <1>1, RestrictionKeepsHeap DEF EntriesInv, Heap
<1>3. References'
  BY <1>1, <1>2 DEF EntriesInv, References, Locals, Holding, Live
<1>4. Locals'
  BY <1>1 DEF EntriesInv, Locals, Working
<1> QED BY <1>1, <1>2, <1>3, <1>4 DEF EntriesInv

LEMMA ReturnKeepsEntries ==
  ASSUME EntriesInv, NEW t \in Threads, NEW heap, Return(t, heap),
         DOMAIN heap = DOMAIN entries, \A e \in DOMAIN heap : Entry(heap[e]),
         now' = now, client_buckets' = client_buckets,
         pc' = [pc EXCEPT ![t] = "idle"]
  PROVE  EntriesInv'
<1>1. Heap' /\ DOMAIN entries' = DOMAIN entries \cap Live(client_buckets, entry')
  BY RestrictionKeepsHeap DEF Return
<1>2. References'
  BY <1>1 DEF EntriesInv, References, Locals, Holding, Live, Return
<1>3. Locals'
  BY DEF EntriesInv, Locals, Working, Return
<1> QED BY <1>1, <1>2, <1>3 DEF EntriesInv

LEMMA EntryUseKeepsEntries ==
  ASSUME EntriesInv, NEW t \in Threads, Touch(t) \/ Consume(t) \/ ClientWait(t)
  PROVE  EntriesInv'
<1>1. /\ entry[t] \in DOMAIN entries /\ Entry(entries[entry[t]]) /\ now \in Nat
      /\ now' = now /\ client_buckets' = client_buckets
  BY DEF EntriesInv, Heap, References, Holding, Touch, Consume, ClientWait, Goto, clock
<1>2. CASE Touch(t)
  <2>1. Heap'
    BY <1>1, <1>2 DEF Touch, EntriesInv, Heap, Entry, Bucket
  <2>2. References' /\ Locals'
    BY <1>1, <1>2
       DEF Touch, Goto, EntriesInv, Heap, References, Locals, Holding, Working
  <2> QED BY <1>1, <2>1, <2>2 DEF EntriesInv
<1>3. CASE Consume(t)
  <2> DEFINE b == entries[entry[t]].bucket
             heap == [entries EXCEPT ![entry[t]].bucket = TryConsume(b, now)]
  <2>1. Bucket(TryConsume(b, now)) /\ TryConsume(b, now).last_update = now
    BY <1>1, ConsumeBounds DEF Entry
  <2>2. /\ DOMAIN heap = DOMAIN entries
        /\ \A e \in DOMAIN heap : Entry(heap[e])
    BY <1>1, <2>1 DEF EntriesInv, Heap, Entry
  <2>3. CASE Return(t, heap) /\ pc' = [pc EXCEPT ![t] = "idle"]
    <3> HIDE DEF heap
    <3> QED BY <1>1, <2>2, <2>3, ReturnKeepsEntries
  <2>4. CASE /\ entries' = heap /\ UNCHANGED <<client, entry>>
             /\ pc' = [pc EXCEPT ![t] = "client_wait"]
    <3>1. Heap'
      <4> HIDE DEF heap
      <4> QED BY <1>1, <2>2, <2>4 DEF Heap, Entry
    <3>2. References' /\ Locals'
      BY <1>1, <2>2, <2>4 DEF EntriesInv, References, Locals, Holding, Working
    <3> QED BY <1>1, <3>1, <3>2 DEF EntriesInv
  <2> QED BY <1>3, <2>3, <2>4 DEF Consume, Goto
<1>4. CASE ClientWait(t)
  BY <1>1, <1>4, ReturnKeepsEntries DEF ClientWait, Goto, EntriesInv, Heap
<1> QED BY <1>2, <1>3, <1>4

LEMMA EntriesStep == EntriesInv /\ [Next]_vars => EntriesInv'
<1> SUFFICES ASSUME EntriesInv, [Next]_vars PROVE EntriesInv'
  OBVIOUS
<1>1. CASE UNCHANGED vars
  BY <1>1 DEF vars, shared, locals, sweep, clock, EntriesInv, Heap, Entry, Bucket, References,
     Locals
<1>2. CASE Tick
  <2>1. /\ now' = now + 1 /\ entries' = entries /\ client_buckets' = client_buckets
        /\ entry' = entry /\ client' = client /\ pc' = pc
    BY <1>2 DEF Tick, shared, locals, sweep
  <2>2. Heap' /\ now' \in Nat
    BY <2>1 DEF EntriesInv, Heap, Entry, Bucket
  <2> QED BY <2>1, <2>2 DEF EntriesInv, References, Locals
<1> QED BY <1>1, <1>2, LocalStepsKeepEntries, GetEntryKeepsEntries, EvictKeepsEntries,
           EntryUseKeepsEntries DEF Next, Visits

\* For any rate, burst and clock resolution and any number of threads and clients:
\* a rejected caller that waits for as long as Retry-After says finds a token if
\* nobody else took it, in the global bucket as in its own.
THEOREM RetryAfterIsHonest == Spec => []RetryAfterSuffices
<1>1. GlobalInv /\ EntriesInv => RetryAfterSuffices
  <2> SUFFICES ASSUME GlobalInv, EntriesInv, NEW t \in Threads
               PROVE  /\ pc[t] = "global_wait" =>
                           CanConsume(global_bucket,
                             now + RetryAfterSecs(global_bucket) * TicksPerSecond)
                      /\ pc[t] = "client_wait" =>
                           CanConsume(entries[entry[t]].bucket,
                             now + RetryAfterSecs(entries[entry[t]].bucket)
                                     * TicksPerSecond)
    BY DEF RetryAfterSuffices
  <2>1. Bucket(global_bucket) /\ global_bucket.last_update <= now /\ now \in Nat
    BY DEF GlobalInv, EntriesInv
  <2>2. pc[t] = "client_wait" => Entry(entries[entry[t]])
    BY DEF EntriesInv, Heap, References, Holding
  <2> QED BY <2>1, <2>2, RetrySuffices DEF Entry
<1> QED BY <1>1, GlobalInvInit, GlobalInvStep, EntriesInit, EntriesStep, PTL DEF Spec

-------------------------------------------------------------------------------
\* Types.  The allocations that live are those that the map or a thread refers to,
\* and a thread refers to one only while it works with it.

Arcs ==
  /\ DOMAIN entries = Live(client_buckets, entry) \ {NoEntry}
  /\ DOMAIN entries \subseteq EntryIds
  /\ \A t \in Threads : pc[t] \notin Holding => entry[t] = NoEntry

Times ==
  /\ last_cleanup \in 0..now
  /\ \A e \in DOMAIN entries : entries[e].last_access \in 0..now
  /\ stamp \in [Threads -> 0..now]
  /\ initial_count \in [Threads -> 0..Cardinality(Clients)]

LEMMA ImageBound ==
  ASSUME NEW S, IsFiniteSet(S), NEW f
  PROVE  LET T == {f[x] : x \in S}
         IN IsFiniteSet(T) /\ Cardinality(T) <= Cardinality(S)
<1> DEFINE T == {f[x] : x \in S}
           g == [x \in S |-> f[x]]
<1>1. g \in Surjection(S, T)
  BY DEF Surjection
<1> QED BY <1>1, FS_Surjection

\* When a thread looks for an entry that its client does not have, an identity is
\* free: the map has one entry per client and the other threads hold one each.
LEMMA FreshExists ==
  ASSUME Arcs, Locals, NEW t \in Threads, entry[t] = NoEntry
  PROVE  LET e == CHOOSE i \in EntryIds : i \notin DOMAIN entries
         IN e \in EntryIds /\ e \notin DOMAIN entries
<1> DEFINE M == {client_buckets[c] : c \in Clients}
           H == {entry[u] : u \in Threads \ {t}}
<1>1. IsFiniteSet(M) /\ Cardinality(M) <= Cardinality(Clients)
  BY ImageBound, LimiterAssumption
<1>2. /\ IsFiniteSet(Threads \ {t})
      /\ Cardinality(Threads \ {t}) = Cardinality(Threads) - 1
  BY FS_RemoveElement, LimiterAssumption
<1>3. IsFiniteSet(H) /\ Cardinality(H) <= Cardinality(Threads) - 1
  BY <1>2, ImageBound
<1>4. DOMAIN entries \subseteq M \cup H
  BY DEF Arcs, Live
<1> HIDE DEF M, H
<1>5. /\ IsFiniteSet(M \cup H)
      /\ Cardinality(M \cup H) = Cardinality(M) + Cardinality(H) - Cardinality(M \cap H)
      /\ IsFiniteSet(M \cap H)
  <2>1. IsFiniteSet(M \cap H)
    BY <1>1, FS_Subset
  <2> QED BY <1>1, <1>3, <2>1, FS_Union
<1>6. /\ Cardinality(M) \in Nat /\ Cardinality(H) \in Nat /\ Cardinality(M \cap H) \in Nat
      /\ Cardinality(Clients) \in Nat /\ Cardinality(Threads) \in Nat
      /\ Cardinality(EntryIds) \in Nat
  BY <1>1, <1>3, <1>5, FS_CardinalityType, LimiterAssumption
<1>7. Cardinality(M \cup H) < Cardinality(EntryIds)
  BY <1>1, <1>3, <1>5, <1>6, LimiterAssumption
<1>8. Cardinality(DOMAIN entries) <= Cardinality(M \cup H) /\ IsFiniteSet(DOMAIN entries)
  BY <1>4, <1>5, FS_Subset
<1>9. DOMAIN entries # EntryIds
  BY <1>6, <1>7, <1>8, <1>5, FS_CardinalityType
<1>10. \E i \in EntryIds : i \notin DOMAIN entries
  BY <1>9 DEF Arcs
<1> QED BY <1>10

LEMMA TypesInit == Init => Arcs /\ Times
<1> SUFFICES ASSUME Init PROVE Arcs /\ Times
  OBVIOUS
<1>1. DOMAIN entries = {}
  BY DEF Init
<1>2. Cardinality(Clients) \in Nat
  BY LimiterAssumption, FS_CardinalityType
<1>3. Live(client_buckets, entry) \ {NoEntry} = {}
  BY DEF Init, Live
<1> QED BY <1>1, <1>2, <1>3 DEF Init, Arcs, Times

\* The steps of a thread that change neither the map nor an entry.
LEMMA LocalStepsKeepTypes ==
  ASSUME EntriesInv, Arcs, Times, NEW t \in Threads,
         \/ \E ip \in ClientIps : CheckGlobal(t, ip)
         \/ GlobalWait(t) \/ Cleanup(t) \/ CountBefore(t) \/ CountAfter(t) \/ Visits(t)
         \/ ReadClock(t)
  PROVE  Arcs' /\ Times'
<1>1. /\ entries' = entries /\ client_buckets' = client_buckets
      /\ entry' = entry /\ now' = now /\ now \in Nat /\ DOMAIN pc = Threads
  BY DEF CheckGlobal, GlobalWait, Cleanup, CountBefore, CountAfter, Visits, Visit,
     ReadClock, shared, locals, sweep, clock, EntriesInv, Locals
<1>2. Arcs'
  <2>1. DOMAIN entries' = Live(client_buckets', entry') \ {NoEntry}
        /\ DOMAIN entries' \subseteq EntryIds
    BY <1>1 DEF Arcs
  <2>2. \A u \in Threads : pc'[u] \notin Holding => entry'[u] = NoEntry
    BY <1>1 DEF Arcs, Holding, CheckGlobal, GlobalWait, Cleanup, CountBefore,
       CountAfter, Visits, Visit, ReadClock, Goto
  <2> QED BY <2>1, <2>2 DEF Arcs
<1>3. last_cleanup' \in 0..now
  BY <1>1 DEF Times, CheckGlobal, GlobalWait, Cleanup, CountBefore, CountAfter,
     Visits, Visit, ReadClock, shared
<1>4. stamp' \in [Threads -> 0..now]
  BY <1>1 DEF Times, CheckGlobal, GlobalWait, Cleanup, CountBefore, CountAfter,
     Visits, Visit, ReadClock, locals, sweep
<1>5. initial_count' \in [Threads -> 0..Cardinality(Clients)]
  <2>1. Cardinality(Tracked) \in 0..Cardinality(Clients) /\ Cardinality(Clients) \in Nat
    <3>1. Tracked \in SUBSET Clients
      BY DEF Tracked
    <3>2. IsFiniteSet(Tracked) /\ Cardinality(Tracked) <= Cardinality(Clients)
      BY <3>1, FS_Subset, LimiterAssumption
    <3> QED BY <3>2, FS_CardinalityType, LimiterAssumption
  <2> QED BY <2>1 DEF Times, CheckGlobal, GlobalWait, Cleanup, CountBefore,
             CountAfter, Visits, Visit, ReadClock, locals, sweep
<1> QED BY <1>1, <1>2, <1>3, <1>4, <1>5 DEF Times

\* What GetEntry does, with the two cases of its client told apart.
LEMMA GetEntryIs ==
  ASSUME EntriesInv, Arcs, NEW t \in Threads, GetEntry(t)
  PROVE  /\ pc[t] = "entry" /\ pc' = [pc EXCEPT ![t] = "stamp"]
         /\ client[t] \in Clients /\ entry[t] = NoEntry
         /\ UNCHANGED <<clock, global_bucket, last_cleanup, taken,
                        client, stamp, sweep>>
         /\ \E e \in EntryIds :
              /\ entry' = [entry EXCEPT ![t] = e]
              /\ \/ /\ e = client_buckets[client[t]] /\ e \in DOMAIN entries
                    /\ UNCHANGED <<client_buckets, entries>>
                 \/ /\ client_buckets[client[t]] = NoEntry /\ e \notin DOMAIN entries
                    /\ client_buckets' = [client_buckets EXCEPT ![client[t]] = e]
                    /\ entries' = [i \in DOMAIN entries \cup {e} |->
                         IF i = e
                           THEN [bucket |-> NewBucket(now), last_access |-> now]
                           ELSE entries[i]]
<1>1. /\ pc[t] = "entry" /\ pc' = [pc EXCEPT ![t] = "stamp"]
      /\ client[t] \in Clients /\ entry[t] = NoEntry
      /\ UNCHANGED <<clock, global_bucket, last_cleanup, taken,
                     client, stamp, sweep>>
  BY DEF GetEntry, Goto, EntriesInv, Locals, Working, Arcs, Holding
<1>2. CASE client_buckets[client[t]] # NoEntry
  <2>1. client_buckets[client[t]] \in DOMAIN entries
    BY <1>1, <1>2 DEF EntriesInv, References
  <2> QED BY <1>1, <1>2, <2>1 DEF GetEntry, Arcs
<1>3. CASE client_buckets[client[t]] = NoEntry
  <2> DEFINE e == CHOOSE i \in EntryIds : i \notin DOMAIN entries
  <2>1. e \in EntryIds /\ e \notin DOMAIN entries
    BY <1>1, FreshExists DEF EntriesInv
  <2>2. /\ client_buckets' = [client_buckets EXCEPT ![client[t]] = e]
        /\ entry' = [entry EXCEPT ![t] = e]
        /\ entries' = [i \in DOMAIN entries \cup {e} |->
             IF i = e
               THEN [bucket |-> NewBucket(now), last_access |-> now]
               ELSE entries[i]]
    BY <1>3 DEF GetEntry
  <2> HIDE DEF e
  <2> QED BY <1>1, <1>3, <2>1, <2>2
<1> QED BY <1>2, <1>3

LEMMA GetEntryKeepsTypes ==
  ASSUME EntriesInv, Arcs, Times, NEW t \in Threads, GetEntry(t)
  PROVE  Arcs' /\ Times'
<1>1. PICK e \in EntryIds :
        /\ entry' = [entry EXCEPT ![t] = e]
        /\ \/ /\ e = client_buckets[client[t]] /\ e \in DOMAIN entries
              /\ UNCHANGED <<client_buckets, entries>>
           \/ /\ client_buckets[client[t]] = NoEntry /\ e \notin DOMAIN entries
              /\ client_buckets' = [client_buckets EXCEPT ![client[t]] = e]
              /\ entries' = [i \in DOMAIN entries \cup {e} |->
                   IF i = e
                     THEN [bucket |-> NewBucket(now), last_access |-> now]
                     ELSE entries[i]]
  BY GetEntryIs
<1>2. /\ pc[t] = "entry" /\ pc' = [pc EXCEPT ![t] = "stamp"]
      /\ client[t] \in Clients /\ entry[t] = NoEntry /\ now' = now /\ now \in Nat
      /\ DOMAIN entry = Threads /\ DOMAIN client_buckets = Clients /\ DOMAIN pc = Threads
      /\ last_cleanup' = last_cleanup /\ stamp' = stamp /\ initial_count' = initial_count
      /\ e # NoEntry
  BY GetEntryIs, LimiterAssumption DEF clock, sweep, EntriesInv, Locals
<1>3. DOMAIN entries' = DOMAIN entries \cup {e}
  BY <1>1
<1>4. Live(client_buckets', entry') \ {NoEntry}
        = (Live(client_buckets, entry) \ {NoEntry}) \cup {e}
  <2>1. CASE client_buckets' = client_buckets
    BY <1>1, <1>2, <2>1 DEF Live
  <2>2. CASE /\ client_buckets[client[t]] = NoEntry
             /\ client_buckets' = [client_buckets EXCEPT ![client[t]] = e]
    BY <1>1, <1>2, <2>2 DEF Live
  <2> QED BY <1>1, <2>1, <2>2
<1>5. Arcs'
  BY <1>1, <1>2, <1>3, <1>4 DEF Arcs, Holding
<1>6. \A i \in DOMAIN entries' : entries'[i].last_access \in 0..now
  BY <1>1, <1>2 DEF Times
<1> QED BY <1>2, <1>5, <1>6 DEF Times

LEMMA EvictKeepsTypes ==
  ASSUME EntriesInv, Arcs, Times, NEW t \in Threads, Evict(t)
  PROVE  Arcs' /\ Times'
<1>1. /\ now' = now /\ entry' = entry
      /\ pc' = [pc EXCEPT ![t] = "retain"] /\ pc[t] = "retain"
      /\ client_buckets' = [client_buckets EXCEPT ![doomed[t]] = NoEntry]
      /\ entries' = Restrict(entries, DOMAIN entries \cap Live(client_buckets', entry))
      /\ last_cleanup' = last_cleanup /\ stamp' = stamp /\ initial_count' = initial_count
      /\ DOMAIN client_buckets = Clients /\ DOMAIN pc = Threads
  BY DEF Evict, Goto, clock, EntriesInv, Locals
<1>2. DOMAIN entries' = DOMAIN entries \cap Live(client_buckets', entry)
  BY <1>1 DEF Restrict
<1>3. Live(client_buckets', entry) \ {NoEntry} \subseteq Live(client_buckets, entry)
  BY <1>1 DEF Live
<1>4. Arcs'
  BY <1>1, <1>2, <1>3 DEF Arcs, Holding
<1>5. \A e \in DOMAIN entries' : entries'[e].last_access \in 0..now
  BY <1>1 DEF Times, Restrict
<1> QED BY <1>1, <1>4, <1>5 DEF Times

\* The steps with an entry change none of the times but last_access.
LEMMA EntryUseKeepsTypes ==
  ASSUME EntriesInv, Arcs, Times, NEW t \in Threads, Touch(t) \/ Consume(t) \/ ClientWait(t)
  PROVE  Arcs' /\ Times'
<1>1. /\ entry[t] \in DOMAIN entries /\ now' = now /\ client_buckets' = client_buckets
      /\ last_cleanup' = last_cleanup /\ initial_count' = initial_count
      /\ now \in Nat /\ DOMAIN pc = Threads /\ DOMAIN entry = Threads
      /\ stamp[t] \in 0..now
  BY DEF EntriesInv, References, Holding, Locals, Touch, Consume, ClientWait, Goto, clock,
     sweep, Times
<1>2. stamp' \in [Threads -> 0..now]
  BY <1>1 DEF Times, Touch, Consume, ClientWait
<1> DEFINE b == entries[entry[t]].bucket
           used == [entries EXCEPT ![entry[t]].bucket = TryConsume(b, now)]
<1>3. DOMAIN used = DOMAIN entries
      /\ \A e \in DOMAIN entries : used[e].last_access = entries[e].last_access
  <2>1. Entry(entries[entry[t]])
    BY <1>1 DEF EntriesInv, Heap
  <2> QED BY <1>1, <2>1 DEF Entry
<1>4. ASSUME NEW heap, Return(t, heap), DOMAIN heap = DOMAIN entries,
             \A e \in DOMAIN heap : heap[e].last_access = entries[e].last_access,
             pc' = [pc EXCEPT ![t] = "idle"]
      PROVE  Arcs' /\ Times'
  <2>1. /\ DOMAIN entries' = DOMAIN entries \cap Live(client_buckets, entry')
        /\ \A e \in DOMAIN entries' : entries'[e].last_access = entries[e].last_access
        /\ entry' = [entry EXCEPT ![t] = NoEntry]
    BY <1>4 DEF Return, Restrict
  <2>2. Live(client_buckets, entry') \ {NoEntry} \subseteq Live(client_buckets, entry)
    BY <1>1, <2>1 DEF Live
  <2>3. Arcs'
    BY <1>1, <1>4, <2>1, <2>2 DEF Arcs, Holding
  <2> QED BY <1>1, <1>2, <2>1, <2>3 DEF Times
<1>5. ASSUME DOMAIN entries' = DOMAIN entries, entry' = entry,
             \A e \in DOMAIN entries : entries'[e].last_access \in 0..now,
             pc' = [pc EXCEPT ![t] = "consume"] \/ pc' = [pc EXCEPT ![t] = "client_wait"]
      PROVE  Arcs' /\ Times'
  <2>1. Arcs'
    BY <1>1, <1>5 DEF Arcs, Holding
  <2> QED BY <1>1, <1>2, <1>5, <2>1 DEF Times
<1>6. CASE Touch(t)
  <2>1. /\ DOMAIN entries' = DOMAIN entries /\ entry' = entry
        /\ pc' = [pc EXCEPT ![t] = "consume"]
    BY <1>6 DEF Touch, Goto
  <2>2. \A e \in DOMAIN entries : entries'[e].last_access \in 0..now
    <3>1. Entry(entries[entry[t]])
      BY <1>1 DEF EntriesInv, Heap
    <3> QED BY <1>1, <1>6, <3>1 DEF Touch, Times, Entry
  <2> QED BY <1>5, <2>1, <2>2
<1>7. CASE Consume(t)
  <2>1. CASE Return(t, used) /\ pc' = [pc EXCEPT ![t] = "idle"]
    <3> HIDE DEF used
    <3> QED BY <1>3, <1>4, <2>1
  <2>2. CASE entries' = used /\ entry' = entry /\ pc' = [pc EXCEPT ![t] = "client_wait"]
    <3> HIDE DEF used
    <3> QED BY <1>3, <1>5, <2>2 DEF Times
  <2> QED BY <1>7, <2>1, <2>2 DEF Consume, Goto
<1>8. CASE ClientWait(t)
  BY <1>4, <1>8 DEF ClientWait, Goto
<1> QED BY <1>6, <1>7, <1>8

LEMMA TypesStep == EntriesInv /\ Arcs /\ Times /\ [Next]_vars => Arcs' /\ Times'
<1> SUFFICES ASSUME EntriesInv, Arcs, Times, [Next]_vars PROVE Arcs' /\ Times'
  OBVIOUS
<1>1. CASE UNCHANGED vars
  BY <1>1 DEF vars, shared, locals, sweep, clock, Arcs, Times
<1>2. CASE Tick
  <2>1. /\ now' = now + 1 /\ entries' = entries /\ client_buckets' = client_buckets
        /\ entry' = entry /\ pc' = pc /\ last_cleanup' = last_cleanup
        /\ stamp' = stamp /\ initial_count' = initial_count /\ now \in Nat
    BY <1>2 DEF Tick, shared, locals, sweep, EntriesInv
  <2>2. Arcs'
    BY <2>1 DEF Arcs
  <2>3. \A x \in 0..now : x \in 0..now'
    BY <2>1
  <2> QED BY <2>1, <2>2, <2>3 DEF Times
<1> QED BY <1>1, <1>2, LocalStepsKeepTypes, GetEntryKeepsTypes, EvictKeepsTypes,
           EntryUseKeepsTypes DEF Next, Visits

-------------------------------------------------------------------------------
\* A client that a retain is about to remove is in the map, its shard is locked by
\* that thread alone, and no two clients share an entry.
Doom ==
  /\ doomed \in [Threads -> Clients \cup {NoClient}]
  /\ \A t \in Threads : doomed[t] # NoClient =>
       /\ pc[t] = "retain"
       /\ client_buckets[doomed[t]] # NoEntry
  /\ \A t, u \in Threads : doomed[t] # NoClient /\ doomed[t] = doomed[u] => t = u
  /\ \A c, d \in Clients :
       client_buckets[c] # NoEntry /\ client_buckets[c] = client_buckets[d] => c = d

LEMMA DoomInit == Init => Doom
BY DEF Init, Doom

LEMMA DoomStep == EntriesInv /\ Arcs /\ Doom /\ [Next]_vars => Doom'
<1> SUFFICES ASSUME EntriesInv, Arcs, Doom, [Next]_vars PROVE Doom'
  OBVIOUS
<1>1. DOMAIN pc = Threads /\ DOMAIN client_buckets = Clients
  BY DEF EntriesInv, Locals
<1>2. ASSUME UNCHANGED <<client_buckets, doomed>>,
             \A u \in Threads : doomed[u] # NoClient => pc'[u] = pc[u]
      PROVE  Doom'
  BY <1>2 DEF Doom
<1>3. CASE UNCHANGED vars \/ Tick
  BY <1>2, <1>3 DEF vars, Tick, shared, locals, sweep
<1>4. ASSUME NEW t \in Threads,
             \/ \E ip \in ClientIps : CheckGlobal(t, ip)
             \/ GlobalWait(t) \/ Cleanup(t) \/ CountBefore(t) \/ ReadClock(t)
             \/ Touch(t) \/ Consume(t) \/ ClientWait(t)
      PROVE  Doom'
  <2>1. UNCHANGED <<client_buckets, doomed>>
    BY <1>4 DEF CheckGlobal, GlobalWait, Cleanup, CountBefore, ReadClock, Touch, Consume,
       ClientWait, shared, locals, sweep
  <2>2. pc[t] # "retain" /\ \E to : pc' = [pc EXCEPT ![t] = to]
    BY <1>4 DEF CheckGlobal, GlobalWait, Cleanup, CountBefore, ReadClock, Touch, Consume,
       ClientWait, Goto
  <2>3. \A u \in Threads : doomed[u] # NoClient => pc'[u] = pc[u]
    BY <1>1, <2>2 DEF Doom
  <2> QED BY <1>2, <2>1, <2>3
<1>5. ASSUME NEW t \in Threads, CountAfter(t) PROVE Doom'
  <2>1. doomed[t] = NoClient
    BY <1>5 DEF CountAfter, Swept, Locked, Doom
  <2> QED BY <1>1, <1>2, <1>5, <2>1 DEF CountAfter, Goto, shared
<1>6. ASSUME NEW t \in Threads, NEW c \in Clients, Visit(t, c) PROVE Doom'
  <2>1. /\ pc[t] = "retain" /\ pc' = [pc EXCEPT ![t] = "retain"]
        /\ client_buckets' = client_buckets /\ doomed[t] = NoClient
        /\ \A u \in Threads : doomed[u] # c
        /\ \/ doomed' = [doomed EXCEPT ![t] = c] /\ client_buckets[c] # NoEntry
           \/ doomed' = doomed
    BY <1>6 DEF Visit, Goto, Locked, shared, Doom
  <2>2. CASE doomed' = [doomed EXCEPT ![t] = c] /\ client_buckets[c] # NoEntry
    BY <1>1, <2>1, <2>2 DEF Doom
  <2>3. CASE doomed' = doomed
    BY <1>1, <1>2, <2>1, <2>3
  <2> QED BY <2>1, <2>2, <2>3
<1>7. ASSUME NEW t \in Threads, Evict(t) PROVE Doom'
  <2>1. /\ pc' = [pc EXCEPT ![t] = "retain"] /\ doomed[t] \in Clients
        /\ pc[t] = "retain" /\ doomed[t] # NoClient
        /\ client_buckets' = [client_buckets EXCEPT ![doomed[t]] = NoEntry]
        /\ doomed' = [doomed EXCEPT ![t] = NoClient]
    BY <1>7 DEF Evict, Goto, Doom
  <2> QED BY <1>1, <2>1 DEF Doom
<1>8. ASSUME NEW t \in Threads, GetEntry(t) PROVE Doom'
  <2>1. /\ pc[t] = "entry" /\ pc' = [pc EXCEPT ![t] = "stamp"] /\ doomed' = doomed
        /\ client[t] \in Clients
    BY <1>8, GetEntryIs DEF sweep
  <2>2. PICK e \in EntryIds :
          \/ UNCHANGED client_buckets
          \/ /\ client_buckets[client[t]] = NoEntry /\ e \notin DOMAIN entries
             /\ client_buckets' = [client_buckets EXCEPT ![client[t]] = e]
    BY <1>8, GetEntryIs
  <2>3. e # NoEntry /\ \A c \in Clients : client_buckets[c] # NoEntry =>
          client_buckets[c] \in DOMAIN entries
    BY LimiterAssumption DEF EntriesInv, References
  <2> QED BY <1>1, <2>1, <2>2, <2>3 DEF Doom
<1> QED BY <1>3, <1>4, <1>5, <1>6, <1>7, <1>8 DEF Next

\* The state keeps its types whatever the threads interleave: no bucket overflows or
\* goes negative, no stored time is ahead of the clock, and the entries alive are
\* exactly those that the map or a check still refers to (ratelimit.rs, check).
THEOREM TypeCorrect == Spec => []TypeOK
<1>1. GlobalInv /\ EntriesInv /\ Arcs /\ Times /\ Doom => TypeOK
  <2> SUFFICES ASSUME GlobalInv, EntriesInv, Arcs, Times, Doom PROVE TypeOK
    OBVIOUS
  <2>1. now \in 0..MaxTime /\ now \in Nat /\ MaxTime \in Nat /\ Capacity \in Nat
    BY LimiterAssumption, CapacityType DEF GlobalInv, EntriesInv
  <2>2. ASSUME NEW x, Bucket(x), x.last_update <= now PROVE x \in Buckets
    BY <2>1, <2>2 DEF Bucket, Buckets
  <2>3. global_bucket \in Buckets /\ global_bucket.last_update <= now
    BY <2>2 DEF GlobalInv
  <2>4. \A e \in DOMAIN entries :
          entries[e].bucket \in Buckets /\ entries[e].bucket.last_update <= now
    BY <2>2 DEF EntriesInv, Heap, Entry
  <2> QED BY <2>1, <2>3, <2>4 DEF TypeOK, Arcs, Times, Doom
<1> QED BY <1>1, GlobalInvInit, GlobalInvStep, EntriesInit, EntriesStep, TypesInit, TypesStep,
           DoomInit, DoomStep, PTL DEF Spec

-------------------------------------------------------------------------------
\* Why the limit of a client never binds while checks take no time.  Each check has
\* taken a global token before it takes one of its client, so every client's bucket
\* is ahead of the global one by the tokens that checks under way are to take from
\* it.  A new bucket is full, and the global one misses at least the tokens of all
\* checks under way.

Using == {"stamp", "touch", "consume"}

Pending == {t \in Threads : pc[t] \in Working \cup Using}

Owing(e) ==
  {t \in Threads : \/ pc[t] \in Using /\ entry[t] = e
                   \/ pc[t] \in Working /\ client_buckets[client[t]] = e}

Debt(S) == OneToken * Cardinality(S)

Level(b, n) == Refill(b, n).tokens

NoWait == \A t \in Threads : pc[t] # "client_wait"

Ahead ==
  /\ Level(global_bucket, now) + Debt(Pending) <= Capacity
  /\ \A e \in DOMAIN entries :
       Level(global_bucket, now) + Debt(Owing(e)) <= Level(entries[e].bucket, now)

Prompt == ~may_stall => NoWait /\ Ahead

LEMMA DebtFacts ==
  ASSUME NEW S \in SUBSET Threads
  PROVE  /\ Debt(S) \in Nat
         /\ \A t \in S : Debt(S \ {t}) + OneToken = Debt(S)
         /\ \A T \in SUBSET S : Debt(T) <= Debt(S) /\ Debt(T) \in Nat
<1>1. ASSUME NEW T \in SUBSET Threads
      PROVE  IsFiniteSet(T) /\ Cardinality(T) \in Nat /\ Debt(T) \in Nat
  <2>1. IsFiniteSet(T) /\ Cardinality(T) \in Nat
    BY LimiterAssumption, FS_Subset, FS_CardinalityType
  <2> QED BY <2>1, ProductNat, CapacityType DEF Debt
<1>2. ASSUME NEW t \in S PROVE Debt(S \ {t}) + OneToken = Debt(S)
  <2>1. Cardinality(S) = Cardinality(S \ {t}) + 1 /\ Cardinality(S \ {t}) \in Nat
    BY <1>1, FS_RemoveElement
  <2>2. OneToken * (Cardinality(S \ {t}) + 1)
          = OneToken * Cardinality(S \ {t}) + OneToken * 1
    BY <2>1, Distribute, CapacityType
  <2> QED BY <2>1, <2>2, CapacityType DEF Debt
<1>3. ASSUME NEW T \in SUBSET S PROVE Debt(T) <= Debt(S)
  <2>1. Cardinality(T) <= Cardinality(S) /\ Cardinality(T) \in Nat /\ Cardinality(S) \in Nat
    BY <1>1, FS_Subset
  <2>2. PICK k \in Nat : Cardinality(S) = Cardinality(T) + k
    <3>1. Cardinality(S) - Cardinality(T) \in Nat
      BY <2>1
    <3> QED BY <3>1, <2>1
  <2>3. OneToken * (Cardinality(T) + k) = OneToken * Cardinality(T) + OneToken * k
    BY <2>1, Distribute, CapacityType
  <2>4. OneToken * k \in Nat /\ OneToken * Cardinality(T) \in Nat
    BY <2>1, ProductNat, CapacityType
  <2> QED BY <2>2, <2>3, <2>4 DEF Debt
<1> QED BY <1>1, <1>2, <1>3

\* At most one more thread owes at most one more token.
LEMMA DebtAdd ==
  ASSUME NEW S \in SUBSET Threads, NEW t \in Threads, NEW T \in SUBSET (S \cup {t})
  PROVE  Debt(T) <= Debt(S) + OneToken /\ Debt(T) \in Nat /\ Debt(S) \in Nat
<1> DEFINE U == S \cup {t}
<1>1. U \in SUBSET Threads /\ t \in U /\ T \in SUBSET U /\ U \ {t} \in SUBSET S
  OBVIOUS
<1> HIDE DEF U
<1>2. Debt(T) <= Debt(U) /\ Debt(T) \in Nat /\ Debt(U) \in Nat
      /\ Debt(U \ {t}) + OneToken = Debt(U)
  BY <1>1, DebtFacts
<1>3. Debt(U \ {t}) <= Debt(S) /\ Debt(U \ {t}) \in Nat /\ Debt(S) \in Nat
  BY <1>1, DebtFacts
<1> QED BY <1>2, <1>3, CapacityType

LEMMA LevelFacts ==
  ASSUME NEW b, Bucket(b), NEW n \in Nat, b.last_update <= n
  PROVE  /\ Level(b, n) \in 0..Capacity
         /\ b.last_update = n => Level(b, n) = b.tokens
         /\ Level(b, n + 1) = Lesser(Level(b, n) + RequestsPerSecond, Capacity)
         /\ CanConsume(b, n) => Level(TryConsume(b, n), n) = Level(b, n) - OneToken
         /\ ~CanConsume(b, n) => Level(TryConsume(b, n), n) = Level(b, n)
         /\ CanConsume(b, n) <=> Level(b, n) >= OneToken
<1> DEFINE r == RequestsPerSecond
<1>1. ASSUME NEW x, Bucket(x), x.last_update <= n
      PROVE  /\ Level(x, n) \in 0..Capacity
             /\ x.last_update = n => Level(x, n) = x.tokens
  <2>1. Level(x, n) \in 0..Capacity
    BY <1>1, RefillBounds DEF Level, Bucket
  <2>2. ASSUME x.last_update = n PROVE Level(x, n) = x.tokens
    <3>1. (n - x.last_update) * r = 0
      BY <2>2, BucketAssumption
    <3> QED BY <1>1, <3>1, RefillTokens, CapacityType DEF Level, Bucket, Lesser
  <2> QED BY <2>1, <2>2
<1>2. Level(b, n + 1) = Lesser(Level(b, n) + r, Capacity)
  <2> DEFINE d == n - b.last_update
  <2>1. d \in Nat /\ (n + 1) - b.last_update = d + 1 /\ r \in Nat
    BY BucketAssumption DEF Bucket
  <2>2. (d + 1) * r = d * r + 1 * r /\ d * r \in Nat
    <3> HIDE DEF d, r
    <3> QED BY <2>1, Distribute, ProductNat
  <2>3. /\ Level(b, n) = Lesser(b.tokens + d * r, Capacity)
        /\ Level(b, n + 1) = Lesser(b.tokens + (d + 1) * r, Capacity)
    BY <2>1, RefillTokens DEF Level
  <2> HIDE DEF d, r
  <2> QED BY <2>1, <2>2, <2>3, CapacityType DEF Lesser, Bucket
<1>3. /\ Bucket(TryConsume(b, n)) /\ TryConsume(b, n).last_update = n
      /\ CanConsume(b, n) => TryConsume(b, n).tokens = Level(b, n) - OneToken
      /\ ~CanConsume(b, n) => TryConsume(b, n).tokens = Level(b, n)
  BY ConsumeBounds DEF Level
<1>4. Level(TryConsume(b, n), n) = TryConsume(b, n).tokens
  BY <1>1, <1>3
<1>5. CanConsume(b, n) <=> Level(b, n) >= OneToken
  BY DEF CanConsume, Level
<1> QED BY <1>1, <1>2, <1>3, <1>4, <1>5

LEMMA PromptInit == Init => Prompt
<1> SUFFICES ASSUME Init PROVE NoWait /\ Ahead
  BY DEF Prompt
<1>1. NoWait /\ DOMAIN entries = {}
  BY DEF Init, NoWait
<1>2. Pending = {}
  BY DEF Init, Pending, Working, Using
<1>3. Bucket(global_bucket) /\ global_bucket.last_update = 0 /\ now = 0
  BY GlobalInvInit DEF Init, GlobalInv, NewBucket
<1>4. Level(global_bucket, now) \in 0..Capacity
  BY <1>3, LevelFacts
<1>5. Debt({}) = 0
  BY FS_EmptySet, CapacityType DEF Debt
<1> QED BY <1>1, <1>2, <1>4, <1>5, CapacityType DEF Ahead

\* A step that takes no token of a client and lets no more threads owe one keeps
\* every bucket ahead.
LEMMA AheadFrame ==
  ASSUME GlobalInv, EntriesInv, NoWait, Ahead, GlobalInv',
         Level(global_bucket, now)' <= Level(global_bucket, now),
         Pending' \in SUBSET Pending, now' = now,
         \A e \in DOMAIN entries' :
           /\ e \in DOMAIN entries /\ entries'[e].bucket = entries[e].bucket
           /\ Owing(e)' \in SUBSET Owing(e)
  PROVE  Ahead'
<1> DEFINE g == Level(global_bucket, now)
<1>1. g \in Nat /\ g' \in Nat /\ now \in Nat
  BY LevelFacts, CapacityType DEF GlobalInv, EntriesInv
<1>2. /\ Debt(Pending') <= Debt(Pending)
      /\ Debt(Pending') \in Nat /\ Debt(Pending) \in Nat
  BY DebtFacts DEF Pending
<1>3. g' + Debt(Pending') <= Capacity
  BY <1>1, <1>2, CapacityType DEF Ahead
<1>4. ASSUME NEW e \in DOMAIN entries'
      PROVE  g' + Debt(Owing(e)') <= Level(entries'[e].bucket, now)
  <2>1. Owing(e) \in SUBSET Threads
    BY DEF Owing
  <2>2. Debt(Owing(e)') <= Debt(Owing(e)) /\ Debt(Owing(e)') \in Nat /\ Debt(Owing(e)) \in Nat
    BY <2>1, DebtFacts
  <2>3. g + Debt(Owing(e)) <= Level(entries[e].bucket, now)
    BY DEF Ahead
  <2>4. Level(entries[e].bucket, now) \in Nat
    BY <1>1, LevelFacts, CapacityType DEF EntriesInv, Heap, Entry
  <2> QED BY <1>1, <2>2, <2>3, <2>4
<1> QED BY <1>3, <1>4 DEF Ahead

\* The steps of a thread that leave the entries and their users as they are.
LEMMA QuietStepsKeepAhead ==
  ASSUME GlobalInv, EntriesInv, Arcs, NoWait, Ahead, GlobalInv', NEW t \in Threads,
         \/ GlobalWait(t) \/ Cleanup(t) \/ CountBefore(t) \/ CountAfter(t) \/ Visits(t)
         \/ ReadClock(t) \/ Touch(t)
  PROVE  NoWait' /\ Ahead'
<1>1. /\ global_bucket' = global_bucket /\ now' = now /\ client_buckets' = client_buckets
      /\ entry' = entry /\ client' = client /\ DOMAIN pc = Threads /\ now \in Nat
  BY DEF GlobalWait, Cleanup, CountBefore, CountAfter, Visits, Visit, ReadClock,
     Touch, shared, locals, sweep, clock, EntriesInv, Locals
<1>2. \/ pc[t] = "global_wait" /\ pc' = [pc EXCEPT ![t] = "idle"]
      \/ \E to \in Working : pc[t] \in Working /\ pc' = [pc EXCEPT ![t] = to]
      \/ \E to \in Using : pc[t] \in Using /\ pc' = [pc EXCEPT ![t] = to]
  BY DEF GlobalWait, Cleanup, CountBefore, CountAfter, Visits, Visit, ReadClock,
     Touch, Goto, Working, Using
<1>3. NoWait'
  BY <1>1, <1>2 DEF NoWait, Working, Using
<1>4. Pending' \in SUBSET Pending
  BY <1>1, <1>2 DEF Pending, Working, Using
<1>5. ASSUME NEW e PROVE Owing(e)' \in SUBSET Owing(e)
  BY <1>1, <1>2 DEF Owing, Working, Using
<1>6. /\ DOMAIN entries' = DOMAIN entries
      /\ \A e \in DOMAIN entries : entries'[e].bucket = entries[e].bucket
  <2>1. CASE Touch(t)
    <3>1. entry[t] \in DOMAIN entries /\ Entry(entries[entry[t]])
      BY <2>1 DEF EntriesInv, References, Heap, Holding, Touch, Goto
    <3> QED BY <2>1, <3>1 DEF Touch, Entry
  <2>2. CASE entries' = entries
    BY <2>2
  <2> QED BY <2>1, <2>2 DEF GlobalWait, Cleanup, CountBefore, CountAfter, Visits,
             Visit, ReadClock, shared
<1>7. Level(global_bucket, now)' <= Level(global_bucket, now)
  <2>1. Level(global_bucket, now) \in 0..Capacity
    BY <1>1, LevelFacts DEF GlobalInv
  <2> QED BY <1>1, <2>1, CapacityType DEF Level
<1> QED BY <1>1, <1>3, <1>4, <1>5, <1>6, <1>7, AheadFrame

LEMMA CheckGlobalKeepsAhead ==
  ASSUME GlobalInv, EntriesInv, NoWait, Ahead, GlobalInv', NEW t \in Threads,
         NEW ip, CheckGlobal(t, ip)
  PROVE  NoWait' /\ Ahead'
<1> DEFINE g == Level(global_bucket, now)
<1>1. /\ global_bucket' = TryConsume(global_bucket, now) /\ now' = now
      /\ client_buckets' = client_buckets /\ entries' = entries /\ entry' = entry
      /\ DOMAIN pc = Threads /\ DOMAIN client = Threads /\ now \in Nat /\ pc[t] = "idle"
  BY DEF CheckGlobal, Goto, clock, EntriesInv, Locals
<1>2. /\ g \in 0..Capacity
      /\ CanConsume(global_bucket, now) => g' = g - OneToken
      /\ ~CanConsume(global_bucket, now) => g' = g
  BY <1>1, LevelFacts DEF GlobalInv
<1>3. CASE /\ client' = client
           /\ pc' = [pc EXCEPT ![t] = "global_wait"] \/ pc' = [pc EXCEPT ![t] = "idle"]
  <2>1. NoWait' /\ Pending' \in SUBSET Pending
    BY <1>1, <1>3 DEF NoWait, Pending, Working, Using
  <2>2. ASSUME NEW e PROVE Owing(e)' \in SUBSET Owing(e)
    BY <1>1, <1>3 DEF Owing, Working, Using
  <2>3. g' <= g
    <3> HIDE DEF g
    <3> QED BY <1>2, CapacityType
  <2> QED BY <1>1, <2>1, <2>2, <2>3, AheadFrame
<1>4. CASE /\ CanConsume(global_bucket, now)
           /\ client' = [client EXCEPT ![t] = ip]
           /\ pc' = [pc EXCEPT ![t] = "cleanup"]
  <2>1. NoWait' /\ Pending' \in SUBSET (Pending \cup {t}) /\ Pending \in SUBSET Threads
    BY <1>1, <1>4 DEF NoWait, Pending, Working, Using
  <2>2. g \in Nat /\ g' = g - OneToken /\ g' \in Nat
    <3>1. g >= OneToken
      BY <1>1, <1>4, LevelFacts DEF GlobalInv
    <3> HIDE DEF g
    <3> QED BY <1>2, <1>4, <3>1, CapacityType
  <2>3. g' + Debt(Pending') <= Capacity
    <3>1. /\ Debt(Pending') <= Debt(Pending) + OneToken
          /\ Debt(Pending') \in Nat /\ Debt(Pending) \in Nat
      BY <2>1, DebtAdd
    <3>2. g + Debt(Pending) <= Capacity
      BY DEF Ahead
    <3> HIDE DEF g
    <3> QED BY <2>2, <3>1, <3>2, CapacityType
  <2>4. ASSUME NEW e \in DOMAIN entries'
        PROVE  g' + Debt(Owing(e)') <= Level(entries'[e].bucket, now)
    <3>1. Owing(e)' \in SUBSET (Owing(e) \cup {t}) /\ Owing(e) \in SUBSET Threads
      BY <1>1, <1>4 DEF Owing, Working, Using
    <3>2. /\ Debt(Owing(e)') <= Debt(Owing(e)) + OneToken
          /\ Debt(Owing(e)') \in Nat /\ Debt(Owing(e)) \in Nat
      BY <3>1, DebtAdd
    <3>3. g + Debt(Owing(e)) <= Level(entries[e].bucket, now)
      BY <1>1 DEF Ahead
    <3>4. Level(entries[e].bucket, now) \in Nat /\ entries'[e] = entries[e]
      BY <1>1, LevelFacts, CapacityType DEF EntriesInv, Heap, Entry
    <3> HIDE DEF g
    <3> QED BY <2>2, <3>2, <3>3, <3>4, CapacityType
  <2>5. Ahead'
    BY <1>1, <2>3, <2>4 DEF Ahead
  <2> QED BY <2>1, <2>5
<1> QED BY <1>3, <1>4 DEF CheckGlobal, Goto

LEMMA EvictKeepsAhead ==
  ASSUME GlobalInv, EntriesInv, Arcs, NoWait, Ahead, GlobalInv', NEW t \in Threads, Evict(t)
  PROVE  NoWait' /\ Ahead'
<1>1. /\ now' = now /\ entry' = entry /\ client' = client /\ global_bucket' = global_bucket
      /\ pc' = [pc EXCEPT ![t] = "retain"] /\ pc[t] = "retain"
      /\ client_buckets' = [client_buckets EXCEPT ![doomed[t]] = NoEntry]
      /\ entries' = Restrict(entries, DOMAIN entries \cap Live(client_buckets', entry))
      /\ DOMAIN client_buckets = Clients /\ DOMAIN pc = Threads /\ now \in Nat
  BY DEF Evict, Goto, clock, EntriesInv, Locals
<1>2. NoWait' /\ Pending' \in SUBSET Pending
  BY <1>1 DEF NoWait, Pending, Working, Using
<1>3. ASSUME NEW e \in DOMAIN entries'
      PROVE  /\ e \in DOMAIN entries /\ entries'[e].bucket = entries[e].bucket
             /\ Owing(e)' \in SUBSET Owing(e)
  <2>1. e \in DOMAIN entries /\ entries'[e] = entries[e]
    BY <1>1 DEF Restrict
  <2>2. e # NoEntry
    BY <2>1 DEF Arcs
  <2>3. \A d \in Clients : client_buckets'[d] = e => client_buckets[d] = e
    BY <1>1, <2>2
  <2>4. \A u \in Threads : pc[u] \in Working => client[u] \in Clients
    BY DEF EntriesInv, Locals
  <2>5. Owing(e)' \in SUBSET Owing(e)
    BY <1>1, <2>3, <2>4 DEF Owing, Working, Using
  <2> QED BY <2>1, <2>5
<1>4. Level(global_bucket, now)' <= Level(global_bucket, now)
  <2>1. Level(global_bucket, now) \in 0..Capacity
    BY <1>1, LevelFacts DEF GlobalInv
  <2> QED BY <1>1, <2>1, CapacityType DEF Level
<1> QED BY <1>1, <1>2, <1>3, <1>4, AheadFrame

LEMMA GetEntryKeepsAhead ==
  ASSUME GlobalInv, EntriesInv, Arcs, NoWait, Ahead, GlobalInv', NEW t \in Threads,
         GetEntry(t)
  PROVE  NoWait' /\ Ahead'
<1> DEFINE g == Level(global_bucket, now)
<1>1. PICK e \in EntryIds :
        /\ entry' = [entry EXCEPT ![t] = e]
        /\ \/ /\ e = client_buckets[client[t]] /\ e \in DOMAIN entries
              /\ UNCHANGED <<client_buckets, entries>>
           \/ /\ client_buckets[client[t]] = NoEntry /\ e \notin DOMAIN entries
              /\ client_buckets' = [client_buckets EXCEPT ![client[t]] = e]
              /\ entries' = [i \in DOMAIN entries \cup {e} |->
                   IF i = e
                     THEN [bucket |-> NewBucket(now), last_access |-> now]
                     ELSE entries[i]]
  BY GetEntryIs
<1>2. /\ pc[t] = "entry" /\ pc' = [pc EXCEPT ![t] = "stamp"]
      /\ client[t] \in Clients /\ entry[t] = NoEntry /\ now' = now /\ now \in Nat
      /\ DOMAIN entry = Threads /\ DOMAIN client_buckets = Clients /\ DOMAIN pc = Threads
      /\ client' = client /\ global_bucket' = global_bucket
  BY GetEntryIs DEF clock, EntriesInv, Locals
<1>3. NoWait' /\ Pending' = Pending
  BY <1>2 DEF NoWait, Pending, Working, Using
<1>4. g \in 0..Capacity /\ g' = g
  BY <1>2, LevelFacts DEF GlobalInv, Level
<1>5. CASE /\ e = client_buckets[client[t]] /\ e \in DOMAIN entries
           /\ UNCHANGED <<client_buckets, entries>>
  <2>1. ASSUME NEW i PROVE Owing(i)' \in SUBSET Owing(i)
    BY <1>1, <1>2, <1>5 DEF Owing, Working, Using
  <2>2. g' <= g
    <3> HIDE DEF g
    <3> QED BY <1>4, CapacityType
  <2> QED BY <1>2, <1>3, <1>5, <2>1, <2>2, AheadFrame
<1>6. CASE /\ client_buckets[client[t]] = NoEntry /\ e \notin DOMAIN entries
           /\ client_buckets' = [client_buckets EXCEPT ![client[t]] = e]
           /\ entries' = [i \in DOMAIN entries \cup {e} |->
                IF i = e
                  THEN [bucket |-> NewBucket(now), last_access |-> now]
                  ELSE entries[i]]
  <2>1. g' + Debt(Pending') <= Capacity
    BY <1>3, <1>4 DEF Ahead
  <2>2. ASSUME NEW i \in DOMAIN entries'
        PROVE  g' + Debt(Owing(i)') <= Level(entries'[i].bucket, now)
    <3>1. CASE i = e
      <4>1. entries'[i].bucket = NewBucket(now)
        BY <1>6, <3>1
      <4>2. Bucket(NewBucket(now)) /\ NewBucket(now).last_update = now
            /\ NewBucket(now).tokens = Capacity
        BY <1>2, CapacityType DEF NewBucket, Bucket
      <4>3. Level(NewBucket(now), now) = Capacity
        BY <1>2, <4>2, LevelFacts
      <4>4. Owing(i)' \in SUBSET (Pending') /\ Pending' \in SUBSET Threads
        BY DEF Owing, Pending
      <4>5. Debt(Owing(i)') <= Debt(Pending') /\ Debt(Owing(i)') \in Nat /\ Debt(Pending') \in Nat
        BY <4>4, DebtFacts
      <4>6. g' \in Nat
        BY <1>4, CapacityType
      <4> HIDE DEF g
      <4> QED BY <2>1, <4>1, <4>3, <4>5, <4>6, CapacityType
    <3>2. CASE i # e
      <4>1. i \in DOMAIN entries /\ entries'[i] = entries[i]
        BY <1>6, <3>2
      <4>2. Owing(i)' \in SUBSET Owing(i) /\ Owing(i) \in SUBSET Threads
        <5>1. \A d \in Clients : client_buckets'[d] = i => client_buckets[d] = i
          BY <1>2, <1>6, <3>2
        <5>2. \A u \in Threads : pc[u] \in Working => client[u] \in Clients
          BY DEF EntriesInv, Locals
        <5> QED BY <1>1, <1>2, <5>1, <5>2, <3>2 DEF Owing, Working, Using
      <4>3. Debt(Owing(i)') <= Debt(Owing(i)) /\ Debt(Owing(i)') \in Nat /\ Debt(Owing(i)) \in Nat
        BY <4>2, DebtFacts
      <4>4. g + Debt(Owing(i)) <= Level(entries[i].bucket, now)
        BY <4>1 DEF Ahead
      <4>5. Level(entries[i].bucket, now) \in Nat /\ g \in Nat
        BY <1>2, <1>4, <4>1, LevelFacts, CapacityType DEF EntriesInv, Heap, Entry
      <4> HIDE DEF g
      <4> QED BY <1>4, <4>1, <4>3, <4>4, <4>5
    <3> QED BY <3>1, <3>2
  <2>3. Ahead'
    BY <1>2, <2>1, <2>2 DEF Ahead
  <2> QED BY <1>3, <2>3
<1> QED BY <1>1, <1>5, <1>6

\* The bucket of a client that a check comes to holds the token it is to take.
LEMMA ConsumeKeepsAhead ==
  ASSUME GlobalInv, EntriesInv, NoWait, Ahead, GlobalInv', NEW t \in Threads, Consume(t)
  PROVE  NoWait' /\ Ahead'
<1> DEFINE g == Level(global_bucket, now)
           e == entry[t]
           b == entries[e].bucket
           heap == [entries EXCEPT ![e].bucket = TryConsume(b, now)]
<1>1. /\ pc[t] = "consume" /\ now' = now /\ now \in Nat /\ global_bucket' = global_bucket
      /\ client_buckets' = client_buckets /\ DOMAIN pc = Threads
      /\ DOMAIN entry = Threads /\ DOMAIN client = Threads
      /\ e \in DOMAIN entries /\ Entry(entries[e])
  BY DEF Consume, Goto, clock, EntriesInv, Locals, References, Heap, Holding
<1>2. g \in Nat /\ g' = g
  BY <1>1, LevelFacts, CapacityType DEF GlobalInv, Level
<1>3. t \in Owing(e) /\ Owing(e) \in SUBSET Threads
  BY <1>1 DEF Owing, Using
<1>4. /\ Debt(Owing(e) \ {t}) + OneToken = Debt(Owing(e))
      /\ Debt(Owing(e) \ {t}) \in Nat /\ Debt(Owing(e)) \in Nat
  BY <1>3, DebtFacts
<1>5. /\ Level(b, now) \in Nat
      /\ CanConsume(b, now) => Level(TryConsume(b, now), now) = Level(b, now) - OneToken
      /\ CanConsume(b, now) <=> Level(b, now) >= OneToken
  BY <1>1, LevelFacts, CapacityType DEF Entry
<1>6. g + Debt(Owing(e)) <= Level(b, now)
  BY <1>1 DEF Ahead
<1>7. CanConsume(b, now)
  <2> HIDE DEF g, e, b
  <2> QED BY <1>2, <1>4, <1>5, <1>6, CapacityType
<1>8. /\ pc' = [pc EXCEPT ![t] = "idle"] /\ Return(t, heap)
  BY <1>7 DEF Consume, Goto
<1>9. /\ client' = [client EXCEPT ![t] = NoClient] /\ entry' = [entry EXCEPT ![t] = NoEntry]
      /\ entries' = Restrict(heap, DOMAIN heap \cap Live(client_buckets, entry'))
  BY <1>8 DEF Return
<1>10. NoWait' /\ Pending' \in SUBSET Pending /\ Pending \in SUBSET Threads
  BY <1>1, <1>8 DEF NoWait, Pending, Working, Using
<1>11. g' + Debt(Pending') <= Capacity
  <2>1. Debt(Pending') <= Debt(Pending) /\ Debt(Pending') \in Nat /\ Debt(Pending) \in Nat
    BY <1>10, DebtFacts
  <2>2. g + Debt(Pending) <= Capacity
    BY DEF Ahead
  <2> HIDE DEF g
  <2> QED BY <1>2, <2>1, <2>2, CapacityType
<1>12. ASSUME NEW i \in DOMAIN entries'
       PROVE  g' + Debt(Owing(i)') <= Level(entries'[i].bucket, now)
  <2>1. i \in DOMAIN entries /\ entries'[i] = heap[i]
    BY <1>9 DEF Restrict
  <2>2. Owing(i)' \in SUBSET (Owing(i) \ {t})
    BY <1>1, <1>8, <1>9 DEF Owing, Working, Using
  <2>3. CASE i = e
    <3>1. entries'[i].bucket = TryConsume(b, now)
      BY <1>1, <2>1, <2>3 DEF Entry
    <3>2. Debt(Owing(i)') <= Debt(Owing(e) \ {t}) /\ Debt(Owing(i)') \in Nat
      <4>1. Owing(e) \ {t} \in SUBSET Threads
        BY <1>3
      <4> QED BY <2>2, <2>3, <4>1, DebtFacts
    <3>3. g + Debt(Owing(i)') <= Level(b, now) - OneToken
      <4> HIDE DEF g, b, e
      <4> QED BY <1>2, <1>4, <1>5, <1>6, <3>2, CapacityType
    <3> HIDE DEF g, b, e
    <3> QED BY <1>2, <1>5, <1>7, <3>1, <3>3
  <2>4. CASE i # e
    <3>1. entries'[i] = entries[i]
      BY <2>1, <2>4
    <3>2. /\ Debt(Owing(i)') <= Debt(Owing(i))
          /\ Debt(Owing(i)') \in Nat /\ Debt(Owing(i)) \in Nat
      <4>1. Owing(i)' \in SUBSET Owing(i) /\ Owing(i) \in SUBSET Threads
        BY <2>2 DEF Owing
      <4> QED BY <4>1, DebtFacts
    <3>3. g + Debt(Owing(i)) <= Level(entries[i].bucket, now)
      BY <2>1 DEF Ahead
    <3>4. Level(entries[i].bucket, now) \in Nat
      BY <1>1, <2>1, LevelFacts, CapacityType DEF EntriesInv, Heap, Entry
    <3> HIDE DEF g
    <3> QED BY <1>2, <3>1, <3>2, <3>3, <3>4
  <2> QED BY <2>3, <2>4
<1>13. Ahead'
  BY <1>1, <1>11, <1>12 DEF Ahead
<1> QED BY <1>10, <1>13

\* While nobody is inside a check, time refills all buckets alike.
LEMMA TickKeepsAhead ==
  ASSUME GlobalInv, EntriesInv, NoWait, Ahead, ~may_stall, Tick
  PROVE  NoWait' /\ Ahead'
<1> DEFINE g == Level(global_bucket, now)
<1>1. /\ now' = now + 1 /\ now \in Nat /\ global_bucket' = global_bucket
      /\ entries' = entries /\ pc' = pc /\ \A t \in Threads : pc[t] = "idle"
  BY DEF Tick, shared, EntriesInv
<1>2. Pending' = {} /\ \A e : Owing(e)' = {}
  BY <1>1 DEF Pending, Owing, Working, Using
<1>3. Debt({}) = 0
  BY FS_EmptySet, CapacityType DEF Debt
<1>4. /\ g \in 0..Capacity
      /\ Level(global_bucket, now + 1) = Lesser(g + RequestsPerSecond, Capacity)
  BY <1>1, LevelFacts DEF GlobalInv
<1>5. Level(global_bucket, now + 1) \in Nat /\ Level(global_bucket, now + 1) <= Capacity
  <2> HIDE DEF g
  <2> QED BY <1>4, CapacityType, BucketAssumption DEF Lesser
<1>6. ASSUME NEW e \in DOMAIN entries
      PROVE  Level(global_bucket, now + 1) <= Level(entries[e].bucket, now + 1)
  <2> DEFINE h == Level(entries[e].bucket, now)
  <2>1. /\ h \in 0..Capacity
        /\ Level(entries[e].bucket, now + 1) = Lesser(h + RequestsPerSecond, Capacity)
    BY <1>1, LevelFacts DEF EntriesInv, Heap, Entry
  <2>2. g <= h
    <3>1. Owing(e) \in SUBSET Threads
      BY DEF Owing
    <3>2. Debt(Owing(e)) \in Nat /\ g + Debt(Owing(e)) <= h
      BY <3>1, DebtFacts DEF Ahead
    <3> HIDE DEF g, h
    <3> QED BY <1>4, <2>1, <3>2, CapacityType
  <2> HIDE DEF g, h
  <2> QED BY <1>4, <2>1, <2>2, CapacityType, BucketAssumption DEF Lesser
<1>7. NoWait'
  BY <1>1 DEF NoWait
<1>8. Ahead'
  BY <1>1, <1>2, <1>3, <1>5, <1>6 DEF Ahead
<1> QED BY <1>7, <1>8

LEMMA PromptStep ==
  ASSUME GlobalInv, EntriesInv, Arcs, GlobalInv', Prompt, [Next]_vars
  PROVE  Prompt'
<1>1. may_stall' = may_stall
  BY DEF Next, vars, clock, CheckGlobal, GlobalWait, Cleanup, CountBefore, CountAfter,
     Visits, Visit, Evict, GetEntry, ReadClock, Touch, Consume, ClientWait, Tick
<1>2. SUFFICES ASSUME ~may_stall, NoWait, Ahead PROVE NoWait' /\ Ahead'
  BY <1>1 DEF Prompt
<1>3. CASE UNCHANGED vars
  <2>1. /\ now' = now /\ global_bucket' = global_bucket /\ pc' = pc /\ entries' = entries
        /\ client_buckets' = client_buckets /\ entry' = entry /\ client' = client
    BY <1>3 DEF vars, shared, locals, sweep, clock
  <2>2. Pending' = Pending /\ \A e : Owing(e)' = Owing(e)
    BY <2>1 DEF Pending, Owing
  <2> QED BY <1>2, <2>1, <2>2 DEF NoWait, Ahead
<1>4. CASE Tick
  BY <1>2, <1>4, TickKeepsAhead
<1>5. ASSUME NEW t \in Threads, NEW ip, CheckGlobal(t, ip) PROVE NoWait' /\ Ahead'
  BY <1>2, <1>5, CheckGlobalKeepsAhead
<1>6. ASSUME NEW t \in Threads,
             \/ GlobalWait(t) \/ Cleanup(t) \/ CountBefore(t) \/ CountAfter(t) \/ Visits(t)
             \/ ReadClock(t) \/ Touch(t)
      PROVE  NoWait' /\ Ahead'
  BY <1>2, <1>6, QuietStepsKeepAhead
<1>7. ASSUME NEW t \in Threads, Evict(t) PROVE NoWait' /\ Ahead'
  BY <1>2, <1>7, EvictKeepsAhead
<1>8. ASSUME NEW t \in Threads, GetEntry(t) PROVE NoWait' /\ Ahead'
  BY <1>2, <1>8, GetEntryKeepsAhead
<1>9. ASSUME NEW t \in Threads, Consume(t) PROVE NoWait' /\ Ahead'
  BY <1>2, <1>9, ConsumeKeepsAhead
<1>10. ASSUME NEW t \in Threads, ClientWait(t) PROVE FALSE
  BY <1>2, <1>10 DEF NoWait, ClientWait, Goto
<1> QED BY <1>3, <1>4, <1>5, <1>6, <1>7, <1>8, <1>9, <1>10 DEF Next, Visits

\* For any number of threads and clients, any rate and any burst: while checks take
\* no time, whoever passes the global bucket passes the bucket of its client (both
\* try_consume calls of check), evictions and re-created entries included.
THEOREM ClientLimitIdle == Spec => []PerClientNeverBinds
<1>1. Prompt => PerClientNeverBinds
  BY DEF Prompt, NoWait, PerClientNeverBinds
<1>2. GlobalInv /\ EntriesInv /\ Arcs /\ GlobalInv' /\ Prompt /\ [Next]_vars => Prompt'
  BY PromptStep
<1> QED BY <1>1, <1>2, PromptInit, GlobalInvInit, GlobalInvStep, EntriesInit, EntriesStep,
           TypesInit, TypesStep, PTL DEF Spec

-------------------------------------------------------------------------------
\* Why a bucket that is found expired is full while checks take no time: its last
\* refill is not later than its last access, which is more than the TTL ago.

Accessed ==
  /\ \A e \in DOMAIN entries : entries[e].bucket.last_update <= entries[e].last_access
  /\ \A t \in Threads :
       /\ pc[t] = "touch" => stamp[t] = now
       /\ pc[t] = "consume" => entries[entry[t]].last_access = now

Recent == ~may_stall => Accessed

LEMMA RecentStep ==
  ASSUME EntriesInv, Arcs, Times, Recent, [Next]_vars
  PROVE  Recent'
<1>1. may_stall' = may_stall
  BY DEF Next, vars, clock, CheckGlobal, GlobalWait, Cleanup, CountBefore, CountAfter,
     Visits, Visit, Evict, GetEntry, ReadClock, Touch, Consume, ClientWait, Tick
<1>2. SUFFICES ASSUME ~may_stall, Accessed PROVE Accessed'
  BY <1>1 DEF Recent
<1>3. /\ now \in Nat /\ DOMAIN pc = Threads /\ DOMAIN entry = Threads
      /\ DOMAIN stamp = Threads /\ DOMAIN client_buckets = Clients
  BY DEF EntriesInv, Locals, Times
<1>4. CASE UNCHANGED vars
  BY <1>2, <1>4 DEF vars, shared, locals, sweep, clock, Accessed
<1>5. CASE Tick
  BY <1>2, <1>5 DEF Tick, shared, locals, sweep, Accessed
<1>6. ASSUME NEW t \in Threads,
             \/ \E ip \in ClientIps : CheckGlobal(t, ip)
             \/ GlobalWait(t) \/ Cleanup(t) \/ CountBefore(t) \/ CountAfter(t) \/ Visits(t)
             \/ ReadClock(t)
      PROVE  Accessed'
  <2>1. entries' = entries /\ entry' = entry /\ now' = now
    BY <1>6 DEF CheckGlobal, GlobalWait, Cleanup, CountBefore, CountAfter, Visits,
       Visit, ReadClock, shared, locals, sweep, clock
  <2>2. \/ pc' = [pc EXCEPT ![t] = "touch"] /\ stamp' = [stamp EXCEPT ![t] = now]
        \/ \E to : /\ to \notin {"touch", "consume"} /\ pc' = [pc EXCEPT ![t] = to]
                   /\ stamp' = stamp
    BY <1>6 DEF CheckGlobal, GlobalWait, Cleanup, CountBefore, CountAfter, Visits,
       Visit, ReadClock, locals, sweep, Goto
  <2> QED BY <1>2, <1>3, <2>1, <2>2 DEF Accessed
<1>7. ASSUME NEW t \in Threads, GetEntry(t) PROVE Accessed'
  <2>1. PICK e \in EntryIds :
          /\ entry' = [entry EXCEPT ![t] = e]
          /\ \/ UNCHANGED entries
             \/ /\ e \notin DOMAIN entries
                /\ entries' = [i \in DOMAIN entries \cup {e} |->
                     IF i = e
                       THEN [bucket |-> NewBucket(now), last_access |-> now]
                       ELSE entries[i]]
    BY <1>7, GetEntryIs
  <2>2. now' = now /\ stamp' = stamp /\ pc' = [pc EXCEPT ![t] = "stamp"]
    BY <1>7, GetEntryIs DEF clock
  <2>3. ASSUME NEW i \in DOMAIN entries
        PROVE  i \in DOMAIN entries' /\ entries'[i] = entries[i]
    BY <2>1
  <2>4. \A i \in DOMAIN entries' : entries'[i].bucket.last_update <= entries'[i].last_access
    BY <1>2, <1>3, <2>1 DEF Accessed, NewBucket
  <2>5. ASSUME NEW u \in Threads
        PROVE  /\ pc'[u] = "touch" => stamp'[u] = now
               /\ pc'[u] = "consume" => entries'[entry'[u]].last_access = now
    <3>1. CASE u = t
      BY <1>3, <2>2, <3>1
    <3>2. CASE u # t
      <4>1. pc[u] = "consume" => entry[u] \in DOMAIN entries
        BY DEF EntriesInv, References, Holding
      <4> QED BY <1>2, <1>3, <2>1, <2>2, <2>3, <3>2, <4>1 DEF Accessed
    <3> QED BY <3>1, <3>2
  <2> QED BY <2>2, <2>4, <2>5 DEF Accessed
<1>8. ASSUME NEW heap, NEW S, entries' = Restrict(heap, DOMAIN heap \cap S), now' = now,
             DOMAIN heap = DOMAIN entries, stamp' = stamp,
             \A e \in DOMAIN heap : heap[e].last_access = entries[e].last_access,
             \A e \in DOMAIN heap : heap[e].bucket.last_update <= heap[e].last_access,
             \A u \in Threads : pc'[u] \in {"touch", "consume"} =>
               pc[u] = pc'[u] /\ entry'[u] = entry[u],
             References'
      PROVE  Accessed'
  <2>1. \A e \in DOMAIN entries' : e \in DOMAIN heap /\ entries'[e] = heap[e]
    BY <1>8 DEF Restrict
  <2>2. \A u \in Threads : pc'[u] = "consume" => entry'[u] \in DOMAIN entries'
    BY <1>8 DEF References, Holding
  <2>3. \A e \in DOMAIN entries' : entries'[e].bucket.last_update <= entries'[e].last_access
    BY <1>8, <2>1
  <2>4. ASSUME NEW u \in Threads, pc'[u] = "touch" PROVE stamp'[u] = now'
    BY <1>2, <1>8, <2>4 DEF Accessed
  <2>5. ASSUME NEW u \in Threads, pc'[u] = "consume"
        PROVE  entries'[entry'[u]].last_access = now'
    <3>1. pc[u] = "consume" /\ entry'[u] = entry[u] /\ entry[u] \in DOMAIN entries'
      BY <1>8, <2>2, <2>5
    <3>2. entries'[entry[u]].last_access = entries[entry[u]].last_access
      BY <1>8, <2>1, <3>1
    <3> QED BY <1>2, <1>8, <3>1, <3>2 DEF Accessed
  <2> QED BY <2>3, <2>4, <2>5 DEF Accessed
<1>9. ASSUME NEW t \in Threads, Evict(t) PROVE Accessed'
  <2>1. References'
    BY <1>9, EvictKeepsEntries DEF EntriesInv
  <2>2. /\ entries' = Restrict(entries, DOMAIN entries \cap Live(client_buckets', entry))
        /\ now' = now /\ stamp' = stamp /\ entry' = entry
        /\ pc' = [pc EXCEPT ![t] = "retain"]
    BY <1>9 DEF Evict, Goto, clock
  <2>3. \A u \in Threads : pc'[u] \in {"touch", "consume"} =>
          pc[u] = pc'[u] /\ entry'[u] = entry[u]
    BY <1>3, <2>2
  <2> QED BY <1>2, <1>8, <2>1, <2>2, <2>3 DEF Accessed
<1>10. ASSUME NEW t \in Threads, Touch(t) PROVE Accessed'
  <2>1. /\ pc[t] = "touch" /\ pc' = [pc EXCEPT ![t] = "consume"] /\ now' = now
        /\ entries' = [entries EXCEPT ![entry[t]].last_access = stamp[t]]
        /\ stamp' = [stamp EXCEPT ![t] = 0] /\ entry' = entry
        /\ entry[t] \in DOMAIN entries /\ Entry(entries[entry[t]]) /\ stamp[t] = now
    BY <1>2, <1>10 DEF Touch, Goto, clock, EntriesInv, References, Heap, Holding, Accessed
  <2>2. /\ DOMAIN entries' = DOMAIN entries
        /\ \A e \in DOMAIN entries :
             /\ entries'[e].bucket = entries[e].bucket
             /\ entries'[e].last_access = IF e = entry[t] THEN now ELSE entries[e].last_access
    BY <2>1 DEF Entry
  <2>3. \A e \in DOMAIN entries' : entries'[e].bucket.last_update <= entries'[e].last_access
    BY <1>2, <2>1, <2>2 DEF Accessed, Entry
  <2>4. \A u \in Threads : pc[u] = "consume" => entry[u] \in DOMAIN entries
    BY DEF EntriesInv, References, Holding
  <2> QED BY <1>2, <1>3, <2>1, <2>2, <2>3, <2>4 DEF Accessed
<1>11. ASSUME NEW t \in Threads, NEW heap, Return(t, heap), DOMAIN heap = DOMAIN entries,
              now' = now, stamp' = stamp, pc' = [pc EXCEPT ![t] = "idle"], References',
              \A e \in DOMAIN heap : heap[e].last_access = entries[e].last_access,
              \A e \in DOMAIN heap : heap[e].bucket.last_update <= heap[e].last_access
       PROVE  Accessed'
  <2>1. /\ entries' = Restrict(heap, DOMAIN heap \cap Live(client_buckets, entry'))
        /\ entry' = [entry EXCEPT ![t] = NoEntry]
    BY <1>11 DEF Return
  <2>2. \A u \in Threads : pc'[u] \in {"touch", "consume"} =>
          pc[u] = pc'[u] /\ entry'[u] = entry[u]
    BY <1>3, <1>11, <2>1
  <2> QED BY <1>8, <1>11, <2>1, <2>2
<1>12. ASSUME NEW t \in Threads, Consume(t) PROVE Accessed'
  <2> DEFINE b == entries[entry[t]].bucket
             heap == [entries EXCEPT ![entry[t]].bucket = TryConsume(b, now)]
  <2>1. /\ entry[t] \in DOMAIN entries /\ Entry(entries[entry[t]])
        /\ entries[entry[t]].last_access = now /\ now' = now /\ stamp' = stamp
    BY <1>2, <1>12 DEF Consume, Goto, clock, EntriesInv, References, Heap, Holding, Accessed
  <2>2. TryConsume(b, now).last_update = now
    BY <1>3, <2>1, ConsumeBounds DEF Entry
  <2>3. /\ DOMAIN heap = DOMAIN entries
        /\ \A e \in DOMAIN heap : heap[e].last_access = entries[e].last_access
        /\ \A e \in DOMAIN heap : heap[e].bucket.last_update <= heap[e].last_access
    BY <1>2, <1>3, <2>1, <2>2 DEF Accessed, Entry
  <2>4. References'
    BY <1>12, EntryUseKeepsEntries DEF EntriesInv
  <2>5. CASE Return(t, heap) /\ pc' = [pc EXCEPT ![t] = "idle"]
    <3> HIDE DEF heap
    <3> QED BY <1>11, <2>1, <2>3, <2>4, <2>5
  <2>6. CASE /\ entries' = heap /\ entry' = entry
             /\ pc' = [pc EXCEPT ![t] = "client_wait"]
    <3> HIDE DEF heap
    <3>1. \A u \in Threads : pc[u] = "consume" => entry[u] \in DOMAIN entries
      BY DEF EntriesInv, References, Holding
    <3> QED BY <1>2, <1>3, <2>1, <2>3, <2>6, <3>1 DEF Accessed
  <2> QED BY <1>12, <2>5, <2>6 DEF Consume, Goto
<1>13. ASSUME NEW t \in Threads, ClientWait(t) PROVE Accessed'
  <2>1. References'
    BY <1>13, EntryUseKeepsEntries DEF EntriesInv
  <2>2. /\ Return(t, entries) /\ now' = now /\ stamp' = stamp
        /\ pc' = [pc EXCEPT ![t] = "idle"]
    BY <1>13 DEF ClientWait, Goto, clock
  <2> QED BY <1>2, <1>11, <2>1, <2>2 DEF Accessed
<1> QED BY <1>4, <1>5, <1>6, <1>7, <1>9, <1>10, <1>12, <1>13 DEF Next, Visits
\* An entry that was last accessed more than a TTL ago has filled up since, when
\* the TTL is no shorter than the time that an empty bucket needs.
LEMMA ExpiredIsFull ==
  ASSUME EntriesInv, Times, Accessed, ClientTtl * RequestsPerSecond >= Capacity,
         NEW e \in DOMAIN entries, Expired(e)
  PROVE  Level(entries[e].bucket, now) = Capacity
<1> DEFINE b == entries[e].bucket
<1>1. /\ Entry(entries[e]) /\ now \in Nat /\ entries[e].last_access \in 0..now
      /\ b.last_update <= entries[e].last_access
  BY DEF EntriesInv, Heap, Times, Accessed
<1>2. b.last_update \in Nat /\ b.tokens \in Nat /\ b.last_update <= now
      /\ now - b.last_update > ClientTtl
  <2>1. now - entries[e].last_access > ClientTtl
    BY DEF Expired
  <2>2. b.last_update \in Nat /\ b.tokens \in Nat
    BY <1>1, CapacityType DEF Entry, Bucket
  <2> HIDE DEF b
  <2> QED BY <1>1, <2>1, <2>2, LimiterAssumption
<1> HIDE DEF b
<1>3. (now - b.last_update) * RequestsPerSecond >= Capacity
      /\ (now - b.last_update) * RequestsPerSecond \in Nat
  <2>1. PICK k \in Nat : now - b.last_update = ClientTtl + k
    <3>1. (now - b.last_update) - ClientTtl \in Nat
      BY <1>1, <1>2, LimiterAssumption
    <3> QED BY <1>1, <1>2, <3>1, LimiterAssumption
  <2>2. (ClientTtl + k) * RequestsPerSecond
          = ClientTtl * RequestsPerSecond + k * RequestsPerSecond
    BY Distribute, BucketAssumption, LimiterAssumption
  <2>3. k * RequestsPerSecond \in Nat /\ ClientTtl * RequestsPerSecond \in Nat
    BY ProductNat, BucketAssumption, LimiterAssumption
  <2> QED BY <2>1, <2>2, <2>3, CapacityType
<1>4. Level(b, now) = Capacity
  BY <1>2, <1>3, RefillTokens, CapacityType DEF Level, Lesser
<1> QED BY <1>4 DEF b

-------------------------------------------------------------------------------
\* What a condemned entry can still lose: it was full when it was condemned, nobody
\* takes it in hand any more, and each of those that have it charges it one token.

Charged(e) == Capacity - Level(entries[e].bucket, now)

Mild(e) ==
  /\ Charged(e) = 0 \/ entries[e].last_access = now
  /\ Charged(e) + Debt(Holders(e)) <= OneToken * (Cardinality(Threads) - 1)

AllMild == \A e \in Condemned : Mild(e)

Forgiving == ~may_stall => AllMild

LEMMA HoldersDebt ==
  ASSUME NEW e
  PROVE  Holders(e) \in SUBSET Threads /\ Debt(Holders(e)) \in Nat
BY DebtFacts DEF Holders

LEMMA ChargedType ==
  ASSUME EntriesInv, NEW e \in DOMAIN entries
  PROVE  Charged(e) \in Nat
<1>1. Level(entries[e].bucket, now) \in 0..Capacity
  BY LevelFacts DEF EntriesInv, Heap, Entry
<1> QED BY <1>1, CapacityType DEF Charged

\* An entry stays mild while its bucket does, unless someone new takes it in hand.
LEMMA MildFrame ==
  ASSUME EntriesInv, NEW e \in DOMAIN entries, Mild(e), now' = now,
         entries'[e].bucket = entries[e].bucket,
         entries'[e].last_access \in {entries[e].last_access, now},
         Holders(e)' \in SUBSET Holders(e)
  PROVE  Mild(e)'
<1>1. Charged(e)' = Charged(e) /\ Charged(e) \in Nat
  BY ChargedType DEF Charged, Level
<1>2. /\ Debt(Holders(e)') <= Debt(Holders(e))
      /\ Debt(Holders(e)') \in Nat /\ Debt(Holders(e)) \in Nat
  BY HoldersDebt, DebtFacts
<1>3. OneToken * (Cardinality(Threads) - 1) \in Int
  BY LimiterAssumption, FS_CardinalityType, CapacityType
<1>4. Charged(e) + Debt(Holders(e)) <= OneToken * (Cardinality(Threads) - 1)
  BY DEF Mild
<1>5. Charged(e) + Debt(Holders(e)') <= OneToken * (Cardinality(Threads) - 1)
  BY <1>1, <1>2, <1>3, <1>4
<1>6. Charged(e) = 0 \/ entries'[e].last_access = now
  BY DEF Mild
<1> QED BY <1>1, <1>5, <1>6 DEF Mild, Debt

LEMMA VisitKeepsMild ==
  ASSUME EntriesInv, Arcs, Times, Doom, Accessed, AllMild,
         ClientTtl * RequestsPerSecond >= Capacity,
         NEW t \in Threads, NEW c \in Clients, Visit(t, c)
  PROVE  AllMild'
<1>1. /\ pc[t] = "retain" /\ now' = now /\ entries' = entries /\ entry' = entry
      /\ client_buckets' = client_buckets /\ DOMAIN doomed = Threads
      /\ doomed' = [doomed EXCEPT ![t] =
           IF client_buckets[c] # NoEntry /\ Expired(client_buckets[c]) THEN c
           ELSE doomed[t]]
  BY DEF Visit, Goto, clock, shared, Doom
<1>2. SUFFICES ASSUME NEW e \in Condemned' PROVE Mild(e)'
  BY DEF AllMild
<1>3. e \in DOMAIN entries /\ Holders(e)' = Holders(e)
  BY <1>1 DEF Condemned, Holders
<1>4. CASE e \in Condemned
  BY <1>1, <1>3, <1>4, MildFrame DEF AllMild
<1>5. CASE e = client_buckets[c] /\ Expired(e)
  <2>1. Charged(e) = 0 /\ Charged(e)' = Charged(e)
    BY <1>1, <1>3, <1>5, ExpiredIsFull, CapacityType DEF Charged, Level
  <2>2. Holders(e) \in SUBSET (Threads \ {t})
    BY <1>1, <1>3 DEF Arcs, Holding, Holders
  <2>3. Debt(Threads \ {t}) = OneToken * (Cardinality(Threads) - 1)
    <3>1. Cardinality(Threads \ {t}) = Cardinality(Threads) - 1
      BY LimiterAssumption, FS_RemoveElement, FS_CardinalityType
    <3> QED BY <3>1 DEF Debt
  <2>4. Debt(Holders(e)) <= Debt(Threads \ {t}) /\ Debt(Holders(e)) \in Nat
    BY <2>2, DebtFacts
  <2>5. Charged(e)' + Debt(Holders(e)') <= OneToken * (Cardinality(Threads) - 1)
    BY <1>3, <2>1, <2>3, <2>4
  <2> QED BY <2>1, <2>5 DEF Mild, Debt
<1>6. e \in Condemned \/ (e = client_buckets[c] /\ Expired(e))
  BY <1>1, <1>2 DEF Condemned
<1> QED BY <1>4, <1>5, <1>6

LEMMA EvictKeepsMild ==
  ASSUME EntriesInv, Arcs, Doom, AllMild, NEW t \in Threads, Evict(t)
  PROVE  AllMild'
<1>1. /\ now' = now /\ entry' = entry /\ doomed[t] \in Clients /\ doomed[t] # NoClient
      /\ doomed' = [doomed EXCEPT ![t] = NoClient] /\ DOMAIN client_buckets = Clients
      /\ client_buckets' = [client_buckets EXCEPT ![doomed[t]] = NoEntry]
      /\ entries' = Restrict(entries, DOMAIN entries \cap Live(client_buckets', entry))
      /\ doomed \in [Threads -> Clients \cup {NoClient}]
  BY DEF Evict, clock, EntriesInv, Locals, Doom
<1>2. SUFFICES ASSUME NEW e \in Condemned' PROVE Mild(e)'
  BY DEF AllMild
<1>3. e \in DOMAIN entries /\ entries'[e] = entries[e] /\ Holders(e)' = Holders(e)
  BY <1>1 DEF Condemned, Holders, Restrict
<1>4. e # NoEntry
  BY <1>3 DEF Arcs
<1>5. e \in Condemned
  BY <1>1, <1>2, <1>3, <1>4 DEF Condemned
<1> QED BY <1>1, <1>3, <1>5, MildFrame DEF AllMild

LEMMA GetEntryKeepsMild ==
  ASSUME EntriesInv, Arcs, Doom, AllMild, NEW t \in Threads, GetEntry(t)
  PROVE  AllMild'
<1>1. /\ now' = now /\ doomed' = doomed /\ client[t] \in Clients
      /\ DOMAIN client_buckets = Clients /\ DOMAIN entry = Threads
      /\ \A u \in Threads : doomed[u] # client[t]
  BY GetEntryIs DEF clock, sweep, EntriesInv, Locals, GetEntry, Locked
<1>2. PICK i \in EntryIds :
        /\ entry' = [entry EXCEPT ![t] = i]
        /\ \/ /\ i = client_buckets[client[t]] /\ i \in DOMAIN entries
              /\ UNCHANGED <<client_buckets, entries>>
           \/ /\ client_buckets[client[t]] = NoEntry /\ i \notin DOMAIN entries
              /\ client_buckets' = [client_buckets EXCEPT ![client[t]] = i]
              /\ entries' = [j \in DOMAIN entries \cup {i} |->
                   IF j = i
                     THEN [bucket |-> NewBucket(now), last_access |-> now]
                     ELSE entries[j]]
  BY GetEntryIs
<1>3. client_buckets'[client[t]] = i
  BY <1>1, <1>2
<1>4. \A u \in Threads : doomed[u] # NoClient => client_buckets'[doomed[u]] # i
  <2> SUFFICES ASSUME NEW u \in Threads, doomed[u] # NoClient
               PROVE  client_buckets'[doomed[u]] # i
    OBVIOUS
  <2>1. doomed[u] \in Clients /\ doomed[u] # client[t] /\ client_buckets[doomed[u]] # NoEntry
    BY <1>1 DEF Doom
  <2>2. client_buckets[doomed[u]] \in DOMAIN entries
    BY <2>1 DEF EntriesInv, References
  <2>3. client_buckets[client[t]] # NoEntry
          => client_buckets[doomed[u]] # client_buckets[client[t]]
    BY <1>1, <2>1 DEF Doom
  <2>4. NoEntry \notin DOMAIN entries
    BY DEF Arcs
  <2> QED BY <1>1, <1>2, <2>1, <2>2, <2>3, <2>4
<1>5. SUFFICES ASSUME NEW e \in Condemned' PROVE Mild(e)'
  BY DEF AllMild
<1>6. e # i
  BY <1>1, <1>3, <1>4, <1>5 DEF Condemned
<1>7. e \in DOMAIN entries /\ entries'[e] = entries[e] /\ e # NoEntry
  BY <1>2, <1>5, <1>6 DEF Condemned, Arcs
<1>8. \A c \in Clients : client_buckets'[c] = e <=> client_buckets[c] = e
  BY <1>1, <1>2, <1>6, <1>7
<1>9. e \in Condemned
  BY <1>1, <1>5, <1>7, <1>8 DEF Condemned, Doom
<1>10. Holders(e)' \in SUBSET Holders(e)
  BY <1>1, <1>2, <1>6 DEF Holders
<1> QED BY <1>1, <1>7, <1>9, <1>10, MildFrame DEF AllMild

LEMMA TouchKeepsMild ==
  ASSUME EntriesInv, Accessed, AllMild, NEW t \in Threads, Touch(t)
  PROVE  AllMild'
<1>1. /\ now' = now /\ entry' = entry /\ doomed' = doomed
      /\ client_buckets' = client_buckets /\ stamp[t] = now
      /\ entries' = [entries EXCEPT ![entry[t]].last_access = stamp[t]]
      /\ entry[t] \in DOMAIN entries /\ Entry(entries[entry[t]])
  BY DEF Touch, Goto, clock, sweep, EntriesInv, References, Heap, Holding, Accessed
<1>2. /\ DOMAIN entries' = DOMAIN entries
      /\ \A e \in DOMAIN entries :
           /\ entries'[e].bucket = entries[e].bucket
           /\ entries'[e].last_access \in {entries[e].last_access, now}
  BY <1>1 DEF Entry
<1>3. SUFFICES ASSUME NEW e \in Condemned' PROVE Mild(e)'
  BY DEF AllMild
<1>4. e \in Condemned /\ e \in DOMAIN entries /\ Holders(e)' = Holders(e)
  BY <1>1, <1>2, <1>3 DEF Condemned, Holders
<1> QED BY <1>1, <1>2, <1>4, MildFrame DEF AllMild

LEMMA ConsumeKeepsMild ==
  ASSUME EntriesInv, Accessed, AllMild, NEW t \in Threads, Consume(t), Arcs
  PROVE  AllMild'
<1> DEFINE i == entry[t]
           b == entries[i].bucket
           heap == [entries EXCEPT ![i].bucket = TryConsume(b, now)]
<1>1. /\ now' = now /\ now \in Nat /\ doomed' = doomed /\ client_buckets' = client_buckets
      /\ i \in DOMAIN entries /\ Entry(entries[i]) /\ entries[i].last_access = now
      /\ DOMAIN entry = Threads
  BY DEF Consume, Goto, clock, sweep, EntriesInv, References, Locals, Heap, Holding, Accessed
<1>2. /\ DOMAIN heap = DOMAIN entries
      /\ heap[i].bucket = TryConsume(b, now) /\ heap[i].last_access = now
      /\ \A e \in DOMAIN entries : e # i => heap[e] = entries[e]
  BY <1>1 DEF Entry
<1>3. \/ /\ CanConsume(b, now) /\ entry' = [entry EXCEPT ![t] = NoEntry]
         /\ entries' = Restrict(heap, DOMAIN heap \cap Live(client_buckets, entry'))
      \/ ~CanConsume(b, now) /\ entry' = entry /\ entries' = heap
  BY DEF Consume, Return
<1>4. /\ Level(b, now) \in Nat
      /\ CanConsume(b, now) => Level(TryConsume(b, now), now) = Level(b, now) - OneToken
      /\ ~CanConsume(b, now) => Level(TryConsume(b, now), now) = Level(b, now)
  BY <1>1, LevelFacts, CapacityType DEF Entry
<1> HIDE DEF heap
<1>5. SUFFICES ASSUME NEW e \in Condemned' PROVE Mild(e)'
  BY DEF AllMild
<1>6. e \in DOMAIN entries /\ entries'[e] = heap[e] /\ e # NoEntry
  BY <1>2, <1>3, <1>5 DEF Condemned, Restrict, Arcs
<1>7. e \in Condemned /\ Mild(e)
  BY <1>1, <1>5, <1>6 DEF Condemned, AllMild
<1>8. CASE e # i
  <2>1. Holders(e)' \in SUBSET Holders(e)
    BY <1>1, <1>3, <1>6 DEF Holders
  <2> QED BY <1>1, <1>2, <1>6, <1>7, <1>8, <2>1, MildFrame
<1>9. CASE e = i
  <2>1. Charged(e) \in Nat /\ Charged(e) = Capacity - Level(b, now)
    BY <1>6, <1>9, ChargedType DEF Charged
  <2>2. Charged(e)' = Capacity - Level(TryConsume(b, now), now)
    BY <1>1, <1>2, <1>6, <1>9 DEF Charged, Level
  <2>3. Charged(e)' + Debt(Holders(e)') <= Charged(e) + Debt(Holders(e))
    <3>1. CASE CanConsume(b, now)
      <4>1. t \in Holders(e) /\ Holders(e)' = Holders(e) \ {t}
        BY <1>1, <1>3, <1>6, <1>9, <3>1 DEF Holders
      <4>2. /\ Debt(Holders(e)') + OneToken = Debt(Holders(e))
            /\ Debt(Holders(e)) \in Nat /\ Debt(Holders(e)') \in Nat
        BY <4>1, HoldersDebt, DebtFacts
      <4> HIDE DEF b, i
      <4> QED BY <1>4, <2>1, <2>2, <3>1, <4>2, CapacityType
    <3>2. CASE ~CanConsume(b, now)
      <4>1. Holders(e)' = Holders(e) /\ Debt(Holders(e)) \in Nat
        BY <1>3, <3>2, HoldersDebt DEF Holders
      <4> HIDE DEF b, i
      <4> QED BY <1>4, <2>1, <2>2, <3>2, <4>1
    <3> QED BY <3>1, <3>2
  <2>4. Charged(e) + Debt(Holders(e)) <= OneToken * (Cardinality(Threads) - 1)
    BY <1>7 DEF Mild
  <2>5. /\ Charged(e)' \in Int /\ Debt(Holders(e)') \in Nat /\ Debt(Holders(e)) \in Nat
        /\ OneToken * (Cardinality(Threads) - 1) \in Int
    <3>1. Level(TryConsume(b, now), now) \in Int
      <4> HIDE DEF b
      <4> QED BY <1>4, CapacityType
    <3>2. Charged(e)' \in Int
      BY <2>2, <3>1, CapacityType
    <3>3. Holders(e)' \in SUBSET Threads
      BY DEF Holders
    <3> QED BY <3>2, <3>3, HoldersDebt, DebtFacts, LimiterAssumption, FS_CardinalityType,
               CapacityType
  <2>6. Charged(e)' + Debt(Holders(e)') <= OneToken * (Cardinality(Threads) - 1)
    BY <2>1, <2>3, <2>4, <2>5
  <2>7. entries'[e].last_access = now'
    BY <1>1, <1>2, <1>6, <1>9
  <2> QED BY <2>6, <2>7 DEF Mild, Debt
<1> QED BY <1>8, <1>9

LEMMA ClientWaitKeepsMild ==
  ASSUME EntriesInv, Arcs, AllMild, NEW t \in Threads, ClientWait(t)
  PROVE  AllMild'
<1>1. /\ now' = now /\ doomed' = doomed /\ client_buckets' = client_buckets
      /\ entry' = [entry EXCEPT ![t] = NoEntry] /\ DOMAIN entry = Threads
      /\ entries' = Restrict(entries, DOMAIN entries \cap Live(client_buckets, entry'))
  BY DEF ClientWait, Return, clock, sweep, EntriesInv, Locals
<1>2. SUFFICES ASSUME NEW e \in Condemned' PROVE Mild(e)'
  BY DEF AllMild
<1>3. e \in DOMAIN entries /\ entries'[e] = entries[e] /\ e # NoEntry
  BY <1>1, <1>2 DEF Condemned, Restrict, Arcs
<1>4. e \in Condemned /\ Holders(e)' \in SUBSET Holders(e)
  BY <1>1, <1>2, <1>3 DEF Condemned, Holders
<1> QED BY <1>1, <1>3, <1>4, MildFrame DEF AllMild

\* Time passes only while no thread is inside a check, and then nothing is condemned.
LEMMA TickKeepsMild ==
  ASSUME EntriesInv, Arcs, Doom, ~may_stall, Tick
  PROVE  AllMild'
<1>1. /\ \A t \in Threads : pc[t] = "idle"
      /\ entries' = entries /\ doomed' = doomed /\ client_buckets' = client_buckets
  BY DEF Tick, shared, locals, sweep
<1>2. \A t \in Threads : entry[t] = NoEntry /\ doomed[t] = NoClient
  BY <1>1 DEF Arcs, Holding, Doom
<1>3. \A e \in DOMAIN entries : \E c \in Clients : client_buckets[c] = e
  BY <1>2 DEF Arcs, Live
<1>4. Condemned' = {}
  BY <1>1, <1>2, <1>3 DEF Condemned
<1> QED BY <1>4 DEF AllMild

LEMMA ForgivingStep ==
  ASSUME EntriesInv, Arcs, Times, Doom, Recent, Forgiving,
         ClientTtl * RequestsPerSecond >= Capacity, [Next]_vars
  PROVE  Forgiving'
<1>1. may_stall' = may_stall
  BY DEF Next, vars, clock, CheckGlobal, GlobalWait, Cleanup, CountBefore, CountAfter,
     Visit, Evict, GetEntry, ReadClock, Touch, Consume, ClientWait, Tick
<1>2. SUFFICES ASSUME ~may_stall, AllMild, Accessed PROVE AllMild'
  BY <1>1 DEF Recent, Forgiving
<1>3. ASSUME UNCHANGED <<now, entries, entry, doomed, client_buckets>> PROVE AllMild'
  <2>1. SUFFICES ASSUME NEW e \in Condemned' PROVE Mild(e)'
    BY DEF AllMild
  <2>2. e \in Condemned /\ e \in DOMAIN entries /\ Holders(e)' = Holders(e)
    BY <1>3, <2>1 DEF Condemned, Holders
  <2> QED BY <1>2, <1>3, <2>2, MildFrame DEF AllMild
<1>4. CASE UNCHANGED vars
  BY <1>3, <1>4 DEF vars, shared, locals, sweep, clock
<1>5. ASSUME NEW t \in Threads,
             \/ \E ip \in ClientIps : CheckGlobal(t, ip)
             \/ GlobalWait(t) \/ Cleanup(t) \/ CountBefore(t) \/ CountAfter(t)
             \/ ReadClock(t)
      PROVE  AllMild'
  <2>1. UNCHANGED <<now, entries, entry, doomed, client_buckets>>
    BY <1>5 DEF CheckGlobal, GlobalWait, Cleanup, CountBefore, CountAfter, ReadClock,
       shared, locals, sweep, clock
  <2> QED BY <1>3, <2>1
<1> QED BY <1>2, <1>4, <1>5, VisitKeepsMild, EvictKeepsMild, GetEntryKeepsMild,
           TouchKeepsMild, ConsumeKeepsMild, ClientWaitKeepsMild, TickKeepsMild DEF Next

\* With a TTL no shorter than the time that an empty bucket needs to fill up, the
\* eviction of maybe_cleanup forgives a client no more than the checks charge that had
\* its entry in hand when retain found it expired: at most one token for each thread
\* but the evicting one, while checks take no time (lines 172-174, 305-307 and 336).
THEOREM OnlyRacesAreForgiven ==
  ClientTtl * RequestsPerSecond >= Capacity => (Spec => []ForgivesOnlyRacingChecks)
<1> SUFFICES ASSUME ClientTtl * RequestsPerSecond >= Capacity
             PROVE  Spec => []ForgivesOnlyRacingChecks
  OBVIOUS
<1>1. Init => Recent /\ Forgiving
  BY DEF Init, Recent, Accessed, Forgiving, AllMild, Condemned
<1>2. EntriesInv /\ Arcs /\ Times /\ Recent /\ [Next]_vars => Recent'
  BY RecentStep
<1>3. EntriesInv /\ Arcs /\ Times /\ Doom /\ Recent /\ Forgiving /\ [Next]_vars => Forgiving'
  BY ForgivingStep
<1>4. Forgiving => ForgivesOnlyRacingChecks
  BY DEF Forgiving, AllMild, Mild, Charged, Debt, Level, ForgivesOnlyRacingChecks
<1> QED BY <1>1, <1>2, <1>3, <1>4, EntriesInit, EntriesStep, TypesInit, TypesStep, DoomInit,
           DoomStep, PTL DEF Spec
===============================================================================
