------------------------------ MODULE RateLimiter ------------------------------
(***************************************************************************)
(* The rate limiter of src/ratelimit.rs: threads that call check on one    *)
(* global bucket and one bucket per client, while any of them may find     *)
(* that it is time to evict the clients that have not been seen for a      *)
(* while.  A step is what a thread does under one lock.                    *)
(***************************************************************************)
EXTENDS TokenBucket, FiniteSets, Functions, Sequences

CONSTANTS
  Threads, Clients, NoClient,
  EntryIds,         \* identities of the Arc<ClientEntry> allocations
  NoEntry,
  PerClient,        \* config.per_client
  TrustForwardedFor,  \* config.trust_forwarded_for
  ClientTtl,        \* config.client_ttl, in ticks
  CleanupInterval,  \* the 60 seconds of maybe_cleanup, in ticks
  MaxTime,          \* bound: the clock of a run stops here,
  MaxStallTime,     \*        and here if time may pass inside a check
  MayStall          \* the runs to consider: may time pass inside a check?

ASSUME LimiterAssumption ==
  /\ NoClient \notin Clients
  /\ NoEntry \notin EntryIds
  /\ IsFiniteSet(Clients) /\ IsFiniteSet(Threads) /\ IsFiniteSet(EntryIds)
  \* The allocator does not run out: the map and the threads cannot refer to all.
  /\ Cardinality(EntryIds) >= Cardinality(Clients) + Cardinality(Threads)
  /\ PerClient \in BOOLEAN /\ TrustForwardedFor \in BOOLEAN
  /\ ClientTtl \in Nat
  /\ CleanupInterval \in Nat
  /\ MaxTime \in Nat /\ MaxStallTime \in Nat
  /\ MayStall \subseteq BOOLEAN

VARIABLES
  now, global_bucket,
  may_stall,       \* whether time may pass inside a check, fixed for a run
  client_buckets,  \* the DashMap: the entry of each client, or NoEntry
  entries,         \* the live ClientEntry allocations
  last_cleanup,
  pc, client, entry, stamp, initial_count,
  unvisited,       \* clients that a running retain has still to visit
  doomed,          \* the client whose entry it has found expired, or NoClient
  taken,           \* history: tokens taken from the global bucket,
  taken_before     \*          in all, and before each time of the clock

shared == <<global_bucket, client_buckets, entries, last_cleanup, taken>>
sweep == <<initial_count, unvisited, doomed>>
locals == <<client, entry, stamp, sweep>>
clock == <<now, taken_before, may_stall>>
vars == <<clock, shared, pc, locals>>

Init ==
  /\ now = 0
  /\ may_stall \in MayStall
  /\ global_bucket = NewBucket(0)
  /\ client_buckets = [c \in Clients |-> NoEntry]
  /\ entries = <<>>
  /\ last_cleanup = 0
  /\ pc = [t \in Threads |-> "idle"]
  /\ client = [t \in Threads |-> NoClient]
  /\ entry = [t \in Threads |-> NoEntry]
  /\ stamp = [t \in Threads |-> 0]
  /\ initial_count = [t \in Threads |-> 0]
  /\ unvisited = [t \in Threads |-> {}]
  /\ doomed = [t \in Threads |-> NoClient]
  /\ taken = 0
  /\ taken_before = [s \in 0..MaxTime |-> 0]

Goto(t, from, to) == pc[t] = from /\ pc' = [pc EXCEPT ![t] = to]

Tracked == {c \in Clients : client_buckets[c] # NoEntry}

\* Whether a retain holds the lock of the shard of c: it has judged the entry and has
\* still to remove it.
Locked(c) == \E t \in Threads : doomed[t] = c

-------------------------------------------------------------------------------
\* check_with_headers

\* X-Forwarded-For as the sequence of its entries, empty if the header is absent or
\* unreadable; X-Real-IP; NoClient is an entry that is no address, or none.
Headers ==
  LET entry_or_none == Clients \cup {NoClient}
  IN [forwarded_for : {<<>>} \cup {<<e>> : e \in entry_or_none}
                        \cup (entry_or_none \X entry_or_none),
      real_ip : entry_or_none]

\* The first forwarded entry, else X-Real-IP, else the peer of the socket.
ExtractClientIp(headers, socket_addr) ==
  IF ~TrustForwardedFor THEN socket_addr
  ELSE IF headers.forwarded_for # <<>> /\ Head(headers.forwarded_for) # NoClient
       THEN Head(headers.forwarded_for)
  ELSE IF headers.real_ip # NoClient THEN headers.real_ip
  ELSE socket_addr

ClientIps ==
  {ExtractClientIp(headers, socket_addr) :
     headers \in Headers, socket_addr \in Clients \cup {NoClient}}

-------------------------------------------------------------------------------
\* check

CheckGlobal(t, ip) ==
  /\ global_bucket' = TryConsume(global_bucket, now)
  /\ \/ /\ ~CanConsume(global_bucket, now)
        /\ Goto(t, "idle", "global_wait")
        /\ UNCHANGED <<taken, client>>
     \/ /\ CanConsume(global_bucket, now)
        /\ taken' = taken + 1
        /\ \/ /\ PerClient /\ ip # NoClient
              /\ Goto(t, "idle", "cleanup")
              /\ client' = [client EXCEPT ![t] = ip]
           \/ /\ ~PerClient \/ ip = NoClient
              /\ Goto(t, "idle", "idle")
              /\ UNCHANGED client
  /\ UNCHANGED <<clock, client_buckets, entries, last_cleanup,
                 entry, stamp, sweep>>

\* The wait time of the rejection, read under a second acquisition of the lock.
GlobalWait(t) ==
  /\ Goto(t, "global_wait", "idle")
  /\ UNCHANGED <<clock, shared, locals>>

\* The Arc's that survive when the map and thread t's local change as given.
Live(map, held) ==
  {map[c] : c \in Clients} \cup {held[u] : u \in Threads}

GetEntry(t) ==
  /\ Goto(t, "entry", "stamp")
  /\ ~Locked(client[t])
  /\ \/ /\ client_buckets[client[t]] # NoEntry
        /\ entry' = [entry EXCEPT ![t] = client_buckets[client[t]]]
        /\ UNCHANGED <<client_buckets, entries>>
     \/ /\ client_buckets[client[t]] = NoEntry
        /\ LET e == CHOOSE i \in EntryIds : i \notin DOMAIN entries
           IN  /\ client_buckets' = [client_buckets EXCEPT ![client[t]] = e]
               /\ entry' = [entry EXCEPT ![t] = e]
               /\ entries' = [i \in DOMAIN entries \cup {e} |->
                    IF i = e
                      THEN [bucket |-> NewBucket(now), last_access |-> now]
                      ELSE entries[i]]
  /\ UNCHANGED <<clock, global_bucket, last_cleanup, taken,
                 client, stamp, sweep>>

\* The right-hand side Instant::now(), evaluated before last_access is locked.
ReadClock(t) ==
  /\ Goto(t, "stamp", "touch")
  /\ stamp' = [stamp EXCEPT ![t] = now]
  /\ UNCHANGED <<clock, shared, client, entry, sweep>>

TouchNothing(t) ==
  /\ Goto(t, "touch", "consume")
  /\ stamp' = [stamp EXCEPT ![t] = 0]
  /\ UNCHANGED <<clock, shared, client, entry, sweep>>

Touch(t) ==
  /\ Goto(t, "touch", "consume")
  /\ entries' = [entries EXCEPT ![entry[t]].last_access = stamp[t]]
  /\ stamp' = [stamp EXCEPT ![t] = 0]
  /\ UNCHANGED <<clock, global_bucket, client_buckets, last_cleanup, taken,
                 client, entry, sweep>>

\* check returns: its clone of the Arc is dropped.
Return(t, heap) ==
  /\ client' = [client EXCEPT ![t] = NoClient]
  /\ entry' = [entry EXCEPT ![t] = NoEntry]
  /\ entries' = Restrict(heap, DOMAIN heap \cap Live(client_buckets, entry'))

Consume(t) ==
  LET b == entries[entry[t]].bucket
      heap == [entries EXCEPT ![entry[t]].bucket = TryConsume(b, now)]
  IN /\ \/ /\ Goto(t, "consume", "idle")
           /\ CanConsume(b, now)
           /\ Return(t, heap)
        \/ /\ Goto(t, "consume", "client_wait")
           /\ ~CanConsume(b, now)
           /\ entries' = heap
           /\ UNCHANGED <<client, entry>>
     /\ UNCHANGED <<clock, global_bucket, client_buckets, last_cleanup, taken,
                    stamp, sweep>>

ClientWait(t) ==
  /\ Goto(t, "client_wait", "idle")
  /\ Return(t, entries)
  /\ UNCHANGED <<clock, global_bucket, client_buckets, last_cleanup, taken,
                 stamp, sweep>>

-------------------------------------------------------------------------------
\* maybe_cleanup

Cleanup(t) ==
  /\ \/ /\ now - last_cleanup < CleanupInterval
        /\ Goto(t, "cleanup", "entry")
        /\ UNCHANGED last_cleanup
     \/ /\ now - last_cleanup >= CleanupInterval
        /\ Goto(t, "cleanup", "count")
        /\ last_cleanup' = now
  /\ UNCHANGED <<clock, global_bucket, client_buckets, entries, taken, locals>>

\* len takes the lock of each shard in turn; it is counted at a moment when it gets
\* all of them.
CountBefore(t) ==
  /\ Goto(t, "count", "retain")
  /\ \A c \in Clients : ~Locked(c)
  /\ initial_count' = [initial_count EXCEPT ![t] = Cardinality(Tracked)]
  /\ unvisited' = [unvisited EXCEPT ![t] = Clients]
  /\ UNCHANGED <<clock, shared, client, entry, stamp, doomed>>

\* is_expired: last_access is unlocked with the answer.
Expired(e) == now - entries[e].last_access > ClientTtl

\* retain goes through the map under the lock of one shard after the other, and asks
\* of each entry whether it is expired.  Checks that hold a clone of the Arc go on.
Visit(t, c) ==
  /\ Goto(t, "retain", "retain")
  /\ doomed[t] = NoClient
  /\ c \in unvisited[t] /\ ~Locked(c)
  /\ unvisited' = [unvisited EXCEPT ![t] = @ \ {c}]
  /\ doomed' = [doomed EXCEPT ![t] =
       IF client_buckets[c] # NoEntry /\ Expired(client_buckets[c]) THEN c ELSE @]
  /\ UNCHANGED <<clock, shared, client, entry, stamp, initial_count>>

\* It removes an expired one, whatever has happened to the entry by then.
Evict(t) ==
  /\ Goto(t, "retain", "retain")
  /\ doomed[t] # NoClient
  /\ doomed' = [doomed EXCEPT ![t] = NoClient]
  /\ client_buckets' = [client_buckets EXCEPT ![doomed[t]] = NoEntry]
  /\ entries' = Restrict(entries, DOMAIN entries \cap Live(client_buckets', entry))
  /\ UNCHANGED <<clock, global_bucket, last_cleanup, taken,
                 client, entry, stamp, initial_count, unvisited>>

\* Thread t is about to take the second len.
Swept(t) ==
  /\ pc[t] = "retain" /\ unvisited[t] = {}
  /\ \A c \in Clients : ~Locked(c)

\* removed = initial_count - len(), which only feeds a log line.
CountAfter(t) ==
  /\ Swept(t)
  /\ Goto(t, "retain", "entry")
  /\ initial_count' = [initial_count EXCEPT ![t] = 0]
  /\ UNCHANGED <<clock, shared, client, entry, stamp, unvisited, doomed>>

Tick ==
  /\ now < MaxTime /\ (may_stall => now < MaxStallTime)
  /\ may_stall \/ \A t \in Threads : pc[t] = "idle"
  /\ now' = now + 1
  /\ taken_before' = [taken_before EXCEPT ![now + 1] = taken]
  /\ UNCHANGED <<may_stall, shared, pc, locals>>

Next ==
  \/ \E t \in Threads :
       \/ \E ip \in ClientIps : CheckGlobal(t, ip)
       \/ GlobalWait(t) \/ Cleanup(t) \/ CountBefore(t) \/ CountAfter(t)
       \/ Evict(t) \/ \E c \in Clients : Visit(t, c)
       \/ GetEntry(t) \/ ReadClock(t) \/ Touch(t) \/ Consume(t) \/ ClientWait(t)
  \/ Tick

Spec == Init /\ [][Next]_vars

-------------------------------------------------------------------------------
\* Properties

Buckets == [tokens : 0..Capacity, last_update : 0..MaxTime]

\* Every bucket holds between zero and capacity tokens, no stored time is ahead
\* of the clock, and an Arc that the map or a thread refers to is alive.
TypeOK ==
  /\ now \in 0..MaxTime
  /\ global_bucket \in Buckets /\ global_bucket.last_update <= now
  /\ last_cleanup \in 0..now
  /\ DOMAIN entries = (Live(client_buckets, entry) \ {NoEntry})
  /\ DOMAIN entries \subseteq EntryIds
  /\ \A e \in DOMAIN entries :
       /\ entries[e].bucket \in Buckets /\ entries[e].bucket.last_update <= now
       /\ entries[e].last_access \in 0..now
  /\ stamp \in [Threads -> 0..now]
  /\ initial_count \in [Threads -> 0..Cardinality(Clients)]
  /\ \A t \in Threads : doomed[t] # NoClient => client_buckets[doomed[t]] # NoEntry

\* The limit of the whole limiter: from any moment on, no matter how the threads
\* interleave, at most a burst plus the refill of the time that has passed is
\* let through the global bucket.
WindowLimit ==
  \A s \in 0..now :
    (taken - taken_before[s]) * OneToken
      <= Capacity + RequestsPerSecond * (now - s)

\* A rejected caller that waits as many seconds as Retry-After says (line 378)
\* finds a token if nobody else took it, although the bucket was unlocked
\* between the rejection and the computation of the wait (lines 286 and 287).
RetryAfterSuffices ==
  \A t \in Threads :
    LET Suffices(b) ==
          CanConsume(b, now + RetryAfterSecs(b) * TicksPerSecond)
    IN  /\ pc[t] = "global_wait" => Suffices(global_bucket)
        /\ pc[t] = "client_wait" => Suffices(entries[entry[t]].bucket)

\* Every client bucket has the capacity and the rate of the global bucket, and
\* every client token is taken after a global one (lines 286 and 307): as long
\* as checks take no time, the per-client limit never rejects anyone, whatever the
\* README says of "per-client and global limits" (line 13).
PerClientNeverBinds ==
  ~may_stall => \A t \in Threads : pc[t] # "client_wait"

\* The entries that no later check will find: those that a retain has found expired,
\* and those it has removed but a check still has in hand.
Condemned ==
  {e \in DOMAIN entries :
     \/ \E t \in Threads : doomed[t] # NoClient /\ client_buckets[doomed[t]] = e
     \/ \A c \in Clients : client_buckets[c] # e}

Holders(e) == {t \in Threads : entry[t] = e}

\* With a TTL no shorter than the time a bucket needs to fill up, evicting a client
\* forgives it only what checks charge that had the entry in hand when retain found
\* it expired (lines 173, 305 and 336): the bucket was full, only a check that ran
\* since can have touched it, and what has been and may yet be charged to it is at
\* most one token for each thread but the evicting one (as long as checks take no
\* time).
ForgivesOnlyRacingChecks ==
  ~may_stall => \A e \in Condemned :
    LET charged == Capacity - Refill(entries[e].bucket, now).tokens
    IN  /\ charged = 0 \/ entries[e].last_access = now
        /\ charged + OneToken * Cardinality(Holders(e))
              <= OneToken * (Cardinality(Threads) - 1)

\* "cleaned up expired rate limit entries" (line 340): the number of entries
\* removed is initial_count minus what is left, in unsigned arithmetic.
RemovedIsACount ==
  \A t \in Threads : Swept(t) => initial_count[t] >= Cardinality(Tracked)
===============================================================================
