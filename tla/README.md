# TLA+ models of the Rust service mesh proxy

This directory holds TLA+ specifications of the components of the proxy that
carry its state and its concurrency, TLC configurations that check them on small
instances, and TLAPS proofs of the main safety properties for every value of the
constants. Paths below are relative to the repository root; line numbers are
those of the commit the models were written from. `PROJECT.json` maps every
definition to the lines it models.

    tlc -config CircuitBreaker_safety.cfg MCCircuitBreaker    # one run
    tlapm CircuitBreaker_proofs.tla                           # one proof module

## 1. Inventory

The binary (`src/main.rs`) binds a proxy listener and an admin listener, spawns
an accept loop for each, and waits for Ctrl-C or for the end of one of them. An
accepted connection is a detached tokio task; its requests go to a clone of one
`ProxyService`, which picks an upstream and forwards. The library also offers a
circuit breaker, a rate limiter, a connection limiter, a retry executor, a
router and a transport layer, which callers combine themselves: the binary uses
none of them yet, and `transport` is the only other user of the breaker.

| Component | State | Operations | Hard part | What makes it correct |
|---|---|---|---|---|
| `circuit_breaker` | state and last failure time behind two async locks, two counts, two totals | `allow_request`, `record_success`, `record_failure`, `reset` | no operation holds one lock while it uses another field; a future may be dropped at every `.await` | a reached threshold is acted on; open can be left; a healthy service is not cut off for ever |
| `connection` | semaphore, three atomic counters | `try_acquire`, drop of the guard | counters and permits change in separate steps | the limit holds, nothing leaks, counters are exact |
| `ratelimit` | global bucket, map of client entries, time of the last cleanup | `check`, `maybe_cleanup` | every lock is released between two steps; eviction races with use | no window admits more than burst plus refill; Retry-After is honest; eviction forgives no more than what races with it |
| `service` | upstream list, round-robin counter, metrics | `call` (`select_upstream`, `forward_request`) | timeout against a late answer, clients that leave, counter wrap-around | balanced load, one answer and one count per request |
| `retry` | attempt counter | `execute`, `reset` | the counter outlives a call; calls may be dropped | bounded retries, honest report, termination |
| `main`, `listener`, `admin_listener` | two tasks, broadcast channel, two flags, connections | `run`, `bind`, `bind_with_tls`, `bind_h2c`, `serve` | Ctrl-C, a dying task, handshakes and connections in any order | no handle awaited twice, listeners joined, nobody queues for ever, shutdown ends |
| `config` | none after start | `from_env`, `validate` | unset, unparsable and boundary values; addresses compared as texts | what `validate` accepts starts |
| `protocol` | ALPN list of the acceptor | `alpn_protocols`, `from_alpn`, `build_acceptor` | clients without ALPN or without a common protocol; PEM files without a certificate or a key | a connection is served in a protocol both sides talk |
| `admin` | readiness flag | `new`, `/health`, `/ready`, `/metrics` | the flag is set before anything is spawned | who is told "ready" is served in the end |
| `transport` | clusters, endpoints with health, counts and a breaker each, next index | `select_endpoint`, `acquire/release_connection`, `record_*`, `set_healthy`, `add_cluster` | a selection works on a snapshot of health and on counts raised later; asking a breaker changes it; a cluster is replaced while in use | a usable endpoint is found; counts are exact; a cut-off endpoint is probed |
| `router` | ordered routes, default, regex cache | `add_route`, `remove_route`, `with_default_upstream`, `route` | order after any sequence of changes; duplicate names | the best match wins, ties go to the oldest, a change is local |
| `metrics` | registry of counters behind one mutex | `record_*`, `encode` | gauge series of past states stay; a poisoned mutex | counts agree with what happened |
| `error`, examples | none | | | |

Components interact by calls and shared atomics, except for the shutdown, a
broadcast message from `run` to the accept loops. Nothing is persisted, so there
is no crash recovery. `PROJECT.json` lists the hazards line by line, with the
properties that cover each one.

## 2. Modules

A model step is one access to shared state: one lock section or one atomic
operation. Steps of different tasks interleave freely. The relaxed atomics are
taken in program order, each being a read-modify-write or a store to one
location.

### CircuitBreaker

`state`, `failure_count`, `success_count`, `last_failure_time`,
`total_requests`, `total_failures` are the fields of the struct; `pc[t]` says
where task `t` is in the documented protocol (allow, request, record). The
actions follow the code statement by statement: `CallAllow`, `AllowRead`,
`AllowTimer`, `SetHalfOpen`; `RequestSucceeds`, `RequestFails`; `SuccessRead`,
`SuccessAdd`, `SetClosed`; `FailureRead`, `FailureAdd`, `SetOpen`, `Stamp` and
`Save` (the instant is read before the lock is awaited); `CallReset`, `Forget`;
`ClearFailures` and `ClearSuccesses` are the stores of 0 that several operations
share. An `Instant` is its age, saturating at `Timeout`, which is all the code
compares. The constant `Faults` switches on resets that race with other calls
and futures dropped at an `.await` (`Cancel`).

`HystrixBreaker` is the abstract breaker with atomic operations, and
`CircuitBreakerRefinement` maps the detailed one to it. The mapping linearises a
failure at the moment its instant is read (`Stamp`), so a breaker that is being
opened still counts as closed, and counts about to be cleared are already 0.

### ConnectionLimiter

`TryAcquire` is the semaphore's decision; the counters follow in steps of their
own. `DropGuard` is the body of `drop`, `ReleasePermit` the drop of the permit
field, which Rust runs after it.

### TokenBucket and RateLimiter

`TokenBucket` has the bucket's operations as operators on a record. Tokens are
counted in units of 1/TicksPerSecond, which makes the code's `f64` arithmetic
exact; rounding of floats is not modelled. `RateLimiter` has one action per lock
section of `check` and `maybe_cleanup`. The entries of the map are allocations
with an identity, because a thread may hold a clone of an `Arc` that has been
evicted; an allocation disappears with its last owner. The identities suffice for
every client and every thread, so an allocation never fails. The address a check is
made for comes from `ExtractClientIp`: the first entry of `X-Forwarded-For`, else
`X-Real-IP`, else the peer of the socket. `retain` takes two steps for an entry: `Visit`
asks `is_expired`, which unlocks `last_access` with its answer, and `Evict` removes
the entry. In between it holds the lock of the shard (`Locked`), which keeps others
from the map but not from an entry whose `Arc` they already have. A client has a shard
of its own here: what two clients of one shard can do is less. `DashMap::len` is taken
as one atomic read, at a moment when no shard is locked. `taken` and
`taken_before` are history variables for the window property. `may_stall` says
whether time may pass in the middle of a check.

### ProxyService

A request is new, waiting for the response headers, streaming, done, or gone
(its client left and hyper dropped the future). `Forward` covers
`select_upstream` and the URI check; `Answered` and `TimedOut` are the branches
of the match on `timeout`, which polls the request before its timer. The list of
upstreams may be empty, as `ProxyConfig::from_env` allows. What the upstream has sent
(`sent`) becomes the result of the response future (`reply`) only when hyper's task of
the connection delivers it, which may be after the deadline. `record_request` runs
under the registry's mutex and is one step.

### RetryExecutor

`Execute`, `Complete`, `Wake` and `Reset` follow `execute` and `reset`;
`NextDelay` is the set of delays that the jitter can produce, after the cast
to whole milliseconds, which makes 0 of a negative number. The multiplier is an
unchecked `f64`; here it is any fraction, below 1 or negative too, given by its powers
over a common denominator (`powi`, where `powi[0]` stands for 1). The assumption of the
module is their recurrence, and `MCRetryExecutor` computes them. NaN and the
infinities, and the rounding of `f64`, are left out. `Cancel` drops the call.

### ProxyMain, with ProxyConfig, HttpProtocol and AdminService

`ProxyConfig` has `from_env` and `validate` as operators over every kind of value
an environment variable can have; an address is known by its host part (literal,
wildcard, name, junk), its port and its spelling, since `validate` compares texts and
`bind` sockets; an entry of the upstream list by whether it is
a URL. `Checks` lists the conditions of `validate` in the order of the code.
`Bindable` says when the operating system can bind. `HttpProtocol` has the ALPN
lists, `from_alpn` and `build_acceptor` (a PEM file is known by whether a certificate
and a key can be read from it), and ALPN as rustls does it, which is external. `AdminService` has the answer to
every path.

`ProxyMain` composes them with the process. `main` walks through `run`
(`LoadConfig`, `BindProxy` ... `JoinAdmin`); `run` does not call `validate`, so
every environment gets as far as the binding. `src/main.rs` uses `Listener::bind`;
the constant `Constructors` lets the same program use `bind_with_tls` and
`bind_h2c` as well, as the repository's README suggests. Once the configuration
has been handed on, `config` returns to `Default`: nothing reads it again, and the
states of the running process do not multiply by the environments.

A spawned task does nothing until it is first polled (`Serve`), and the admin task
may be polled before the proxy's. The two `serve` functions are the same loop,
`Accept` and `ReceiveShutdown`, for
the proxy in `ProxyListener` and for the admin endpoint in `AdminServe`; a failed
`accept` is logged and changes nothing, so it is no step. With TLS an accepted
connection first does its handshake (`HandleTlsConnection`) in a task of its own.
What a proxy connection does between then and `Finish` is `ProxyService`; an admin
connection answers requests (`AdminRequest`). `Exit` is the return from `main`,
when the runtime is dropped with all its tasks. A second await of a finished
`JoinHandle` panics and is modelled.

### LoadBalancer

`plan` is the sequence of `add_cluster` calls of a behaviour, for one cluster
name; each makes a balancer, `current` is the one in the map, and an endpoint is
a pair of a balancer and a position, because a task keeps its `Arc` when the
balancer is replaced, and because an address may be given twice or a list be empty:
`add_cluster` and `from_addresses` check nothing. `SelectEndpoint` clones the balancer; `Filter` reads one
health flag per step; `RoundRobin`, `LeastConnections` (one count per step) and
`Random` are the policies; `Ask` is the breaker's answer for the choice and
`Fallback` one round of the loop over the others. The task then counts its
connection, records the outcome at its endpoint and releases the connection.
Each breaker operation is one step here: its inner interleavings are the subject
of `CircuitBreaker`, and the refinement shows that operations that do not overlap
act as one. `usable` is a history variable: the endpoints that have been healthy
with a breaker that is not open ever since a task began to select.

### Router

`routes` is the ordered table, at first the sort of any list given to `with_routes`;
`added` (history) holds the same routes in the order of their addition, `regex_cache` the process-wide cache. `Matches` follows
`Route::matches` through method, path and headers; `GetOrCompileRegex` answers
from the cache if it can. Strings are opaque, constants say what a prefix, a text
or a pattern matches. `SortRoutes` is the result of the stable sort: the permutation
of the table in which every route comes `Before` the next, by priority and then by
position. `RouterAssumption` lists the variants of `PathMatch` and `HeaderMatch`.
`RouteRequest` is a lookup, which changes only the cache: it adds the patterns
that the routes up to the match have tried. `weight` and `timeout_ms` of a route are
read by no code and are not in the model.

## 3. Runs

| Run | Instance | Shows |
|---|---|---|
| `breaker_safety` | 3 tasks, thresholds 2 and 2, timeout 1 | `NoMissedTrip`, `NoMissedClose`: a reached threshold always has a task about to act on it; `OpenHasTimer`: an open breaker can be left |
| `breaker_liveness` | 2 tasks, dropped futures | `Recovery`, `Trips` |
| `breaker_refinement` | 3 tasks, thresholds 3 and 2, timeout 2, calls that do not overlap | `ImplementsHystrixBreaker` |
| `limiter_safety` | 6 connections, 2 permits | `LimitHolds`, `NothingLeaks`, `CountersExact` |
| `rate_safety` | 2 threads, 2 clients in every header and at the socket (and requests without one), burst 2, rate 2, 5 instants, or 3 where checks may stall | `WindowLimit`, `RetryAfterSuffices`, and without stalls `PerClientNeverBinds`, `ForgivesOnlyRacingChecks` |
| `rate_underflow` | 2 threads | violated: `RemovedIsACount` |
| `service` | 4 requests, 0 or 2 upstreams (one invalid), counter modulo 3 | `RoundRobinBalanced`, `MetricsMatchAnswers`, `EveryRequestAnswered` |
| `retry` | 3 calls between resets, 5 retries, with and without jitter, multipliers 2, 3/2, 1/2 and -1 | `RetriesBounded`, `AttemptsExact`, `BackoffGrows`, `ExecuteReturns` |
| `process` | every environment, every constructor, 2 connections, both listener tasks may die | `NeverPolledTwice`, `ExitJoinsListeners`, `StopsOnlyOnSignal`, `ValidatedConfigStarts`, `NegotiatedIsCommon`, `ReadyIsServed`, `ShutdownCompletes`, `QueuedIsTaken` |
| `router` | every initial list and every later table of up to 3 of 8 overlapping routes, 12 requests | `BestMatchWins`, `ChangesAreLocal` |
| `transport` | 2 tasks on 2 endpoints with round robin, or on a cluster of 1 replaced by an empty one; 1 task on 2 endpoints under each other policy, on an address given twice, and on 3 endpoints of which 2 flap | `UsableIsFound`, `ConnectionsExact`, `CutOffIsProbed` |
| `process_in_flight` | 1 connection | violated: `InFlightCompletes` |

The passing runs of `CircuitBreaker`, `ConnectionLimiter`, `RateLimiter`,
`ProxyService` and `LoadBalancer` also check the type invariant of the module.

**Why the bounds are enough.** Three tasks allow one that acts on a stale read
while two others open, half-open and close the breaker; thresholds of 2 tell
"reached" from "counted". Failures and successes are bounded without a guard:
a count at its threshold always has a task on its way to change the state
(`NoMissedTrip`), so only as many more as there are tasks inside can be added.
Dropped futures break that, hence `CountBound`: futures are dropped only while
the counts are at most 2, one above what a lost trip needs. `CounterMod` wraps
the totals, which nothing reads. In `rate_safety` the clock stops at 4 (`MaxTime`),
which is time for two rounds of fill-up, expiry and cleanup, and at 2 (`MaxStallTime`)
where time may pass inside a check, which is time for one; two clients let one of them be evicted
while the other is in use. In `process` two connections are what it takes for one
to wait behind the handshake of the other, or to ask the admin endpoint while the
other uses the proxy; the addresses include equal texts, two spellings of one socket, the wildcard, a name
for the same host and port 0, the timeouts the two limits of `validate` and the value
above. In `service` the counter wraps at a
number that two upstreams do not divide, as `usize` does with three. In `router`
three routes of one priority are what an unstable sort or removal needs to show;
the candidates have every kind of path and header condition, two with one name,
one disabled and one with a pattern that does not compile. In `transport` the
breakers open on the first failure, so both endpoints can be cut off; the
thresholds themselves are the breaker's concern. Three endpoints of which the outer
two flap are what it takes to keep round robin away from the third; with an address
given twice, the two exceptions that `UsableIsFound` and `CutOffIsProbed` make are both
met, and without them TLC refutes either property on this instance. `next_index` wraps
at 4, a power of two like the code's. In `rate_safety` the race that
`ForgivesOnlyRacingChecks` allows is met as well: TLC refutes the stronger claim that
an evicted bucket is always full.

**Fairness.** `CircuitBreaker!FairSpec`: the runtime polls every task, callers
keep calling, time passes; nothing forces resets, dropped futures or a flip of
the service. `ProxyService!FairSpec`: a woken task is polled and time passes;
upstreams, the tasks of their connections and clients owe nothing. `RetryExecutor!FairSpec`: sleeps end and
requests complete, which they do under a timeout. `ProxyMain!FairSpec`: `run`
is polled, a spawned task is polled for the first time, and so are the accept loops
from then on, whose `accept` does not fail for ever (out of file descriptors, say); `select!` polls its branches in random order,
so neither a ready `recv` nor a ready `accept` is starved by the other. Clients
owe nothing: a handshake or a connection may last for ever. `LoadBalancer!FairSpec`: callers
keep sending requests, each of which ends. All of it is weak fairness.

**Deadlock** is checked except in `ConnectionLimiter` (every connection tries
once) and `ProxyMain` (the process ends).

### What the violations show

`rate_underflow` and `process_in_flight` are expected to fail:

* **The cleanup's count can underflow** (`src/ratelimit.rs:338`), a panic in a
  debug build, after the eviction has been done.
* **A shutdown cuts open connections** (`src/main.rs:134`), although the
  README's feature list promises in-flight completion.

Two more follow from the breaker's model:

* **A dropped future can leave the breaker open for ever** (`src/circuit_breaker.rs:159`).
  `record_failure` stores `Open`, then awaits the lock of the failure time. A
  future dropped there leaves `None`, and `allow_request` answers `false` from
  then on, although the configuration documents a "Duration to wait before
  transitioning from Open to HalfOpen" (`:29`). `CircuitBreaker_safety.cfg` with
  `Faults = {"cancel"}` shows it as a violation of `OpenHasTimer`; with
  `{"racing_reset"}` it shows the same for a `reset` that races with a
  `record_failure` and erases its new failure time.
* **The timeout can be skipped** (`:112`): a task that has read an elapsed
  failure time may store `HalfOpen` after others have closed and reopened the
  breaker.

Disagreements between text and code that were met while modelling and that no run
states as a violation:

* **The per-client limit never rejects.** The README announces "per-client and
  global limits" (`README.md:13`), `per_client` says "Whether to enable per-client
  rate limiting" (`src/ratelimit.rs:24`), and there is a result for it, "Per-client rate
  limit was exceeded" (`:360`); a test speaks of "their own 10 token quota" (`:484`).
  Every client bucket has the rate and the burst of the global one and is asked after
  it, so while checks take no time it holds a token whenever the global one had one:
  `PerClientNeverBinds`, proved as `ClientLimitIdle`. Only a check that stalls between
  the two buckets can be rejected by the second.
* **A delay may exceed its maximum.** `max_delay` is the "Maximum delay between
  retries" (`src/retry.rs:17`), but the jitter is applied after the cap (`:122`), so a
  delay can be half as much again; `BackoffGrows` claims the cap without jitter only.
  `backoff_multiplier` is not checked: below 1 the delays shrink, and a negative one
  makes every other delay 0.
* **Weights do not balance.** A route's `weight` is "for load balancing (when multiple
  routes match)" (`src/router.rs:220`). No code reads it: of several routes that match
  with one priority the oldest gets everything (`BestMatchWins`). Nor is a route's
  "Unique name" (`:208`) enforced: of two with one name, `remove_route` takes the first.
  The "weighted" strategy of the README (`README.md:11`) is no policy of the balancer
  either, whose endpoints carry weights that nothing reads.
* **validate misses equal addresses.** It returns an error if "Listen and metrics
  addresses are the same" (`src/config.rs:155`), but compares texts (`:178`): two
  spellings of one IPv6 socket pass, and so does a wildcard with a literal address of
  its port. `run` then fails with its first listener already bound
  (`ValidatedConfigStarts` has these as its two exceptions).
* **Ready without a proxy.** `/ready` answers "200 if ready, 503 if not"
  (`src/admin.rs:71`), but the flag is set when the admin listener is made and never
  withdrawn: the answer is 200 before the proxy's loop is first polled, after that loop
  has died, and during the shutdown. `ReadyIsServed` claims what is left, that the loop
  is polled in the end.
* **A half-open breaker admits everyone.** "Recovery mode, allow limited requests
  to test if service recovered" (`src/circuit_breaker.rs:6`): no request is refused while
  the state is `HalfOpen` (`:122`), and the abstract breaker `HystrixBreaker` has no limit either.
* `max_connections_per_ip` is never read (`src/connection.rs:16`), and
  `PROXY_MAX_CONNECTIONS` (`src/config.rs:50`) limits nothing.
* The request timeout ends with the response headers (`src/service.rs:106`), and a
  request without upstreams is not counted (`:190`).
* An error that is not retried is reported as `Exhausted` (`src/retry.rs:229`), and
  `execute` looks at no status code (`:212`).
* `from_env` leaves the upstream list empty for a value of blanks and commas, where its
  example asserts that it is not (`src/config.rs:103`).
* The private key is the first of the file in any format, where the comment says PKCS#8
  first (`src/protocol.rs:101`).
* The address of a client is the leftmost of `X-Forwarded-For` where the option promises
  the rightmost (`src/ratelimit.rs:81` and `:228`).
* The README's TLS example drops the sender of its shutdown channel, which `serve` takes
  for a shutdown (`src/listener.rs:246`).

Limits of the code that the models bring out, without a text that says otherwise:

* With an address given twice, `select` may answer `None` beside a usable endpoint: the
  fallback passes over every endpoint with the address of the one whose breaker refused
  (`src/transport.rs:268`).
* Round robin takes `next_index` modulo the number of healthy endpoints (`:284`). If
  health flags keep changing in step with it, an endpoint whose breaker is open may never
  be asked again although its timeout is over; `CutOffIsProbed` assumes that the flags
  stop changing.
* `LeastConnections` with one request at a time may never ask a recovered endpoint
  again, since an idle endpoint that comes first in the list always wins
  (`CutOffIsProbed` is about round robin, and consistent hashing, which falls back to
  it, only).
* An eviction can forgive tokens: `retain` asks whether an entry is expired, and a check
  that already has the entry touches and charges it before `retain` removes it
  (`src/ratelimit.rs:173`, `:305`, `:336`). `ForgivesOnlyRacingChecks` bounds it by one
  token for each other thread.
* `validate` rejects two equal addresses with port 0 and every host name, which would
  bind; a client may hold a handshake open for ever.
* `acquire_connection` returns no guard, so a request dropped before its release is
  counted for ever (`src/transport.rs:151`).
* A rate of 0 makes the wait of a rejection infinite and `Duration::from_secs_f64`
  panics (`src/ratelimit.rs:140`). At every other rate the wait is a fraction of a
  second, which Retry-After cuts to 0 and then raises to 1.

## 4. Proofs

All theorems hold for every value of the constants that satisfies the named
assumption of the module (thresholds, rates and modulus positive, times natural).

* `CircuitBreaker_proofs`: `TypeCorrect`; `NeverMissesTrip` and
  `NeverMissesClose`, for any number of tasks and with racing resets, if futures
  are not dropped; `OpenIsTimed`, if resets do not race either. The two
  threshold invariants are inductive together with the types: the task that
  raises a count to its threshold is the one that is sent to the transition, and
  every other way into the state goes through a clearing store. `OpenIsTimed`
  needs one more fact, that a reset has the breaker for itself (`ResetAlone`),
  because only a reset forgets the failure time. `SerialUseIsAtomic` is the
  refinement of `HystrixBreaker`, for any number of callers whose calls do not
  overlap, with resets, if futures are not dropped. The invariant (`RInv`) adds to
  the types, to the serial use and to `OpenHasTimer` what the one task inside knows
  at each of its steps (`Phase`): the state it has read or stored, the elapsed
  timeout, the reached threshold. With one task inside, each mapped variable is a
  function of that task's step and the fields (`View`), and every action is either
  one abstract step or leaves the mapped variables as they are.
* `ConnectionLimiter_proofs`: `ExactCounters` is the inductive invariant, each
  number being the cardinality of the set of connections in some phases; an
  action moves one connection from one set to the next. `TypeCorrect`,
  `LimitAlwaysHolds` and `NeverLeaks` follow from it.
* `RateLimiter_proofs`: `GlobalLimit`, for any number of threads and clients,
  whatever they do with the per-client entries. The invariant (`Paid`) is that
  for every past instant the tokens taken since, plus the tokens still in the
  bucket, are covered by the capacity and the refill up to the bucket's last
  update; `taken_before` grows with the clock. `RetryAfterIsHonest` covers the
  global bucket and those of the clients; its invariant (`EntriesInv`) says that
  every entry a thread or the map refers to is allocated, and that its bucket is
  a bucket whose last update is not ahead of the clock. The lemmas on `Refill`,
  `TryConsume` and `RetryAfterSecs` are proved once for arbitrary buckets;
  products of constants are handled by two arithmetic lemmas.

  `TypeCorrect` adds to them that the allocated entries are exactly those with an
  owner (`Arcs`) and that no stored time is ahead of the clock (`Times`).
  `ClientLimitIdle` and `OnlyRacesAreForgiven` are about behaviours in which a
  check takes no time (`~may_stall`). The first one is not inductive at all by
  itself; what makes it true is `Ahead`: at every instant the refilled bucket of a
  client holds at least what the global one does plus one token for each check under
  way that has paid globally and not yet at this client's bucket, and the global
  bucket misses at least the tokens of all such checks, so that a fresh, full bucket
  is ahead as well. The second one rests on `Recent` (a bucket was last updated no
  later than its entry was last accessed), on `Doom` (what a `retain` is about to
  remove is in the map, under one thread's lock, and no two clients share an entry)
  and, as a hypothesis of the theorem, on a TTL within which an empty bucket fills up,
  which the default configuration has. The entry that `retain` finds expired is full
  then, the evicting thread is not among its holders, nobody takes it in hand any more,
  and a holder that charges it lets go of it: what has been charged plus what the
  holders may yet charge never grows (`Mild`). When time passes no check is under way,
  so nothing is condemned.
* `ProxyService_proofs`: `TypeCorrect` and `MetricsAreExact`. Each
  metric is the cardinality of a set of answered requests; the invariant adds that
  a request is answered only after it has waited, so a step adds at most one
  request to each set. `LoadsStayBalanced` rests on `Turns`: the requests sent are
  some number of full periods of the counter plus its value, each full period sets
  two upstreams at most one request apart, and the present one sets them apart by
  which of them its round has passed.
* `RetryExecutor_proofs`: `RetryBudget` and `ReportsAttempts`. The invariant says
  that the counter is ahead of the requests by one exactly while a call sleeps.
  `DelaysGrow`, for every multiplier: the backoff is capped before it is cut to whole
  milliseconds; if the multiplier is at least 1, the last delay is at most the backoff
  of the present attempt (`Slept`), and the backoff does not shrink from one power to
  the next.
* `ProxyMain_proofs`: `NoSecondAwait` and `ListenersAreJoined` from `Handles` (a
  handle whose result was taken is marked as finished until its turn is over),
  `StopsWhenTold` from `Messages` (the sender lives as long as `run`, so a receiver
  is ready only after the broadcast).
  `ValidatedStarts` from `StartInv`: when `run` gave up over an address, the
  configuration it gave up on holds one that cannot be bound, and for a pair that
  `validate` accepts this means a wildcard or two spellings. `NegotiationSuits` from `TlsInv`: the
  acceptor is there before the first connection and offers the list of the
  listener's protocol.
* `LoadBalancer_proofs`, for finitely many tasks, any clusters, policies,
  replacements and thresholds: `CountsAreExact`, the count of an endpoint being the
  cardinality of the set of tasks that use it, across replacements of the cluster, and
  `UsableAlwaysFound`, for lists with repeated addresses too. The second one needs
  an invariant of the selection loop (`SelectionOK`): the filter has kept every
  endpoint that stayed usable, the choice is one of what it kept, and the fallback
  loop has left behind only endpoints that were not usable or share the address of the
  one refused. `TypeCorrect` adds that
  what a task holds belongs to the balancer it works with (`Ranges`), which may have
  been replaced in the map.
* `Router_proofs`, for any routes and requests and tables of any length: `BestMatch`
  from `Sorted`, that the table is the stable sort of the additions that are left,
  in the order of addition. The lemmas say that every table can be sorted stably
  (`Sortable`: each route goes to the place that the number of routes before it says),
  that a removal keeps the order, and that the first match of a sorted table is the
  best one.
  Both `BestMatch` and `LocalChanges` need `CacheInv`: a cached pattern answers as it
  would if it were compiled afresh, so matching depends on the routes alone.

Every invariant and every action property that a passing run checks is proved.
Only model-checked are the liveness properties (`Recovery`, `Trips`,
`EveryRequestAnswered`, `ExecuteReturns`, `ReadyIsServed`, `ShutdownCompletes`,
`QueuedIsTaken`, `CutOffIsProbed`): they depend on fairness, which is out of the prover's reach.

## 5. What is not modelled

* `error` and the crate root: declarations. Examples and benchmarks: callers.
* `metrics` beyond `record_request` and the success of `encode`: independent
  counters and gauges that no code calls, and the exported text.
* `protocol`: `ClientTlsConfig`, which nothing uses. `admin`: `with_readiness` and
  `set_not_ready`, which only tests call, and the bodies of the answers. `config`:
  `max_connections`, which no code reads.
* Of `transport`, the statistics (requests, response times, connections made and
  closed) and the weights, which no policy reads; of `router`, rewritten paths,
  which are texts;
  `weight` and `timeout_ms` of a route are read by no code.
* Rounding, infinities and NaN of `f64`, and a rate of 0.
* A connection after its response headers: `call` applies no timeout to the body,
  so a stalled body keeps its connection; the model lets it stream for ever.

Nothing is persisted, so there is no restart to model.

## 6. Plan

Done: breaker, its abstraction, the refinement and its proof; connection limiter;
rate limiter with the choice of the client; proxy service; retry executor; process
with configuration, listeners, TLS and admin endpoint; transport; router; the
proofs above.

1. Composition of retry, breaker and service for one request: a retried request
   is recorded once per attempt. No code of the repository composes them yet.
2. An abstract specification of selection that `LoadBalancer` implements.
