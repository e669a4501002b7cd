----------------------------- MODULE ProxyService -----------------------------
(***************************************************************************)
(* The forwarding service of src/service.rs: concurrent requests share the *)
(* round-robin counter and the metrics; each one waits for the response    *)
(* headers of its upstream under a timeout, then streams the body.         *)
(***************************************************************************)
EXTENDS Naturals, FiniteSets

CONSTANTS
  Requests,        \* the requests of one run
  UpstreamCounts,  \* the lengths of upstream_addrs to consider
  BadUpstreams,    \* indices of addresses that do not give a valid URI
  Timeout,         \* request_timeout, in ticks
  CounterMod,      \* wrap-around of the usize counter next_upstream
  Statuses         \* status codes that upstreams answer with

ASSUME ServiceAssumption ==
  /\ IsFiniteSet(Requests)
  /\ UpstreamCounts \subseteq Nat
  /\ BadUpstreams \subseteq Nat
  /\ Timeout \in Nat
  /\ CounterMod \in Nat \ {0}
  /\ Statuses \subseteq 100..599 \ {502, 504}

BadGateway == 502
GatewayTimeout == 504
None == 0

VARIABLES
  num_upstreams,  \* upstream_addrs.len(), fixed when the service is built
  next_upstream,
  phase,     \* where forward_request stands, per request
  upstream,  \* index of the selected upstream plus one, or None
  elapsed,   \* ticks since the request was forwarded, up to Timeout
  sent,      \* what the upstream has sent and the connection not yet delivered
  reply,     \* what the future of client.request is ready with
  status,    \* the status answered to the client
  requests_total, errors_total

balancer == <<num_upstreams, next_upstream>>
metrics == <<requests_total, errors_total>>
transfer == <<sent, reply>>
vars == <<balancer, phase, upstream, elapsed, transfer, status, metrics>>

Init ==
  /\ num_upstreams \in UpstreamCounts
  /\ next_upstream = 0
  /\ phase = [r \in Requests |-> "new"]
  /\ upstream = [r \in Requests |-> None]
  /\ elapsed = [r \in Requests |-> 0]
  /\ sent = [r \in Requests |-> None]
  /\ reply = [r \in Requests |-> None]
  /\ status = [r \in Requests |-> None]
  /\ requests_total = 0
  /\ errors_total = 0

Goto(r, from, to) == phase[r] = from /\ phase' = [phase EXCEPT ![r] = to]

Answer(r, code) == status' = [status EXCEPT ![r] = code]

RecordRequestTwice(code) ==
  /\ requests_total' = requests_total + 2
  /\ errors_total' = errors_total + (IF code >= 400 THEN 1 ELSE 0)

\* Metrics::record_request, under the lock of the registry.
RecordRequest(code) ==
  /\ requests_total' = requests_total + 1
  /\ errors_total' = errors_total + (IF code >= 400 THEN 1 ELSE 0)

-------------------------------------------------------------------------------
\* call and forward_request

\* select_upstream fails: the error ends in call, which records nothing.
NoUpstream(r) ==
  /\ num_upstreams = 0
  /\ Goto(r, "new", "done")
  /\ Answer(r, BadGateway)
  /\ UNCHANGED <<balancer, upstream, elapsed, transfer, metrics>>

ForwardToFirst(r) ==
  /\ num_upstreams > 0
  /\ Goto(r, "new", "waiting")
  /\ upstream' = [upstream EXCEPT ![r] = 1]
  /\ UNCHANGED <<balancer, elapsed, transfer, status, metrics>>

ForwardUnreduced(r) ==
  /\ num_upstreams > 0
  /\ next_upstream' = (next_upstream + 1) % CounterMod
  /\ upstream' = [upstream EXCEPT ![r] = next_upstream + 1]
  /\ Goto(r, "new", "waiting")
  /\ UNCHANGED <<num_upstreams, elapsed, transfer, status, metrics>>

Forward(r) ==
  /\ num_upstreams > 0
  /\ LET idx == next_upstream % num_upstreams
     IN  /\ next_upstream' = (next_upstream + 1) % CounterMod
         /\ upstream' = [upstream EXCEPT ![r] = idx + 1]
         /\ \/ /\ idx \in BadUpstreams
               /\ Goto(r, "new", "done")
               /\ RecordRequest(BadGateway)
               /\ Answer(r, BadGateway)
            \/ /\ idx \notin BadUpstreams
               /\ Goto(r, "new", "waiting")
               /\ UNCHANGED <<status, metrics>>
  /\ UNCHANGED <<num_upstreams, elapsed, transfer>>

\* The task is polled and finds the outcome of client.request: the response
\* headers (the body is streamed after the answer), or an error.
Answered(r) ==
  /\ reply[r] # None
  /\ Goto(r, "waiting", IF reply[r] = BadGateway THEN "done" ELSE "streaming")
  /\ RecordRequest(reply[r])
  /\ Answer(r, reply[r])
  /\ UNCHANGED <<balancer, upstream, elapsed, transfer>>

NeverTimedOut(r) == FALSE /\ UNCHANGED vars

\* timeout polls the request before its own timer, so a future that is ready wins
\* even when the deadline has passed; what is sent and not delivered is lost.
TimedOut(r) ==
  /\ reply[r] = None
  /\ elapsed[r] >= Timeout
  /\ Goto(r, "waiting", "done")
  /\ RecordRequest(GatewayTimeout)
  /\ Answer(r, GatewayTimeout)
  /\ UNCHANGED <<balancer, upstream, elapsed, transfer>>

-------------------------------------------------------------------------------
\* The environment: upstreams, clients and time

\* The upstream sends response headers, or its connection fails (BadGateway).
UpstreamReplies(r, code) ==
  /\ phase[r] = "waiting"
  /\ sent[r] = None /\ reply[r] = None
  /\ sent' = [sent EXCEPT ![r] = code]
  /\ UNCHANGED <<balancer, phase, upstream, elapsed, reply, status, metrics>>

\* The task of the upstream connection reads it and completes the future.
Deliver(r) ==
  /\ phase[r] = "waiting"
  /\ sent[r] # None
  /\ reply' = [reply EXCEPT ![r] = sent[r]]
  /\ sent' = [sent EXCEPT ![r] = None]
  /\ UNCHANGED <<balancer, phase, upstream, elapsed, status, metrics>>

\* The upstream ends the body, or fails while it is streamed.
BodyEnds(r) ==
  /\ Goto(r, "streaming", "done")
  /\ UNCHANGED <<balancer, upstream, elapsed, transfer, status, metrics>>

\* The client closes its connection and the future of the call is dropped.
ClientLeaves(r) ==
  /\ phase[r] \in {"waiting", "streaming"}
  /\ phase' = [phase EXCEPT ![r] = "gone"]
  /\ UNCHANGED <<balancer, upstream, elapsed, transfer, status, metrics>>

Tick ==
  /\ elapsed' = [r \in Requests |->
       IF phase[r] = "waiting" /\ elapsed[r] < Timeout
         THEN elapsed[r] + 1 ELSE elapsed[r]]
  /\ UNCHANGED <<balancer, phase, upstream, transfer, status, metrics>>

Poll(r) == Answered(r) \/ TimedOut(r)

Next ==
  \/ \E r \in Requests :
       \/ NoUpstream(r) \/ Forward(r) \/ Poll(r)
       \/ Deliver(r) \/ BodyEnds(r) \/ ClientLeaves(r)
       \/ \E code \in Statuses \cup {BadGateway} : UpstreamReplies(r, code)
  \/ Tick

Spec == Init /\ [][Next]_vars

\* The runtime polls a woken task, and time passes; upstreams and the tasks of their
\* connections owe nothing.
FairSpec == Spec /\ WF_vars(Tick) /\ \A r \in Requests : WF_vars(Poll(r))

-------------------------------------------------------------------------------
\* Properties

\* Every field holds a value of its Rust type; the index of a selected upstream
\* is one of upstream_addrs.
TypeOK ==
  /\ num_upstreams \in UpstreamCounts
  /\ next_upstream \in 0..(CounterMod - 1)
  /\ phase \in [Requests -> {"new", "waiting", "streaming", "done", "gone"}]
  /\ upstream \in [Requests -> 0..num_upstreams]
  /\ elapsed \in [Requests -> 0..Timeout]
  /\ sent \in [Requests -> {None, BadGateway} \cup Statuses]
  /\ reply \in [Requests -> {None, BadGateway} \cup Statuses]
  /\ status \in [Requests -> {None, BadGateway, GatewayTimeout} \cup Statuses]
  /\ requests_total \in Nat /\ errors_total \in Nat

ServedBy(u) == {r \in Requests : upstream[r] = u}

Selected == {r \in Requests : upstream[r] # None}

\* However the requests interleave, the loads of two upstreams differ by at most
\* one request (select_upstream, line 72), plus one for every time the counter
\* has wrapped around at a number that the upstreams need not divide.
RoundRobinBalanced ==
  LET periods == (Cardinality(Selected) + CounterMod - 1) \div CounterMod
  IN  \A u, v \in 1..num_upstreams :
        Cardinality(ServedBy(u)) <= Cardinality(ServedBy(v)) + periods

\* The metrics and the clients tell the same story: every answer of a request
\* that got an upstream is counted exactly once, and as an error exactly when
\* its status is one; requests whose client left first are not counted.
MetricsMatchAnswers ==
  LET counted == {r \in Selected : status[r] # None}
  IN  /\ requests_total = Cardinality(counted)
      /\ errors_total = Cardinality({r \in counted : status[r] >= 400})

\* Whatever its upstream does, every request that was forwarded is answered in
\* the end, unless its client leaves.
EveryRequestAnswered ==
  \A r \in Requests :
    phase[r] = "waiting" ~> status[r] # None \/ phase[r] = "gone"
===============================================================================
