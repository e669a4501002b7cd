----------------------------- MODULE LoadBalancer -----------------------------
(***************************************************************************)
(* The transport layer of src/transport.rs for one cluster name: selection *)
(* of an endpoint by tasks that run concurrently, the connection counts,   *)
(* the health flags, the breaker of each endpoint, and add_cluster, which  *)
(* replaces the balancer while tasks still use the old one.                *)
(*                                                                         *)
(* One step is one access to one shared field.  An operation of a breaker  *)
(* is one step too: what happens inside it is the subject of               *)
(* CircuitBreaker.  A caller selects, counts its connection, sends its     *)
(* request, records the outcome and releases the connection.               *)
(***************************************************************************)
EXTENDS Naturals, FiniteSets, SequencesExt

CONSTANTS
  Tasks,
  Plans,             \* sequences of calls of add_cluster: addresses and policy
  Callers,           \* the tasks that call, for each plan
  MayFlap,           \* the endpoints whose health is ever changed
  FailureThreshold,  \* of the breakers
  SuccessThreshold,
  IndexMod           \* the wrap-around of next_index

Policies == {"RoundRobin", "LeastConnections", "Random", "ConsistentHash"}

\* add_cluster takes any list of addresses: empty, or with an address twice.
ASSUME PlansAssumption ==
  /\ IsFiniteSet(Tasks)
  /\ \A p \in Plans : DOMAIN p = 1..Len(p)
  /\ \A p \in Plans : \A g \in DOMAIN p :
       /\ p[g].policy \in Policies
       /\ Len(p[g].addresses) \in Nat
       /\ DOMAIN p[g].addresses = 1..Len(p[g].addresses)
  /\ FailureThreshold \in Nat \ {0} /\ SuccessThreshold \in Nat \ {0}
  /\ IndexMod \in Nat \ {0}

VARIABLES
  current,     \* the balancer in the map of clusters, 0 for none
  plan,        \* the calls of add_cluster of this behaviour, each makes a balancer
  next_index,  \* of each balancer
  active_connections, healthy, circuit_breaker,  \* of each endpoint
  task,        \* the locals of each task
  usable       \* history: the endpoints fit for use ever since a selection began

balancer == <<current, plan, next_index>>
vars == <<balancer, active_connections, healthy, circuit_breaker, task, usable>>

Generations == DOMAIN plan
Policy(g) == plan[g].policy

\* An Arc<Endpoint>: the balancer it was made for, and its position there.
EndpointsOf(p) == UNION {{g} \X DOMAIN p[g].addresses : g \in DOMAIN p}
Endpoints == EndpointsOf(plan)
Address(e) == plan[e[1]].addresses[e[2]]
NoEndpoint == <<0, 0>>

NewBreaker == [state |-> "Closed", failures |-> 0, successes |-> 0, elapsed |-> FALSE]

\* lb is the balancer a task works with, i its position in the loop it is in, and
\* least the count of its endpoint as least_connections read it.
Idle ==
  [pc |-> "idle", lb |-> 0, i |-> 0, healthy_endpoints |-> <<>>,
   endpoint |-> NoEndpoint, least |-> 0]

Init ==
  /\ current = 0
  /\ plan \in Plans
  /\ next_index = [g \in Generations |-> 0]
  /\ active_connections = [e \in Endpoints |-> 0]
  /\ healthy = [e \in Endpoints |-> TRUE]
  /\ circuit_breaker = [e \in Endpoints |-> NewBreaker]
  /\ task = [t \in Tasks |-> Idle]
  /\ usable = [t \in Tasks |-> {}]

-------------------------------------------------------------------------------
\* The operations of a breaker, whole

Allows(b) == b.state # "Open" \/ b.elapsed

AllowRequest(b) ==
  IF b.state = "Open" /\ b.elapsed
  THEN [b EXCEPT !.state = "HalfOpen", !.successes = 0] ELSE b

RecordSuccess(b) ==
  CASE b.state = "HalfOpen" ->
         IF b.successes + 1 >= SuccessThreshold
         THEN [b EXCEPT !.state = "Closed", !.failures = 0, !.successes = 0]
         ELSE [b EXCEPT !.successes = @ + 1]
    [] b.state = "Closed" -> [b EXCEPT !.failures = 0]
    [] b.state = "Open" -> b

RecordFailure(b) ==
  CASE b.state = "Closed" ->
         IF b.failures + 1 >= FailureThreshold
         THEN [b EXCEPT !.state = "Open", !.failures = @ + 1, !.elapsed = FALSE]
         ELSE [b EXCEPT !.failures = @ + 1]
    [] b.state = "HalfOpen" -> [NewBreaker EXCEPT !.state = "Open"]
    [] b.state = "Open" -> [b EXCEPT !.elapsed = FALSE]

-------------------------------------------------------------------------------
\* select_endpoint and select

FitForUse(e) == healthy[e] /\ circuit_breaker[e].state # "Open"

\* A selection ends with an endpoint or with none.
Selected(t, e) ==
  task' = [task EXCEPT ![t] = [Idle EXCEPT !.pc = "selected", !.endpoint = e]]
SelectedNone(t) == task' = [task EXCEPT ![t] = [Idle EXCEPT !.pc = "none"]]

\* The balancers with an endpoint to filter.
Populated == {g \in Generations : Len(plan[g].addresses) > 0}

SelectEndpoint(t) ==
  /\ task[t].pc = "idle" /\ t \in Callers[plan]
  /\ \/ current \notin Populated /\ SelectedNone(t)
     \/ /\ current \in Populated
        /\ task' = [task EXCEPT ![t] = [Idle EXCEPT !.pc = "filter", !.lb = current, !.i = 1]]
  /\ usable' = [usable EXCEPT ![t] = {e \in Endpoints : e[1] = current /\ FitForUse(e)}]
  /\ UNCHANGED <<balancer, active_connections, healthy, circuit_breaker>>

\* The filter reads one health flag after the other.
Filter(t) ==
  LET e == <<task[t].lb, task[t].i>>
      found == task[t].healthy_endpoints \o IF healthy[e] THEN <<e>> ELSE <<>>
      last == task[t].i = Len(plan[task[t].lb].addresses)
  IN /\ task[t].pc = "filter"
     /\ \/ /\ ~last
           /\ task' = [task EXCEPT ![t].i = @ + 1, ![t].healthy_endpoints = found]
        \/ last /\ found = <<>> /\ SelectedNone(t)
        \/ /\ last /\ found # <<>>
           /\ task' = [task EXCEPT ![t].pc = "pick", ![t].i = 1,
                                   ![t].healthy_endpoints = found]
     /\ UNCHANGED <<balancer, active_connections, healthy, circuit_breaker, usable>>

Pick(t, e) ==
  /\ task[t].pc = "pick"
  /\ task' = [task EXCEPT ![t].pc = "ask", ![t].endpoint = e]
  /\ UNCHANGED <<current, plan, active_connections, healthy, circuit_breaker, usable>>

\* The index is taken modulo the number of all endpoints, healthy or not.
RoundRobinOverAll(t) ==
  LET g == task[t].lb
      idx == next_index[g] % Len(plan[g].addresses)
  IN /\ Pick(t, <<g, idx + 1>>)
     /\ Policy(g) \in {"RoundRobin", "ConsistentHash"}
     /\ next_index' = [next_index EXCEPT ![g] = (@ + 1) % IndexMod]

RoundRobinStanding(t) ==
  LET g == task[t].lb
      idx == next_index[g] % Len(task[t].healthy_endpoints)
  IN /\ Pick(t, task[t].healthy_endpoints[idx + 1])
     /\ Policy(g) \in {"RoundRobin", "ConsistentHash"}
     /\ UNCHANGED next_index

\* ConsistentHash falls back to round robin.
RoundRobin(t) ==
  LET g == task[t].lb
      idx == next_index[g] % Len(task[t].healthy_endpoints)
  IN /\ Pick(t, task[t].healthy_endpoints[idx + 1])
     /\ Policy(g) \in {"RoundRobin", "ConsistentHash"}
     /\ next_index' = [next_index EXCEPT ![g] = (@ + 1) % IndexMod]

\* min_by_key reads one count after the other and keeps the first of the least.
LeastConnections(t) ==
  LET e == task[t].healthy_endpoints[task[t].i]
      better == task[t].i = 1 \/ active_connections[e] < task[t].least
      best == IF better THEN e ELSE task[t].endpoint
  IN /\ task[t].pc = "pick"
     /\ Policy(task[t].lb) = "LeastConnections"
     /\ task' = IF task[t].i = Len(task[t].healthy_endpoints)
                THEN [task EXCEPT ![t].pc = "ask", ![t].endpoint = best, ![t].i = 1,
                                  ![t].least = 0]
                ELSE [task EXCEPT ![t].endpoint = best, ![t].i = @ + 1,
                        ![t].least = IF better THEN active_connections[e] ELSE @]
     /\ UNCHANGED <<balancer, active_connections, healthy, circuit_breaker, usable>>

Random(t) ==
  /\ \E e \in ToSet(task[t].healthy_endpoints) : Pick(t, e)
  /\ Policy(task[t].lb) = "Random"
  /\ UNCHANGED next_index

AskAndGiveUp(t) ==
  LET e == task[t].endpoint
      b == circuit_breaker[e]
  IN /\ task[t].pc = "ask"
     /\ IF Allows(b) THEN Selected(t, e) ELSE SelectedNone(t)
     /\ circuit_breaker' = [circuit_breaker EXCEPT ![e] = AllowRequest(b)]
     /\ UNCHANGED <<balancer, active_connections, healthy, usable>>

Ask(t) ==
  LET e == task[t].endpoint
      b == circuit_breaker[e]
  IN /\ task[t].pc = "ask"
     /\ IF Allows(b) THEN Selected(t, e) ELSE task' = [task EXCEPT ![t].pc = "fallback"]
     /\ circuit_breaker' = [circuit_breaker EXCEPT ![e] = AllowRequest(b)]
     /\ UNCHANGED <<balancer, active_connections, healthy, usable>>

\* One round of the loop over the other healthy endpoints.
Fallback(t) ==
  LET e == task[t].healthy_endpoints[task[t].i]
      b == circuit_breaker[e]
      asked == Address(e) # Address(task[t].endpoint)
      last == task[t].i = Len(task[t].healthy_endpoints)
  IN /\ task[t].pc = "fallback"
     /\ \/ asked /\ Allows(b) /\ Selected(t, e)
        \/ ~(asked /\ Allows(b)) /\ ~last /\ task' = [task EXCEPT ![t].i = @ + 1]
        \/ ~(asked /\ Allows(b)) /\ last /\ SelectedNone(t)
     /\ circuit_breaker' =
          [circuit_breaker EXCEPT ![e] = IF asked THEN AllowRequest(b) ELSE @]
     /\ UNCHANGED <<balancer, active_connections, healthy, usable>>

Select(t) ==
  \/ Filter(t) \/ RoundRobin(t) \/ LeastConnections(t) \/ Random(t)
  \/ Ask(t) \/ Fallback(t)

-------------------------------------------------------------------------------
\* The use of the selected endpoint, and the environment

\* What a selection could have used is what stays fit throughout.
StillUsable == usable' = [t \in Tasks |-> {e \in usable[t] : FitForUse(e)'}]

\* The caller learns that there is no endpoint.
GiveUp(t) ==
  /\ task[t].pc = "none"
  /\ task' = [task EXCEPT ![t] = Idle]
  /\ usable' = [usable EXCEPT ![t] = {}]
  /\ UNCHANGED <<balancer, active_connections, healthy, circuit_breaker>>

AcquireConnection(t) ==
  /\ task[t].pc = "selected"
  /\ task' = [task EXCEPT ![t].pc = "request"]
  /\ active_connections' = [active_connections EXCEPT ![task[t].endpoint] = @ + 1]
  /\ usable' = [usable EXCEPT ![t] = {}]
  /\ UNCHANGED <<balancer, healthy, circuit_breaker>>

Record(t, outcome) ==
  /\ task[t].pc = "request"
  /\ task' = [task EXCEPT ![t].pc = "release"]
  /\ circuit_breaker' = [circuit_breaker EXCEPT ![task[t].endpoint] = outcome]
  /\ UNCHANGED <<balancer, active_connections, healthy>>
  /\ StillUsable

RequestSucceeds(t) == Record(t, RecordSuccess(circuit_breaker[task[t].endpoint]))
RequestFails(t) == Record(t, RecordFailure(circuit_breaker[task[t].endpoint]))

\* The endpoint is looked up again by its address, in the balancer now in the map.
ReleaseByAddress(t) ==
  /\ task[t].pc = "release"
  /\ task' = [task EXCEPT ![t] = Idle]
  /\ active_connections' = [e \in Endpoints |->
       IF /\ e[1] = current /\ Address(e) = Address(task[t].endpoint)
          /\ active_connections[e] > 0
       THEN active_connections[e] - 1 ELSE active_connections[e]]
  /\ UNCHANGED <<balancer, healthy, circuit_breaker, usable>>

ReleaseConnection(t) ==
  /\ task[t].pc = "release"
  /\ task' = [task EXCEPT ![t] = Idle]
  /\ active_connections' = [active_connections EXCEPT ![task[t].endpoint] = @ - 1]
  /\ UNCHANGED <<balancer, healthy, circuit_breaker, usable>>

SetHealthy(e) ==
  /\ healthy' = [healthy EXCEPT ![e] = ~@]
  /\ UNCHANGED <<balancer, active_connections, circuit_breaker, task>>
  /\ StillUsable

\* The timeout of an open breaker is over.
TimeoutElapses(e) ==
  /\ circuit_breaker[e].state = "Open" /\ ~circuit_breaker[e].elapsed
  /\ circuit_breaker' = [circuit_breaker EXCEPT ![e].elapsed = TRUE]
  /\ UNCHANGED <<balancer, active_connections, healthy, task, usable>>

\* add_cluster builds a new balancer with new endpoints.
AddCluster ==
  /\ current + 1 \in Generations
  /\ current' = current + 1
  /\ UNCHANGED <<plan, next_index, active_connections, healthy, circuit_breaker,
                 task, usable>>

TaskStep(t) ==
  \/ SelectEndpoint(t) \/ Select(t) \/ GiveUp(t)
  \/ AcquireConnection(t) \/ RequestSucceeds(t) \/ RequestFails(t)
  \/ ReleaseConnection(t)

Next ==
  \/ \E t \in Tasks : TaskStep(t)
  \/ \E e \in MayFlap \cap Endpoints : SetHealthy(e)
  \/ \E e \in Endpoints : TimeoutElapses(e)
  \/ AddCluster

Spec == Init /\ [][Next]_vars

\* Callers keep sending requests, each of which ends, and the runtime polls them.
FairSpec == Spec /\ \A t \in Tasks : WF_vars(TaskStep(t))

-------------------------------------------------------------------------------
\* Properties

\* What a task holds comes from the balancer it works with and, while it selects,
\* from what it found healthy; positions and counts stay in range, the unsigned
\* count of connections included.
TypeOK ==
  /\ current \in {0} \cup Generations
  /\ plan \in Plans
  /\ next_index \in [Generations -> 0..(IndexMod - 1)]
  /\ active_connections \in [Endpoints -> 0..Cardinality(Tasks)]
  /\ healthy \in [Endpoints -> BOOLEAN]
  /\ circuit_breaker \in [Endpoints ->
       [state : {"Closed", "Open", "HalfOpen"}, failures : 0..FailureThreshold,
        successes : 0..(SuccessThreshold - 1), elapsed : BOOLEAN]]
  /\ usable \in [Tasks -> SUBSET Endpoints]
  /\ \A t \in Tasks :
       LET k == task[t]
       IN \/ k \in {Idle, [Idle EXCEPT !.pc = "none"]}
          \/ \E e \in Endpoints, at \in {"selected", "request", "release"} :
               k = [Idle EXCEPT !.pc = at, !.endpoint = e]
          \/ /\ k.lb \in 1..current
             /\ \A e \in ToSet(k.healthy_endpoints) : e \in Endpoints /\ e[1] = k.lb
             /\ \/ k.pc = "filter" /\ k.i \in DOMAIN plan[k.lb].addresses
                \/ k.pc = "pick" /\ k.i \in DOMAIN k.healthy_endpoints
                \/ /\ k.pc \in {"ask", "fallback"} /\ k.i \in DOMAIN k.healthy_endpoints
                   /\ k.endpoint \in ToSet(k.healthy_endpoints)

\* All of E have the address of one endpoint of their balancer that is not in E.
Shadowed(E) ==
  \/ E = {}
  \/ \E f \in Endpoints \ E : \A e \in E : e[1] = f[1] /\ Address(e) = Address(f)

\* select answers None only if no endpoint was usable throughout: one that stayed
\* healthy and whose breaker was not open is found, whatever the policy chose and
\* whatever other tasks did between the filter, the choice and the fallback.  The
\* one exception is an address that add_cluster was given twice: the fallback loop
\* compares addresses, so it passes over every namesake of the endpoint it refused.
UsableIsFound == \A t \in Tasks : task[t].pc = "none" => Shadowed(usable[t])

\* The count that least_connections compares is the number of requests under way
\* at the endpoint, also after add_cluster has replaced its balancer.
ConnectionsExact ==
  \A e \in Endpoints :
    active_connections[e] =
      Cardinality({t \in Tasks : /\ task[t].pc \in {"request", "release"}
                                 /\ task[t].endpoint = e})

CutOff(e) ==
  /\ e \in Endpoints
  /\ current = e[1] /\ Policy(current) \in {"RoundRobin", "ConsistentHash"}
  /\ healthy[e]
  /\ circuit_breaker[e].state = "Open" /\ circuit_breaker[e].elapsed

\* With round robin an endpoint that is cut off is asked again once its timeout is
\* over, as long as it is healthy and its balancer is in use, provided that health
\* flags stop changing: next_index is taken modulo the length of a list that every
\* change makes longer or shorter, and flags that change in step with it can keep
\* the choice away from one endpoint for ever.
CutOffIsProbed ==
  <>[][healthy' = healthy]_vars =>
    \A e \in UNION {EndpointsOf(p) : p \in Plans} : []<>~CutOff(e)
===============================================================================
