-------------------------- MODULE LoadBalancer_proofs --------------------------
(***************************************************************************)
(* What is proved about the transport layer, for any number of tasks, any  *)
(* clusters and policies, any sequence of replacements and any thresholds. *)
(***************************************************************************)
EXTENDS LoadBalancer, FiniteSetTheorems, TLAPS

Busy == {"request", "release"}

\* The requests under way at an endpoint
Using(e) == {t \in Tasks : task[t].pc \in Busy /\ task[t].endpoint = e}

Fields == {"pc", "lb", "i", "healthy_endpoints", "endpoint", "least"}

Breaker(b) ==
  /\ DOMAIN b = {"state", "failures", "successes", "elapsed"}
  /\ b.state \in {"Closed", "Open", "HalfOpen"}

Shapes ==
  /\ DOMAIN task = Tasks /\ \A t \in Tasks : DOMAIN task[t] = Fields
  /\ DOMAIN active_connections = Endpoints
  /\ DOMAIN circuit_breaker = Endpoints
  /\ \A e \in Endpoints : Breaker(circuit_breaker[e])

Exact == \A e \in Endpoints : active_connections[e] = Cardinality(Using(e))

Inv == Shapes /\ Exact

LEMMA UsingFinite ==
  ASSUME NEW e
  PROVE  IsFiniteSet(Using(e)) /\ Cardinality(Using(e)) \in Nat
BY PlansAssumption, FS_Subset, FS_CardinalityType DEF Using

LEMMA InvInit == Init => Inv
<1> SUFFICES ASSUME Init PROVE Inv
  OBVIOUS
<1>1. Shapes
  BY DEF Init, Shapes, Idle, Fields, NewBreaker, Breaker
<1>2. \A e : Using(e) = {}
  BY DEF Init, Using, Idle, Busy
<1> QED BY <1>1, <1>2, FS_EmptySet DEF Inv, Exact, Init

\* A breaker stays one, whatever is asked of it or recorded.
LEMMA BreakerOperations ==
  ASSUME NEW b, Breaker(b)
  PROVE  /\ Breaker(AllowRequest(b)) /\ Breaker(RecordSuccess(b))
         /\ Breaker(RecordFailure(b))
<1>1. Breaker(AllowRequest(b))
  BY DEF AllowRequest, Breaker
<1>2. CASE b.state = "Closed"
  BY <1>1, <1>2 DEF RecordSuccess, RecordFailure, Breaker
<1>3. CASE b.state = "Open"
  BY <1>1, <1>3 DEF RecordSuccess, RecordFailure, Breaker
<1>4. CASE b.state = "HalfOpen"
  <2>1. Breaker(RecordFailure(b))
    BY <1>4 DEF RecordFailure, NewBreaker, Breaker
  <2>2. Breaker(RecordSuccess(b))
    BY <1>4 DEF RecordSuccess, Breaker
  <2> QED BY <1>1, <1>4, <2>1, <2>2
<1> QED BY <1>2, <1>3, <1>4 DEF Breaker

\* What a step of selection does to the task that takes it: it has no connection
\* before and none after.
Searches(t) ==
  /\ task[t].pc \notin Busy /\ task'[t].pc \notin Busy
  /\ DOMAIN task' = Tasks /\ DOMAIN task'[t] = Fields
  /\ \A u \in Tasks \ {t} : task'[u] = task[u]

LEMMA SearchKeepsExact ==
  ASSUME Inv, NEW t \in Tasks, Searches(t), plan' = plan,
         active_connections' = active_connections
  PROVE  Exact' /\ DOMAIN task' = Tasks /\ \A u \in Tasks : DOMAIN task'[u] = Fields
<1>1. Endpoints' = Endpoints
  BY DEF Endpoints
<1>2. \A e : Using(e)' = Using(e)
  BY DEF Using, Searches
<1> QED BY <1>1, <1>2 DEF Inv, Shapes, Exact, Searches

LEMMA SelectedIsSearch ==
  ASSUME Inv, NEW t \in Tasks, task[t].pc \notin Busy,
         SelectedNone(t) \/ \E e : Selected(t, e)
  PROVE  Searches(t)
BY DEF Inv, Shapes, Searches, SelectedNone, Selected, Idle, Fields, Busy

\* Every step of select_endpoint and select is a search.
LEMMA SelectSearches ==
  ASSUME Inv, NEW t \in Tasks, SelectEndpoint(t) \/ Select(t) \/ GiveUp(t)
  PROVE  Searches(t) /\ plan' = plan /\ active_connections' = active_connections
<1>1. plan' = plan /\ active_connections' = active_connections
  BY DEF SelectEndpoint, Select, GiveUp, Filter, RoundRobin, LeastConnections, Random,
     Pick, Ask, Fallback, balancer
<1> SUFFICES Searches(t)
  BY <1>1
<1>2. CASE SelectEndpoint(t)
  <2>1. CASE SelectedNone(t)
    BY <1>2, <2>1, SelectedIsSearch DEF SelectEndpoint, Busy
  <2>2. CASE task' = [task EXCEPT ![t] =
                        [Idle EXCEPT !.pc = "filter", !.lb = current, !.i = 1]]
    BY <1>2, <2>2 DEF SelectEndpoint, Inv, Shapes, Searches, Idle, Fields, Busy
  <2> QED BY <1>2, <2>1, <2>2 DEF SelectEndpoint
<1>3. CASE GiveUp(t)
  BY <1>3 DEF GiveUp, Inv, Shapes, Searches, Idle, Fields, Busy
<1>4. CASE Filter(t)
  <2>1. task[t].pc = "filter"
    BY <1>4 DEF Filter
  <2>2. CASE SelectedNone(t)
    BY <2>1, <2>2, SelectedIsSearch DEF Busy
  <2>3. CASE \E found : task' = [task EXCEPT ![t].i = @ + 1, ![t].healthy_endpoints = found]
    BY <2>1, <2>3 DEF Inv, Shapes, Searches, Fields, Busy
  <2>4. CASE \E found : task' = [task EXCEPT ![t].pc = "pick", ![t].i = 1,
                                             ![t].healthy_endpoints = found]
    BY <2>1, <2>4 DEF Inv, Shapes, Searches, Fields, Busy
  <2> QED BY <1>4, <2>2, <2>3, <2>4 DEF Filter
<1>5. ASSUME NEW e, Pick(t, e) PROVE Searches(t)
  BY <1>5 DEF Pick, Inv, Shapes, Searches, Fields, Busy
<1>6. CASE RoundRobin(t) \/ Random(t)
  BY <1>5, <1>6 DEF RoundRobin, Random
<1>7. CASE LeastConnections(t)
  <2>1. task[t].pc = "pick"
    BY <1>7 DEF LeastConnections
  <2>2. CASE \E best : task' = [task EXCEPT ![t].pc = "ask", ![t].endpoint = best,
                                            ![t].i = 1, ![t].least = 0]
    BY <2>1, <2>2 DEF Inv, Shapes, Searches, Fields, Busy
  <2>3. CASE \E best, n : task' = [task EXCEPT ![t].endpoint = best, ![t].i = @ + 1,
                                               ![t].least = n]
    BY <2>1, <2>3 DEF Inv, Shapes, Searches, Fields, Busy
  <2> QED BY <1>7, <2>2, <2>3 DEF LeastConnections
<1>8. CASE Ask(t)
  <2>1. task[t].pc = "ask"
    BY <1>8 DEF Ask
  <2>2. CASE Selected(t, task[t].endpoint)
    BY <2>1, <2>2, SelectedIsSearch DEF Busy
  <2>3. CASE task' = [task EXCEPT ![t].pc = "fallback"]
    BY <2>1, <2>3 DEF Inv, Shapes, Searches, Fields, Busy
  <2> QED BY <1>8, <2>2, <2>3 DEF Ask
<1>9. CASE Fallback(t)
  <2>1. task[t].pc = "fallback"
    BY <1>9 DEF Fallback
  <2>2. CASE SelectedNone(t) \/ \E e : Selected(t, e)
    BY <2>1, <2>2, SelectedIsSearch DEF Busy
  <2>3. CASE task' = [task EXCEPT ![t].i = @ + 1]
    BY <2>1, <2>3 DEF Inv, Shapes, Searches, Fields, Busy
  <2> QED BY <1>9, <2>2, <2>3 DEF Fallback
<1> QED BY <1>2, <1>3, <1>4, <1>6, <1>7, <1>8, <1>9 DEF Select

\* What a step does to the breakers: nothing, or one operation on one of them.
LEMMA BreakersKept ==
  ASSUME Inv, NEW f, NEW b, plan' = plan,
         \/ circuit_breaker' = circuit_breaker
         \/ /\ circuit_breaker' = [circuit_breaker EXCEPT ![f] = b]
            /\ f \in Endpoints => Breaker(b)
  PROVE  /\ DOMAIN circuit_breaker' = Endpoints'
         /\ \A e \in Endpoints' : Breaker(circuit_breaker'[e])
<1>1. Endpoints' = Endpoints
  BY DEF Endpoints
<1>2. ASSUME NEW e \in Endpoints PROVE Breaker(circuit_breaker'[e])
  BY DEF Inv, Shapes
<1> QED BY <1>1, <1>2 DEF Inv, Shapes

LEMMA SelectKeeps ==
  ASSUME Inv, NEW t \in Tasks, SelectEndpoint(t) \/ Select(t) \/ GiveUp(t)
  PROVE  Inv'
<1>1. /\ Exact' /\ DOMAIN task' = Tasks /\ \A u \in Tasks : DOMAIN task'[u] = Fields
      /\ plan' = plan /\ active_connections' = active_connections
  BY SelectSearches, SearchKeepsExact
<1>2. \/ circuit_breaker' = circuit_breaker
      \/ \E f : circuit_breaker' = [circuit_breaker EXCEPT ![f] =
                                      AllowRequest(circuit_breaker[f])]
      \/ \E f : circuit_breaker' = [circuit_breaker EXCEPT ![f] = circuit_breaker[f]]
  <2>1. CASE Ask(t)
    BY <2>1 DEF Ask
  <2>2. CASE Fallback(t)
    BY <2>2 DEF Fallback
  <2>3. CASE SelectEndpoint(t) \/ GiveUp(t) \/ Filter(t) \/ RoundRobin(t)
             \/ LeastConnections(t) \/ Random(t)
    BY <2>3 DEF SelectEndpoint, GiveUp, Filter, RoundRobin, LeastConnections, Random, Pick
  <2> QED BY <2>1, <2>2, <2>3 DEF Select
<1>3. \A f \in Endpoints : /\ Breaker(circuit_breaker[f])
                           /\ Breaker(AllowRequest(circuit_breaker[f]))
  BY BreakerOperations DEF Inv, Shapes
<1>4. /\ DOMAIN circuit_breaker' = Endpoints'
      /\ \A e \in Endpoints' : Breaker(circuit_breaker'[e])
  BY <1>1, <1>2, <1>3, BreakersKept
<1>5. Endpoints' = Endpoints
  BY <1>1 DEF Endpoints
<1> QED BY <1>1, <1>4, <1>5 DEF Inv, Shapes

\* A connection is counted when it is taken and when it is given back.
LEMMA AcquireKeeps ==
  ASSUME Inv, NEW t \in Tasks, AcquireConnection(t)
  PROVE  Inv'
<1>0. PICK f : f = task[t].endpoint
  OBVIOUS
<1>1. /\ task[t].pc = "selected" /\ task' = [task EXCEPT ![t].pc = "request"]
      /\ active_connections' = [active_connections EXCEPT ![f] = @ + 1]
      /\ circuit_breaker' = circuit_breaker /\ plan' = plan /\ Endpoints' = Endpoints
  BY <1>0 DEF AcquireConnection, balancer, Endpoints
<1>2. Using(f)' = Using(f) \cup {t} /\ t \notin Using(f)
  BY <1>0, <1>1 DEF Using, Busy, Inv, Shapes, Fields
<1>3. ASSUME NEW e, e # f PROVE Using(e)' = Using(e)
  BY <1>0, <1>1, <1>3 DEF Using, Busy, Inv, Shapes, Fields
<1>4. Cardinality(Using(f)') = Cardinality(Using(f)) + 1
  BY <1>2, UsingFinite, FS_AddElement
<1>5. Shapes'
  BY <1>1 DEF Inv, Shapes, Breaker, Fields
<1>6. Exact'
  BY <1>1, <1>3, <1>4 DEF Inv, Shapes, Exact
<1> QED BY <1>5, <1>6 DEF Inv

LEMMA ReleaseKeeps ==
  ASSUME Inv, NEW t \in Tasks, ReleaseConnection(t)
  PROVE  Inv'
<1>0. PICK f : f = task[t].endpoint
  OBVIOUS
<1>1. /\ task[t].pc = "release" /\ task' = [task EXCEPT ![t] = Idle]
      /\ active_connections' = [active_connections EXCEPT ![f] = @ - 1]
      /\ circuit_breaker' = circuit_breaker /\ plan' = plan /\ Endpoints' = Endpoints
  BY <1>0 DEF ReleaseConnection, balancer, Endpoints
<1>2. Using(f)' = Using(f) \ {t} /\ t \in Using(f)
  BY <1>0, <1>1 DEF Using, Busy, Inv, Shapes, Idle
<1>3. ASSUME NEW e, e # f PROVE Using(e)' = Using(e)
  BY <1>0, <1>1, <1>3 DEF Using, Busy, Inv, Shapes, Idle
<1>4. Cardinality(Using(f)') = Cardinality(Using(f)) - 1
  BY <1>2, UsingFinite, FS_RemoveElement
<1>5. Shapes'
  BY <1>1 DEF Inv, Shapes, Breaker, Fields, Idle
<1>6. Exact'
  BY <1>1, <1>3, <1>4 DEF Inv, Shapes, Exact
<1> QED BY <1>5, <1>6 DEF Inv

LEMMA RecordKeeps ==
  ASSUME Inv, NEW t \in Tasks, RequestSucceeds(t) \/ RequestFails(t)
  PROVE  Inv'
<1> DEFINE f == task[t].endpoint
<1>1. PICK b : /\ b \in {RecordSuccess(circuit_breaker[f]), RecordFailure(circuit_breaker[f])}
               /\ Record(t, b)
  BY DEF RequestSucceeds, RequestFails
<1>2. /\ task[t].pc = "request" /\ task' = [task EXCEPT ![t].pc = "release"]
      /\ active_connections' = active_connections
      /\ circuit_breaker' = [circuit_breaker EXCEPT ![f] = b]
      /\ plan' = plan /\ Endpoints' = Endpoints
  BY <1>1 DEF Record, balancer, Endpoints
<1>3. f \in Endpoints => Breaker(b)
  BY <1>1, BreakerOperations DEF Inv, Shapes
<1>4. \A e : Using(e)' = Using(e)
  BY <1>2 DEF Using, Busy, Inv, Shapes, Fields
<1> HIDE DEF f
<1>5. /\ DOMAIN circuit_breaker' = Endpoints'
      /\ \A e \in Endpoints' : Breaker(circuit_breaker'[e])
  BY <1>2, <1>3, BreakersKept
<1>6. DOMAIN task' = Tasks /\ \A u \in Tasks : DOMAIN task'[u] = Fields
  BY <1>2 DEF Inv, Shapes, Fields
<1> QED BY <1>2, <1>4, <1>5, <1>6 DEF Inv, Shapes, Exact

\* Health, time and the replacement of a cluster touch no connection.
LEMMA EnvironmentKeeps ==
  ASSUME Inv, \/ \E e \in Endpoints : SetHealthy(e) \/ TimeoutElapses(e)
              \/ AddCluster
              \/ UNCHANGED vars
  PROVE  Inv'
<1>1. /\ task' = task /\ active_connections' = active_connections
      /\ plan' = plan /\ Endpoints' = Endpoints
  BY DEF SetHealthy, TimeoutElapses, AddCluster, vars, balancer, Endpoints
<1>2. \A e : Using(e)' = Using(e)
  BY <1>1 DEF Using
<1>3. \/ circuit_breaker' = circuit_breaker
      \/ \E f \in Endpoints :
           circuit_breaker' = [circuit_breaker EXCEPT ![f].elapsed = TRUE]
  BY DEF SetHealthy, TimeoutElapses, AddCluster, vars
<1>4. \A e \in Endpoints : Breaker([circuit_breaker[e] EXCEPT !.elapsed = TRUE])
  BY DEF Inv, Shapes, Breaker
<1>5. /\ DOMAIN circuit_breaker' = Endpoints'
      /\ \A e \in Endpoints' : Breaker(circuit_breaker'[e])
  BY <1>1, <1>3, <1>4, BreakersKept
<1> QED BY <1>1, <1>2, <1>5 DEF Inv, Shapes, Exact

LEMMA InvStep == Inv /\ [Next]_vars => Inv'
BY SelectKeeps, AcquireKeeps, ReleaseKeeps, RecordKeeps, EnvironmentKeeps
   DEF Next, TaskStep

LEMMA InvAlways == Spec => []Inv
BY InvInit, InvStep, PTL DEF Spec


\* The count that least_connections compares is the number of requests under way
\* at the endpoint, for any number of tasks and any sequence of replacements of
\* the cluster; with it, the unsigned count never goes below zero.
THEOREM CountsAreExact == Spec => []ConnectionsExact
<1>1. Inv => ConnectionsExact
  BY DEF Inv, Exact, Using, Busy, ConnectionsExact
<1> QED BY <1>1, InvAlways, PTL

-------------------------------------------------------------------------------
\* What a selection has found.  k stands for the locals of a task and U for the
\* endpoints that were fit for use ever since its selection began.

Members(g) == {g} \X (1..Len(plan[g].addresses))
Found(k) == {k.healthy_endpoints[j] : j \in 1..Len(k.healthy_endpoints)}
Choosing == {"pick", "ask", "fallback"}

\* While it selects, what is usable belongs to its balancer and is fit for use.
Sound(k, U) ==
  k.pc \in {"filter"} \cup Choosing =>
    /\ k.lb \in Generations
    /\ k.healthy_endpoints \in Seq(Members(k.lb))
    /\ \A e \in U : e \in Members(k.lb) /\ FitForUse(e)

\* The filter has not lost a usable endpoint, nor has anything after it.
Complete(k, U) ==
  /\ k.pc = "none" => Shadowed(U)
  /\ k.pc = "filter" => /\ k.i \in 1..Len(plan[k.lb].addresses)
                        /\ \A e \in U : e[2] < k.i => e \in Found(k)
  /\ k.pc \in Choosing => U \subseteq Found(k) /\ k.i \in 1..Len(k.healthy_endpoints)

\* The choice is one of what was found; the fallback loop has left behind only
\* endpoints that were not usable and namesakes of the refused one.
Chosen(k, U) ==
  /\ k.pc = "pick" /\ Policy(k.lb) # "LeastConnections" => k.i = 1
  /\ k.pc = "pick" /\ k.i # 1 => k.endpoint \in Found(k)
  /\ k.pc = "ask" => k.i = 1
  /\ k.pc \in {"ask", "fallback"} => k.endpoint \in Found(k)
  /\ k.pc = "fallback" => /\ k.endpoint \notin U
                          /\ \A j \in 1..(k.i - 1) :
                               k.healthy_endpoints[j] \in U =>
                                 Address(k.healthy_endpoints[j]) = Address(k.endpoint)

SelectionOK(k, U) == Sound(k, U) /\ Complete(k, U) /\ Chosen(k, U)

Balancers ==
  /\ plan \in Plans
  /\ current \in {0} \cup Generations
  /\ DOMAIN next_index = Generations /\ \A g \in Generations : next_index[g] \in Nat
  /\ DOMAIN usable = Tasks /\ \A t \in Tasks : usable[t] \subseteq Endpoints

SelInv == Inv /\ Balancers /\ \A t \in Tasks : SelectionOK(task[t], usable[t])

LEMMA SelInit == Init => Balancers /\ \A t \in Tasks : SelectionOK(task[t], usable[t])
BY DEF Init, Balancers, SelectionOK, Sound, Complete, Chosen, Choosing, Idle, Generations

LEMMA AddressesOK ==
  ASSUME Balancers, NEW g \in Generations
  PROVE  /\ Len(plan[g].addresses) \in Nat
         /\ DOMAIN plan[g].addresses = 1..Len(plan[g].addresses)
BY PlansAssumption DEF Balancers, Generations

\* A selection is not disturbed when its task does nothing and what it may use
\* only becomes less.
LEMMA UndisturbedSelection ==
  ASSUME NEW t \in Tasks, SelectionOK(task[t], usable[t]), plan' = plan,
         task'[t] = task[t], usable'[t] \subseteq usable[t],
         \A e \in usable'[t] : FitForUse(e) => FitForUse(e)'
  PROVE  SelectionOK(task[t], usable[t])'
<1>1. Sound(task[t], usable[t])'
  BY DEF SelectionOK, Sound, Generations, Members
<1>2. Shadowed(usable[t]) => Shadowed(usable[t])'
  BY DEF Shadowed, Endpoints, Address
<1>3. Complete(task[t], usable[t])'
  BY <1>2 DEF SelectionOK, Complete, Found
<1>4. Chosen(task[t], usable[t])'
  BY DEF SelectionOK, Chosen, Found, Policy, Address
<1> QED BY <1>1, <1>3, <1>4 DEF SelectionOK

\* A task that is not selecting has nothing to lose.
LEMMA NoSelection ==
  ASSUME NEW t \in Tasks,
         \/ task'[t].pc \in {"idle", "selected", "request", "release"}
         \/ task'[t].pc = "none" /\ Shadowed(usable[t])'
  PROVE  SelectionOK(task[t], usable[t])'
BY DEF SelectionOK, Sound, Complete, Chosen, Choosing

\* Nothing that a selection does takes away from what is fit for use.
LEMMA SelectKeepsFit ==
  ASSUME SelInv, NEW t \in Tasks, SelectEndpoint(t) \/ Select(t) \/ GiveUp(t)
  PROVE  \A e \in Endpoints : FitForUse(e) => FitForUse(e)'
<1>1. healthy' = healthy
  BY DEF SelectEndpoint, Select, GiveUp, Filter, RoundRobin, LeastConnections, Random, Pick,
     Ask, Fallback
<1>2. CASE circuit_breaker' = circuit_breaker
  BY <1>1, <1>2 DEF FitForUse
<1>3. CASE \E f : circuit_breaker' = [circuit_breaker EXCEPT ![f] =
                                        AllowRequest(circuit_breaker[f])]
  BY <1>1, <1>3 DEF FitForUse, AllowRequest, SelInv, Inv, Shapes
<1>4. CASE \E f : circuit_breaker' = [circuit_breaker EXCEPT ![f] = circuit_breaker[f]]
  BY <1>1, <1>4 DEF FitForUse, SelInv, Inv, Shapes
<1>5. CASE Ask(t)
  BY <1>3, <1>5 DEF Ask
<1>6. CASE Fallback(t)
  BY <1>3, <1>4, <1>6 DEF Fallback
<1>7. CASE SelectEndpoint(t) \/ GiveUp(t) \/ Filter(t) \/ RoundRobin(t)
           \/ LeastConnections(t) \/ Random(t)
  BY <1>2, <1>7
     DEF SelectEndpoint, GiveUp, Filter, RoundRobin, LeastConnections, Random, Pick
<1> QED BY <1>5, <1>6, <1>7 DEF Select

LEMMA MembersAreEndpoints ==
  ASSUME Balancers, NEW g \in Generations
  PROVE  Members(g) \subseteq Endpoints
BY AddressesOK DEF Members, Endpoints, EndpointsOf, Generations

\* The locals of a task that goes on with its selection; the rest follows.
LEMMA SelectionGoesOn ==
  ASSUME SelInv, NEW t \in Tasks, Select(t),
         task[t].pc \in {"filter"} \cup Choosing,
         task'[t].pc \in {"filter"} \cup Choosing, task'[t].lb = task[t].lb,
         task'[t].healthy_endpoints \in Seq(Members(task[t].lb))
  PROVE  /\ plan' = plan /\ usable' = usable
         /\ Sound(task[t], usable[t])'
<1>1. plan' = plan /\ usable' = usable
  BY DEF Select, Filter, RoundRobin, LeastConnections, Random, Pick, Ask, Fallback, balancer
<1>2. /\ task[t].lb \in Generations
      /\ \A e \in usable[t] : e \in Members(task[t].lb) /\ FitForUse(e)
  BY DEF SelInv, SelectionOK, Sound
<1>3. \A e \in usable[t] : FitForUse(e)'
  BY <1>2, SelectKeepsFit, MembersAreEndpoints DEF SelInv
<1> QED BY <1>1, <1>2, <1>3 DEF Sound, Members, Generations

LEMMA FilterKeepsSelection ==
  ASSUME SelInv, NEW t \in Tasks, Filter(t)
  PROVE  SelectionOK(task[t], usable[t])'
<1>1. PICK k : k = task[t]
  OBVIOUS
<1>2. PICK e : e = <<k.lb, k.i>>
  OBVIOUS
<1>3. PICK found : found = k.healthy_endpoints \o IF healthy[e] THEN <<e>> ELSE <<>>
  OBVIOUS
<1>4. PICK n : n = Len(plan[k.lb].addresses)
  OBVIOUS
<1>5. /\ k.pc = "filter" /\ k.lb \in Generations
      /\ k.healthy_endpoints \in Seq(Members(k.lb))
      /\ \A f \in usable[t] : f \in Members(k.lb) /\ FitForUse(f)
      /\ k.i \in 1..n /\ n \in Nat
      /\ \A f \in usable[t] : f[2] < k.i => f \in Found(k)
      /\ Select(t) /\ usable' = usable /\ plan' = plan
      /\ DOMAIN task = Tasks /\ DOMAIN k = Fields
  BY <1>1, <1>4, AddressesOK
     DEF Filter, Select, SelInv, Inv, Shapes, SelectionOK, Sound, Complete, balancer
<1>6. e \in Members(k.lb)
  BY <1>2, <1>4, <1>5 DEF Members
<1>7. /\ found \in Seq(Members(k.lb))
      /\ \A f \in Found(k) : \E j \in 1..Len(found) : found[j] = f
      /\ healthy[e] => \E j \in 1..Len(found) : found[j] = e
  <2>1. CASE healthy[e]
    <3>1. /\ found \in Seq(Members(k.lb)) /\ Len(found) = Len(k.healthy_endpoints) + 1
          /\ found[Len(found)] = e
          /\ \A j \in 1..Len(k.healthy_endpoints) : found[j] = k.healthy_endpoints[j]
      BY <1>3, <1>5, <1>6, <2>1
    <3>2. Len(k.healthy_endpoints) \in Nat
      BY <1>5
    <3> QED BY <3>1, <3>2 DEF Found
  <2>2. CASE ~healthy[e]
    <3>1. found = k.healthy_endpoints
      BY <1>3, <1>5, <2>2
    <3> QED BY <1>5, <2>2, <3>1 DEF Found
  <2> QED BY <2>1, <2>2
<1>8. \A f \in usable[t] : f[2] < k.i + 1 => \E j \in 1..Len(found) : found[j] = f
  <2> SUFFICES ASSUME NEW f \in usable[t], f[2] < k.i + 1
               PROVE  \E j \in 1..Len(found) : found[j] = f
    OBVIOUS
  <2>1. f \in {k.lb} \X (1..n) /\ healthy[f]
    BY <1>4, <1>5 DEF Members, FitForUse
  <2>2. CASE f[2] < k.i
    BY <1>5, <1>7, <2>2
  <2>3. CASE ~(f[2] < k.i)
    <3>1. f[2] = k.i /\ f = e
      BY <1>2, <1>5, <2>1, <2>3
    <3> QED BY <1>7, <2>1, <3>1
  <2> QED BY <2>2, <2>3
<1>9. CASE k.i # n /\ task' = [task EXCEPT ![t].i = @ + 1, ![t].healthy_endpoints = found]
  <2>1. /\ task'[t].pc = "filter" /\ task'[t].lb = k.lb /\ task'[t].i = k.i + 1
        /\ task'[t].healthy_endpoints = found
    BY <1>1, <1>5, <1>9 DEF Fields
  <2>2. Sound(task[t], usable[t])'
    BY <1>1, <1>5, <1>7, <2>1, SelectionGoesOn
  <2>3. Complete(task[t], usable[t])'
    BY <1>4, <1>5, <1>8, <1>9, <2>1 DEF Complete, Found, Choosing
  <2>4. Chosen(task[t], usable[t])'
    BY <2>1 DEF Chosen
  <2> QED BY <2>2, <2>3, <2>4 DEF SelectionOK
<1>10. CASE k.i = n
  <2>1. \A f \in usable[t] : \E j \in 1..Len(found) : found[j] = f
    <3>1. \A f \in usable[t] : f[2] < k.i + 1
      BY <1>4, <1>5, <1>10 DEF Members
    <3> QED BY <1>8, <3>1
  <2>2. CASE found = <<>> /\ SelectedNone(t)
    <3>1. usable[t] = {}
      BY <2>1, <2>2
    <3>2. task'[t].pc = "none"
      BY <1>5, <2>2 DEF SelectedNone, Idle
    <3> QED BY <1>5, <3>1, <3>2, NoSelection DEF Shadowed
  <2>3. CASE found # <<>> /\ task' = [task EXCEPT ![t].pc = "pick", ![t].i = 1,
                                                  ![t].healthy_endpoints = found]
    <3>1. /\ task'[t].pc = "pick" /\ task'[t].lb = k.lb /\ task'[t].i = 1
          /\ task'[t].healthy_endpoints = found
      BY <1>1, <1>5, <2>3 DEF Fields
    <3>2. Sound(task[t], usable[t])'
      BY <1>1, <1>5, <1>7, <3>1, SelectionGoesOn DEF Choosing
    <3>3. 1 \in 1..Len(found)
      BY <1>7, <2>3
    <3>4. Complete(task[t], usable[t])'
      BY <1>5, <2>1, <3>1, <3>3 DEF Complete, Found, Choosing
    <3>5. Chosen(task[t], usable[t])'
      BY <3>1 DEF Chosen
    <3> QED BY <3>2, <3>4, <3>5 DEF SelectionOK
  <2> QED BY <1>1, <1>2, <1>3, <1>4, <1>10, <2>2, <2>3 DEF Filter
<1> QED BY <1>1, <1>2, <1>3, <1>4, <1>5, <1>9, <1>10 DEF Filter

LEMMA PickKeepsSelection ==
  ASSUME SelInv, NEW t \in Tasks, NEW e \in Found(task[t]), Select(t), Pick(t, e),
         task[t].i = 1
  PROVE  SelectionOK(task[t], usable[t])'
<1>1. PICK k : k = task[t]
  OBVIOUS
<1>2. /\ k.pc = "pick" /\ k.i = 1 /\ SelectionOK(k, usable[t])
      /\ DOMAIN task = Tasks /\ DOMAIN k = Fields
      /\ task' = [task EXCEPT ![t].pc = "ask", ![t].endpoint = e]
      /\ usable' = usable
  BY <1>1 DEF SelInv, Inv, Shapes, Pick
<1>3. /\ task'[t].pc = "ask" /\ task'[t].lb = k.lb /\ task'[t].i = 1
      /\ task'[t].healthy_endpoints = k.healthy_endpoints /\ task'[t].endpoint = e
  BY <1>1, <1>2 DEF Fields
<1>4. /\ k.healthy_endpoints \in Seq(Members(k.lb)) /\ usable[t] \subseteq Found(k)
      /\ 1 \in 1..Len(k.healthy_endpoints)
  BY <1>2 DEF SelectionOK, Sound, Complete, Choosing
<1>5. Sound(task[t], usable[t])'
  BY <1>1, <1>2, <1>3, <1>4, SelectionGoesOn DEF Choosing
<1>6. Complete(task[t], usable[t])'
  BY <1>2, <1>3, <1>4 DEF Complete, Found, Choosing
<1>7. Chosen(task[t], usable[t])'
  BY <1>1, <1>3 DEF Chosen, Found
<1> QED BY <1>5, <1>6, <1>7 DEF SelectionOK

LEMMA RoundRobinKeepsSelection ==
  ASSUME SelInv, NEW t \in Tasks, RoundRobin(t) \/ Random(t)
  PROVE  SelectionOK(task[t], usable[t])'
<1>1. PICK h : h = task[t].healthy_endpoints
  OBVIOUS
<1>2. /\ task[t].pc = "pick" /\ Policy(task[t].lb) # "LeastConnections" /\ Select(t)
  BY DEF RoundRobin, Random, Pick, Select
<1>3. /\ task[t].i = 1 /\ task[t].lb \in Generations
      /\ h \in Seq(Members(task[t].lb)) /\ 1 \in 1..Len(h)
  BY <1>1, <1>2 DEF SelInv, SelectionOK, Sound, Complete, Chosen, Choosing
<1>4. Found(task[t]) = ToSet(h)
  BY <1>1, <1>3 DEF Found, ToSet
<1>5. CASE Random(t)
  BY <1>1, <1>2, <1>3, <1>4, <1>5, PickKeepsSelection DEF Random
<1>6. CASE RoundRobin(t)
  <2>1. next_index[task[t].lb] \in Nat
    BY <1>3 DEF SelInv, Balancers
  <2>2. (next_index[task[t].lb] % Len(h)) + 1 \in 1..Len(h)
    BY <1>3, <2>1
  <2>3. h[(next_index[task[t].lb] % Len(h)) + 1] \in Found(task[t])
    BY <1>1, <2>2 DEF Found
  <2> QED BY <1>1, <1>2, <1>3, <1>6, <2>3, PickKeepsSelection DEF RoundRobin
<1> QED BY <1>5, <1>6

LEMMA LeastConnectionsKeepsSelection ==
  ASSUME SelInv, NEW t \in Tasks, LeastConnections(t)
  PROVE  SelectionOK(task[t], usable[t])'
<1>1. PICK k : k = task[t]
  OBVIOUS
<1>2. PICK h : h = k.healthy_endpoints
  OBVIOUS
<1>3. /\ k.pc = "pick" /\ Policy(k.lb) = "LeastConnections" /\ Select(t)
      /\ SelectionOK(k, usable[t]) /\ DOMAIN task = Tasks /\ DOMAIN k = Fields
      /\ usable' = usable /\ plan' = plan
  BY <1>1 DEF SelInv, Inv, Shapes, LeastConnections, Select, balancer
<1>4. /\ h \in Seq(Members(k.lb)) /\ usable[t] \subseteq Found(k)
      /\ k.i \in 1..Len(h) /\ Len(h) \in Nat
      /\ k.i # 1 => k.endpoint \in Found(k)
  BY <1>2, <1>3 DEF SelectionOK, Sound, Complete, Chosen, Choosing
<1>5. PICK best \in Found(k) :
        \/ /\ k.i = Len(h)
           /\ task' = [task EXCEPT ![t].pc = "ask", ![t].endpoint = best, ![t].i = 1,
                                   ![t].least = 0]
        \/ /\ k.i # Len(h)
           /\ \E n : task' = [task EXCEPT ![t].endpoint = best, ![t].i = @ + 1,
                                          ![t].least = n]
  <2>1. h[k.i] \in Found(k)
    BY <1>2, <1>4 DEF Found
  <2> QED BY <1>1, <1>2, <1>3, <1>4, <2>1 DEF LeastConnections
<1>6. /\ task'[t].lb = k.lb /\ task'[t].healthy_endpoints = h /\ task'[t].endpoint = best
      /\ \/ task'[t].pc = "ask" /\ task'[t].i = 1
         \/ task'[t].pc = "pick" /\ task'[t].i = k.i + 1 /\ k.i # Len(h)
  BY <1>1, <1>2, <1>3, <1>5 DEF Fields
<1>7. Sound(task[t], usable[t])'
  BY <1>1, <1>3, <1>4, <1>6, SelectionGoesOn DEF Choosing
<1>8. task'[t].i \in 1..Len(h)
  BY <1>4, <1>6
<1>9. Complete(task[t], usable[t])'
  BY <1>2, <1>3, <1>4, <1>6, <1>8 DEF Complete, Found, Choosing
<1>10. Chosen(task[t], usable[t])'
  BY <1>2, <1>3, <1>6 DEF Chosen, Found, Policy
<1> QED BY <1>7, <1>9, <1>10 DEF SelectionOK

\* A denied request leaves its endpoint out: its breaker is open.
LEMMA AskKeepsSelection ==
  ASSUME SelInv, NEW t \in Tasks, Ask(t)
  PROVE  SelectionOK(task[t], usable[t])'
<1>1. PICK k : k = task[t]
  OBVIOUS
<1>2. /\ k.pc = "ask" /\ Select(t) /\ SelectionOK(k, usable[t])
      /\ DOMAIN task = Tasks /\ DOMAIN k = Fields /\ usable' = usable
  BY <1>1 DEF SelInv, Inv, Shapes, Ask, Select
<1>3. CASE Selected(t, k.endpoint)
  <2>1. task'[t].pc = "selected"
    BY <1>2, <1>3 DEF Selected, Idle
  <2> QED BY <2>1, NoSelection
<1>4. CASE /\ ~Allows(circuit_breaker[k.endpoint])
           /\ task' = [task EXCEPT ![t].pc = "fallback"]
  <2>1. /\ task'[t].pc = "fallback" /\ task'[t].lb = k.lb /\ task'[t].i = k.i
        /\ task'[t].healthy_endpoints = k.healthy_endpoints
        /\ task'[t].endpoint = k.endpoint
    BY <1>1, <1>2, <1>4 DEF Fields
  <2>2. /\ k.healthy_endpoints \in Seq(Members(k.lb)) /\ usable[t] \subseteq Found(k)
        /\ 1 \in 1..Len(k.healthy_endpoints) /\ k.i = 1 /\ k.endpoint \in Found(k)
        /\ \A e \in usable[t] : FitForUse(e)
    BY <1>2 DEF SelectionOK, Sound, Complete, Chosen, Choosing
  <2>3. k.endpoint \notin usable[t]
    BY <1>4, <2>2 DEF FitForUse, Allows
  <2>4. Sound(task[t], usable[t])'
    BY <1>1, <1>2, <2>1, <2>2, SelectionGoesOn DEF Choosing
  <2>5. Complete(task[t], usable[t])'
    BY <1>2, <2>1, <2>2 DEF Complete, Found, Choosing
  <2>6. Chosen(task[t], usable[t])'
    BY <1>2, <2>1, <2>2, <2>3 DEF Chosen, Found
  <2> QED BY <2>4, <2>5, <2>6 DEF SelectionOK
<1> QED BY <1>1, <1>3, <1>4 DEF Ask

\* The loop passes over an endpoint that is denied, and over every one that has the
\* address of the one that was chosen and denied before.
LEMMA FallbackKeepsSelection ==
  ASSUME SelInv, NEW t \in Tasks, Fallback(t)
  PROVE  SelectionOK(task[t], usable[t])'
<1>1. PICK k : k = task[t]
  OBVIOUS
<1>2. PICK h : h = k.healthy_endpoints
  OBVIOUS
<1>3. PICK e : e = h[k.i]
  OBVIOUS
<1>4. /\ k.pc = "fallback" /\ Select(t) /\ SelectionOK(k, usable[t])
      /\ DOMAIN task = Tasks /\ DOMAIN k = Fields /\ usable' = usable /\ plan' = plan
  BY <1>1 DEF SelInv, Inv, Shapes, Fallback, Select, balancer
<1>5. /\ h \in Seq(Members(k.lb)) /\ usable[t] \subseteq Found(k) /\ k.lb \in Generations
      /\ k.i \in 1..Len(h) /\ Len(h) \in Nat /\ k.endpoint \in Found(k)
      /\ k.endpoint \notin usable[t]
      /\ \A j \in 1..(k.i - 1) : h[j] \in usable[t] => Address(h[j]) = Address(k.endpoint)
      /\ \A f \in usable[t] : FitForUse(f)
  BY <1>2, <1>4 DEF SelectionOK, Sound, Complete, Chosen, Choosing
<1>6. CASE Selected(t, e)
  <2>1. task'[t].pc = "selected"
    BY <1>4, <1>6 DEF Selected, Idle
  <2> QED BY <2>1, NoSelection
<1>7. CASE ~(Address(e) # Address(k.endpoint) /\ Allows(circuit_breaker[e]))
  <2>1. e \in usable[t] => Address(e) = Address(k.endpoint)
    BY <1>5, <1>7 DEF FitForUse, Allows
  <2>2. \A j \in 1..k.i : h[j] \in usable[t] => Address(h[j]) = Address(k.endpoint)
    BY <1>3, <1>5, <2>1
  <2>3. CASE k.i # Len(h) /\ task' = [task EXCEPT ![t].i = @ + 1]
    <3>1. /\ task'[t].pc = "fallback" /\ task'[t].lb = k.lb /\ task'[t].i = k.i + 1
          /\ task'[t].healthy_endpoints = h /\ task'[t].endpoint = k.endpoint
      BY <1>1, <1>2, <1>4, <2>3 DEF Fields
    <3>2. Sound(task[t], usable[t])'
      BY <1>1, <1>4, <1>5, <3>1, SelectionGoesOn DEF Choosing
    <3>3. k.i + 1 \in 1..Len(h) /\ (k.i + 1) - 1 = k.i
      BY <1>5, <2>3
    <3>4. Complete(task[t], usable[t])'
      BY <1>2, <1>4, <1>5, <3>1, <3>3 DEF Complete, Found, Choosing
    <3>5. Chosen(task[t], usable[t])'
      BY <1>2, <1>4, <1>5, <2>2, <3>1, <3>3 DEF Chosen, Found, Address
    <3> QED BY <3>2, <3>4, <3>5 DEF SelectionOK
  <2>4. CASE k.i = Len(h) /\ SelectedNone(t)
    <3>1. \A f \in usable[t] : Address(f) = Address(k.endpoint)
      BY <1>2, <1>5, <2>2, <2>4 DEF Found
    <3>2. k.endpoint \in Members(k.lb) /\ \A f \in usable[t] : f \in Members(k.lb)
      BY <1>2, <1>5 DEF Found
    <3>3. k.endpoint \in Endpoints /\ \A f \in usable[t] : f[1] = k.endpoint[1]
      BY <1>5, <3>2, MembersAreEndpoints DEF Members, SelInv
    <3>4. Shadowed(usable[t])'
      BY <1>4, <1>5, <3>1, <3>3 DEF Shadowed, Endpoints, Address
    <3>5. task'[t].pc = "none"
      BY <1>4, <2>4 DEF SelectedNone, Idle
    <3> QED BY <3>4, <3>5, NoSelection
  <2> QED BY <1>1, <1>2, <1>3, <1>7, <2>3, <2>4 DEF Fallback
<1> QED BY <1>1, <1>2, <1>3, <1>6, <1>7 DEF Fallback

\* A selection begins with what the balancer in the map has that is fit for use.
LEMMA SelectEndpointKeepsSelection ==
  ASSUME SelInv, NEW t \in Tasks, SelectEndpoint(t)
  PROVE  SelectionOK(task[t], usable[t])'
<1>1. /\ DOMAIN task = Tasks /\ current \in {0} \cup Generations
      /\ usable'[t] = {e \in Endpoints : e[1] = current /\ FitForUse(e)}
      /\ plan' = plan /\ healthy' = healthy /\ circuit_breaker' = circuit_breaker
  BY DEF SelInv, Inv, Shapes, Balancers, SelectEndpoint, balancer
<1>2. ASSUME NEW e \in Endpoints
      PROVE  e \in Members(e[1]) /\ e[1] \in Generations
  BY AddressesOK DEF Endpoints, EndpointsOf, Members, Generations, SelInv
<1>3. CASE current \notin Populated /\ SelectedNone(t)
  <2>1. \A e \in Endpoints : e[1] # current
    <3> SUFFICES ASSUME NEW e \in Endpoints, e[1] = current PROVE FALSE
      OBVIOUS
    <3>1. current \in Generations /\ e[2] \in 1..Len(plan[current].addresses)
      BY <1>2 DEF Members
    <3>2. Len(plan[current].addresses) \in Nat
      BY <3>1, AddressesOK DEF SelInv
    <3> QED BY <1>3, <3>1, <3>2 DEF Populated
  <2>2. usable'[t] = {}
    BY <1>1, <2>1
  <2>3. task'[t].pc = "none"
    BY <1>1, <1>3 DEF SelectedNone, Idle
  <2> QED BY <2>2, <2>3, NoSelection DEF Shadowed
<1>4. CASE /\ current \in Populated
           /\ task' = [task EXCEPT ![t] =
                         [Idle EXCEPT !.pc = "filter", !.lb = current, !.i = 1]]
  <2>1. /\ task'[t].pc = "filter" /\ task'[t].lb = current /\ task'[t].i = 1
        /\ task'[t].healthy_endpoints = <<>> /\ current \in Generations
    BY <1>1, <1>4 DEF Idle, Populated
  <2>2. \A e \in usable'[t] : e \in Members(current) /\ FitForUse(e)'
    BY <1>1, <1>2 DEF FitForUse
  <2>3. Len(plan[current].addresses) \in Nat \ {0}
    BY <1>4, <2>1, AddressesOK DEF SelInv, Populated
  <2>4. Sound(task[t], usable[t])'
    BY <1>1, <2>1, <2>2 DEF Sound, Members, Generations, Choosing
  <2>5. Complete(task[t], usable[t])'
    <3>1. \A e \in usable'[t] : ~(e[2] < 1)
      BY <2>2 DEF Members
    <3> QED BY <1>1, <2>1, <2>3, <3>1 DEF Complete, Choosing
  <2>6. Chosen(task[t], usable[t])'
    BY <2>1 DEF Chosen
  <2> QED BY <2>4, <2>5, <2>6 DEF SelectionOK
<1> QED BY <1>3, <1>4 DEF SelectEndpoint

\* The selection of every task survives a step of selection by any task.
LEMMA SelectsKeepSelection ==
  ASSUME SelInv, NEW t \in Tasks, SelectEndpoint(t) \/ Select(t) \/ GiveUp(t)
  PROVE  \A u \in Tasks : SelectionOK(task[u], usable[u])'
<1>1. Searches(t) /\ plan' = plan
  BY SelectSearches DEF SelInv
<1>2. /\ \A e \in Endpoints : FitForUse(e) => FitForUse(e)'
      /\ \A u \in Tasks : usable[u] \subseteq Endpoints
      /\ DOMAIN usable = Tasks
  BY SelectKeepsFit DEF SelInv, Balancers
<1>3. \A u \in Tasks \ {t} : usable'[u] = usable[u]
  BY <1>2 DEF SelectEndpoint, Select, GiveUp, Filter, RoundRobin, LeastConnections, Random,
     Pick, Ask, Fallback
<1>4. ASSUME NEW u \in Tasks \ {t} PROVE SelectionOK(task[u], usable[u])'
  <2>1. SelectionOK(task[u], usable[u]) /\ task'[u] = task[u]
    BY <1>1 DEF SelInv, Searches
  <2> QED BY <1>1, <1>2, <1>3, <2>1, UndisturbedSelection
<1>5. SelectionOK(task[t], usable[t])'
  <2>1. CASE GiveUp(t)
    <3>1. task'[t].pc = "idle"
      BY <2>1 DEF GiveUp, Idle, SelInv, Inv, Shapes
    <3> QED BY <3>1, NoSelection
  <2> QED BY <2>1, SelectEndpointKeepsSelection, FilterKeepsSelection,
         RoundRobinKeepsSelection, LeastConnectionsKeepsSelection, AskKeepsSelection,
         FallbackKeepsSelection DEF Select
<1> QED BY <1>4, <1>5

\* Nor does the use of an endpoint disturb it, nor health, time or add_cluster.
LEMMA OthersKeepSelection ==
  ASSUME SelInv,
         \/ \E t \in Tasks : \/ AcquireConnection(t) \/ ReleaseConnection(t)
                             \/ RequestSucceeds(t) \/ RequestFails(t)
         \/ \E e \in Endpoints : SetHealthy(e) \/ TimeoutElapses(e)
         \/ AddCluster
         \/ UNCHANGED vars
  PROVE  /\ plan' = plan
         /\ \A u \in Tasks : SelectionOK(task[u], usable[u])'
<1> USE DEF SelInv
<1>1. plan' = plan /\ DOMAIN task = Tasks /\ DOMAIN usable = Tasks
  BY DEF AcquireConnection, ReleaseConnection, RequestSucceeds, RequestFails, Record,
     SetHealthy, TimeoutElapses, AddCluster, vars, balancer, Inv, Shapes, Balancers
<1>2. ASSUME NEW u \in Tasks, task'[u] = task[u], usable'[u] \subseteq usable[u],
             \A e \in usable'[u] : FitForUse(e) => FitForUse(e)'
      PROVE  SelectionOK(task[u], usable[u])'
  BY <1>1, <1>2, UndisturbedSelection
<1>3. ASSUME StillUsable
      PROVE  \A u \in Tasks : /\ usable'[u] \subseteq usable[u]
                              /\ \A e \in usable'[u] : FitForUse(e)'
  BY <1>3 DEF StillUsable
<1>4. ASSUME NEW t \in Tasks, RequestSucceeds(t) \/ RequestFails(t)
      PROVE  \A u \in Tasks : SelectionOK(task[u], usable[u])'
  <2>1. task' = [task EXCEPT ![t].pc = "release"] /\ StillUsable
    BY <1>4 DEF RequestSucceeds, RequestFails, Record
  <2>2. task'[t].pc = "release" /\ \A u \in Tasks \ {t} : task'[u] = task[u]
    BY <1>1, <2>1 DEF Inv, Shapes, Fields
  <2> QED BY <1>2, <1>3, <2>1, <2>2, NoSelection
<1>5. ASSUME NEW t \in Tasks, AcquireConnection(t) \/ ReleaseConnection(t)
      PROVE  \A u \in Tasks : SelectionOK(task[u], usable[u])'
  <2>1. /\ healthy' = healthy /\ circuit_breaker' = circuit_breaker
        /\ \A u \in Tasks \ {t} : task'[u] = task[u] /\ usable'[u] = usable[u]
    BY <1>1, <1>5 DEF AcquireConnection, ReleaseConnection
  <2>2. task'[t].pc \in {"request", "idle"}
    BY <1>1, <1>5 DEF AcquireConnection, ReleaseConnection, Idle, Inv, Shapes, Fields
  <2> QED BY <1>2, <2>1, <2>2, NoSelection DEF FitForUse
<1>6. ASSUME NEW e \in Endpoints, SetHealthy(e)
      PROVE  \A u \in Tasks : SelectionOK(task[u], usable[u])'
  BY <1>2, <1>3, <1>6 DEF SetHealthy
<1>7. ASSUME NEW e \in Endpoints, TimeoutElapses(e)
      PROVE  \A u \in Tasks : SelectionOK(task[u], usable[u])'
  <2>1. \A f \in Endpoints : circuit_breaker'[f].state = circuit_breaker[f].state
    BY <1>7 DEF TimeoutElapses, Inv, Shapes, Breaker
  <2>2. task' = task /\ usable' = usable /\ healthy' = healthy
    BY <1>7 DEF TimeoutElapses
  <2> QED BY <1>2, <2>1, <2>2 DEF FitForUse, Balancers
<1>8. ASSUME AddCluster \/ UNCHANGED vars
      PROVE  \A u \in Tasks : SelectionOK(task[u], usable[u])'
  BY <1>2, <1>8 DEF AddCluster, vars, FitForUse
<1> QED BY <1>1, <1>4, <1>5, <1>6, <1>7, <1>8

LEMMA BalancersStep ==
  ASSUME SelInv, [Next]_vars
  PROVE  Balancers'
<1> USE DEF SelInv
<1>1. plan' = plan /\ Generations' = Generations /\ Endpoints' = Endpoints
  BY DEF Next, TaskStep, SelectEndpoint, Select, Filter, RoundRobin, LeastConnections,
     Random, Pick, Ask, Fallback, GiveUp, AcquireConnection, RequestSucceeds, RequestFails,
     Record, ReleaseConnection, SetHealthy, TimeoutElapses, AddCluster, vars, balancer,
     Generations, Endpoints
<1>2. current' \in {0} \cup Generations
  BY DEF Next, TaskStep, SelectEndpoint, Select, Filter, RoundRobin, LeastConnections,
     Random, Pick, Ask, Fallback, GiveUp, AcquireConnection, RequestSucceeds, RequestFails,
     Record, ReleaseConnection, SetHealthy, TimeoutElapses, AddCluster, vars, balancer,
     Balancers
<1>3. \/ next_index' = next_index
      \/ \E g : next_index' = [next_index EXCEPT ![g] = (@ + 1) % IndexMod]
  BY DEF Next, TaskStep, SelectEndpoint, Select, Filter, RoundRobin, LeastConnections,
     Random, Pick, Ask, Fallback, GiveUp, AcquireConnection, RequestSucceeds, RequestFails,
     Record, ReleaseConnection, SetHealthy, TimeoutElapses, AddCluster, vars, balancer
<1>4. DOMAIN next_index' = Generations /\ \A g \in Generations : next_index'[g] \in Nat
  <2>1. \A n \in Nat : (n + 1) % IndexMod \in Nat
    BY PlansAssumption
  <2> QED BY <1>3, <2>1 DEF Balancers
<1>5. \/ usable' = usable
      \/ StillUsable
      \/ \E t \in Tasks : usable' = [usable EXCEPT ![t] = {}]
      \/ \E t \in Tasks : usable' = [usable EXCEPT ![t] =
                                 {e \in Endpoints : e[1] = current /\ FitForUse(e)}]
  BY DEF Next, TaskStep, SelectEndpoint, Select, Filter, RoundRobin, LeastConnections,
     Random, Pick, Ask, Fallback, GiveUp, AcquireConnection, RequestSucceeds, RequestFails,
     Record, ReleaseConnection, SetHealthy, TimeoutElapses, AddCluster, vars
<1>6. DOMAIN usable' = Tasks /\ \A t \in Tasks : usable'[t] \subseteq Endpoints
  BY <1>5 DEF Balancers, StillUsable
<1> QED BY <1>1, <1>2, <1>4, <1>6 DEF Balancers

LEMMA SelStep == SelInv /\ [Next]_vars => SelInv'
<1> SUFFICES ASSUME SelInv, [Next]_vars PROVE SelInv'
  OBVIOUS
<1>1. Inv' /\ Balancers'
  BY InvStep, BalancersStep DEF SelInv
<1>2. \A u \in Tasks : SelectionOK(task[u], usable[u])'
  BY SelectsKeepSelection, OthersKeepSelection DEF Next, TaskStep
<1> QED BY <1>1, <1>2 DEF SelInv

LEMMA SelAlways == Spec => []SelInv
<1>1. Init => SelInv
  BY InvInit, SelInit DEF SelInv
<1> QED BY <1>1, SelStep, PTL DEF Spec

\* For any clusters, policies, thresholds and number of tasks: select answers None
\* only if no endpoint stayed healthy with its breaker not open throughout, except
\* for endpoints whose address add_cluster was given more than once.
THEOREM UsableAlwaysFound == Spec => []UsableIsFound
<1>1. SelInv => UsableIsFound
  BY DEF SelInv, SelectionOK, Complete, UsableIsFound
<1> QED BY <1>1, SelAlways, PTL

-------------------------------------------------------------------------------
\* Ranges

\* A closed breaker is below its threshold.
InRange(b) ==
  /\ b = [x \in {"state", "failures", "successes", "elapsed"} |-> b[x]]
  /\ b.state \in {"Closed", "Open", "HalfOpen"}
  /\ b.failures \in 0..FailureThreshold
  /\ b.successes \in 0..(SuccessThreshold - 1)
  /\ b.elapsed \in BOOLEAN
  /\ b.state = "Closed" => b.failures < FailureThreshold

\* A task has nothing but its endpoint, or is in a selection from a balancer that
\* add_cluster has made.
Local(k) ==
  \/ k \in {Idle, [Idle EXCEPT !.pc = "none"]}
  \/ \E e \in Endpoints, at \in {"selected", "request", "release"} :
       k = [Idle EXCEPT !.pc = at, !.endpoint = e]
  \/ k.pc \in {"filter"} \cup Choosing /\ k.lb \in 1..current

Ranges ==
  /\ next_index \in [Generations -> 0..(IndexMod - 1)]
  /\ active_connections \in [Endpoints -> Int]
  /\ healthy \in [Endpoints -> BOOLEAN]
  /\ circuit_breaker = [e \in Endpoints |-> circuit_breaker[e]]
  /\ \A e \in Endpoints : InRange(circuit_breaker[e])
  /\ usable \in [Tasks -> SUBSET Endpoints]
  /\ \A t \in Tasks : Local(task[t])

\* A breaker of which some fields are set anew.
LEMMA SetInRange ==
  ASSUME NEW b, InRange(b), NEW c, DOMAIN c = DOMAIN b, c = [x \in DOMAIN b |-> c[x]],
         c.state \in {"Closed", "Open", "HalfOpen"}, c.elapsed \in BOOLEAN,
         c.failures \in 0..FailureThreshold, c.successes \in 0..(SuccessThreshold - 1),
         c.state = "Closed" => c.failures < FailureThreshold
  PROVE  InRange(c)
<1>1. DOMAIN b = {"state", "failures", "successes", "elapsed"}
  BY DEF InRange
<1> QED BY <1>1 DEF InRange

LEMMA BreakerRanges ==
  ASSUME NEW b, InRange(b)
  PROVE  /\ InRange(AllowRequest(b)) /\ InRange(RecordSuccess(b))
         /\ InRange(RecordFailure(b)) /\ InRange([b EXCEPT !.elapsed = TRUE])
<1>1. /\ FailureThreshold \in Nat \ {0} /\ SuccessThreshold \in Nat \ {0}
      /\ DOMAIN b = {"state", "failures", "successes", "elapsed"}
      /\ b = [x \in DOMAIN b |-> b[x]]
  BY PlansAssumption DEF InRange
<1>2. InRange(AllowRequest(b))
  <2>1. CASE b.state = "Open" /\ b.elapsed
    <3> DEFINE c == [b EXCEPT !.state = "HalfOpen", !.successes = 0]
    <3>1. /\ DOMAIN c = DOMAIN b /\ c = [x \in DOMAIN b |-> c[x]]
          /\ c.state = "HalfOpen" /\ c.successes = 0 /\ c.failures = b.failures
      BY <1>1
    <3>2. c.elapsed \in BOOLEAN
      BY <1>1 DEF InRange
    <3> HIDE DEF c
    <3>3. InRange(c)
      BY <1>1, <3>1, <3>2, SetInRange DEF InRange
    <3> QED BY <2>1, <3>3, Zenon DEF AllowRequest, c
  <2> QED BY <2>1, Zenon DEF AllowRequest
<1>3. InRange([b EXCEPT !.elapsed = TRUE]) /\ InRange([b EXCEPT !.elapsed = FALSE])
  <2> SUFFICES ASSUME NEW v \in BOOLEAN PROVE InRange([b EXCEPT !.elapsed = v])
    OBVIOUS
  <2> DEFINE c == [b EXCEPT !.elapsed = v]
  <2>1. /\ DOMAIN c = DOMAIN b /\ c = [x \in DOMAIN b |-> c[x]]
        /\ c.state = b.state /\ c.successes = b.successes /\ c.failures = b.failures
    BY <1>1
  <2>2. c.elapsed \in BOOLEAN
    BY <1>1
  <2> HIDE DEF c
  <2>3. InRange(c)
    BY <1>1, <2>1, <2>2, SetInRange DEF InRange
  <2> QED BY <2>3, Zenon DEF c
<1>4. InRange(RecordSuccess(b))
  <2>1. CASE b.state = "HalfOpen" /\ b.successes + 1 >= SuccessThreshold
    <3> DEFINE c == [b EXCEPT !.state = "Closed", !.failures = 0, !.successes = 0]
    <3>1. /\ DOMAIN c = DOMAIN b /\ c = [x \in DOMAIN b |-> c[x]]
          /\ c.state = "Closed" /\ c.successes = 0 /\ c.failures = 0
      BY <1>1
    <3>2. c.elapsed \in BOOLEAN
      BY <1>1 DEF InRange
    <3> HIDE DEF c
    <3>3. InRange(c)
      BY <1>1, <3>1, <3>2, SetInRange
    <3>4. RecordSuccess(b) = c
      BY <2>1 DEF RecordSuccess, c
    <3> QED BY <3>3, <3>4
  <2>2. CASE b.state = "HalfOpen" /\ ~(b.successes + 1 >= SuccessThreshold)
    <3> DEFINE c == [b EXCEPT !.successes = @ + 1]
    <3>1. /\ DOMAIN c = DOMAIN b /\ c = [x \in DOMAIN b |-> c[x]]
          /\ c.state = b.state /\ c.successes = b.successes + 1 /\ c.failures = b.failures
      BY <1>1
    <3>2. c.elapsed \in BOOLEAN
      BY <1>1 DEF InRange
    <3> HIDE DEF c
    <3>3. InRange(c)
      BY <1>1, <2>2, <3>1, <3>2, SetInRange DEF InRange
    <3>4. RecordSuccess(b) = c
      BY <2>2 DEF RecordSuccess, c
    <3> QED BY <3>3, <3>4
  <2>3. CASE b.state = "Closed"
    <3> DEFINE c == [b EXCEPT !.failures = 0]
    <3>1. /\ DOMAIN c = DOMAIN b /\ c = [x \in DOMAIN b |-> c[x]]
          /\ c.state = b.state /\ c.successes = b.successes /\ c.failures = 0
      BY <1>1
    <3>2. c.elapsed \in BOOLEAN
      BY <1>1 DEF InRange
    <3> HIDE DEF c
    <3>3. InRange(c)
      BY <1>1, <3>1, <3>2, SetInRange DEF InRange
    <3>4. RecordSuccess(b) = c
      BY <2>3 DEF RecordSuccess, c
    <3> QED BY <3>3, <3>4
  <2>4. CASE b.state = "Open"
    BY <2>4 DEF RecordSuccess
  <2> QED BY <2>1, <2>2, <2>3, <2>4 DEF InRange
<1>5. InRange(RecordFailure(b))
  <2>1. CASE b.state = "Closed" /\ b.failures + 1 >= FailureThreshold
    <3> DEFINE c == [b EXCEPT !.state = "Open", !.failures = @ + 1, !.elapsed = FALSE]
    <3>1. /\ DOMAIN c = DOMAIN b /\ c = [x \in DOMAIN b |-> c[x]]
          /\ c.state = "Open" /\ c.successes = b.successes /\ c.failures = b.failures + 1
      BY <1>1
    <3>2. c.elapsed \in BOOLEAN
      BY <1>1
    <3> HIDE DEF c
    <3>3. InRange(c)
      BY <1>1, <2>1, <3>1, <3>2, SetInRange DEF InRange
    <3>4. RecordFailure(b) = c
      BY <2>1 DEF RecordFailure, c
    <3> QED BY <3>3, <3>4
  <2>2. CASE b.state = "Closed" /\ ~(b.failures + 1 >= FailureThreshold)
    <3> DEFINE c == [b EXCEPT !.failures = @ + 1]
    <3>1. /\ DOMAIN c = DOMAIN b /\ c = [x \in DOMAIN b |-> c[x]]
          /\ c.state = b.state /\ c.successes = b.successes /\ c.failures = b.failures + 1
      BY <1>1
    <3>2. c.elapsed \in BOOLEAN
      BY <1>1 DEF InRange
    <3> HIDE DEF c
    <3>3. InRange(c)
      BY <1>1, <2>2, <3>1, <3>2, SetInRange DEF InRange
    <3>4. RecordFailure(b) = c
      BY <2>2 DEF RecordFailure, c
    <3> QED BY <3>3, <3>4
  <2>3. CASE b.state = "HalfOpen"
    <3> DEFINE c == [NewBreaker EXCEPT !.state = "Open"]
    <3>1. /\ DOMAIN c = DOMAIN b /\ c = [x \in DOMAIN b |-> c[x]]
          /\ c.state = "Open" /\ c.successes = 0 /\ c.failures = 0
      BY <1>1 DEF NewBreaker
    <3>2. c.elapsed \in BOOLEAN
      BY DEF NewBreaker
    <3> HIDE DEF c
    <3>3. InRange(c)
      BY <1>1, <3>1, <3>2, SetInRange
    <3>4. RecordFailure(b) = c
      BY <2>3 DEF RecordFailure, c
    <3> QED BY <3>3, <3>4
  <2>4. CASE b.state = "Open"
    <3>1. RecordFailure(b) = [b EXCEPT !.elapsed = FALSE]
      BY <2>4 DEF RecordFailure
    <3> QED BY <1>3, <3>1
  <2> QED BY <2>1, <2>2, <2>3, <2>4 DEF InRange
<1> QED BY <1>2, <1>3, <1>4, <1>5

LEMMA RangesInit == Init => Ranges
<1> SUFFICES ASSUME Init PROVE Ranges
  OBVIOUS
<1>1. NewBreaker.elapsed \in BOOLEAN
  BY DEF NewBreaker
<1>2. InRange(NewBreaker)
  <2>1. /\ NewBreaker =
             [x \in {"state", "failures", "successes", "elapsed"} |-> NewBreaker[x]]
        /\ NewBreaker.state = "Closed"
        /\ NewBreaker.failures = 0 /\ NewBreaker.successes = 0
    BY DEF NewBreaker
  <2> QED BY <1>1, <2>1, PlansAssumption DEF InRange
<1>3. /\ circuit_breaker = [e \in Endpoints |-> circuit_breaker[e]]
      /\ \A e \in Endpoints : InRange(circuit_breaker[e])
  BY <1>2 DEF Init
<1>4. \A t \in Tasks : Local(task[t])
  BY DEF Init, Local
<1> QED BY <1>3, <1>4, PlansAssumption DEF Init, Ranges

\* What the shared fields hold after a step.
LEMMA FieldRanges ==
  ASSUME SelInv, Ranges, [Next]_vars
  PROVE  /\ plan' = plan /\ Generations' = Generations /\ Endpoints' = Endpoints
         /\ next_index' \in [Generations -> 0..(IndexMod - 1)]
         /\ active_connections' \in [Endpoints -> Int]
         /\ healthy' \in [Endpoints -> BOOLEAN]
         /\ usable' \in [Tasks -> SUBSET Endpoints]
<1>1. plan' = plan /\ Generations' = Generations /\ Endpoints' = Endpoints
  BY DEF Next, TaskStep, SelectEndpoint, Select, Filter, RoundRobin, LeastConnections,
     Random, Pick, Ask, Fallback, GiveUp, AcquireConnection, RequestSucceeds, RequestFails,
     Record, ReleaseConnection, SetHealthy, TimeoutElapses, AddCluster, vars, balancer, Generations, Endpoints
<1>2. \/ next_index' = next_index
      \/ \E g : next_index' = [next_index EXCEPT ![g] = (@ + 1) % IndexMod]
  BY DEF Next, TaskStep, SelectEndpoint, Select, Filter, RoundRobin, LeastConnections,
     Random, Pick, Ask, Fallback, GiveUp, AcquireConnection, RequestSucceeds, RequestFails,
     Record, ReleaseConnection, SetHealthy, TimeoutElapses, AddCluster, vars, balancer
<1>3. next_index' \in [Generations -> 0..(IndexMod - 1)]
  <2>1. \A n \in 0..(IndexMod - 1) : (n + 1) % IndexMod \in 0..(IndexMod - 1)
    BY PlansAssumption
  <2> QED BY <1>2, <2>1 DEF Ranges
<1>4. \/ active_connections' = active_connections
      \/ \E e : active_connections' = [active_connections EXCEPT ![e] = @ + 1]
      \/ \E e : active_connections' = [active_connections EXCEPT ![e] = @ - 1]
  BY DEF Next, TaskStep, SelectEndpoint, Select, Filter, RoundRobin, LeastConnections,
     Random, Pick, Ask, Fallback, GiveUp, AcquireConnection, RequestSucceeds, RequestFails,
     Record, ReleaseConnection, SetHealthy, TimeoutElapses, AddCluster, vars, balancer
<1>5. active_connections' \in [Endpoints -> Int]
  BY <1>4 DEF Ranges
<1>6. \/ healthy' = healthy
      \/ \E e : healthy' = [healthy EXCEPT ![e] = ~@]
  BY DEF Next, TaskStep, SelectEndpoint, Select, Filter, RoundRobin, LeastConnections,
     Random, Pick, Ask, Fallback, GiveUp, AcquireConnection, RequestSucceeds, RequestFails,
     Record, ReleaseConnection, SetHealthy, TimeoutElapses, AddCluster, vars, balancer
<1>7. healthy' \in [Endpoints -> BOOLEAN]
  BY <1>6 DEF Ranges
<1>8. \/ usable' = usable
      \/ StillUsable
      \/ \E t \in Tasks : usable' = [usable EXCEPT ![t] = {}]
      \/ \E t \in Tasks : usable' = [usable EXCEPT ![t] =
                                 {e \in Endpoints : e[1] = current /\ FitForUse(e)}]
  BY DEF Next, TaskStep, SelectEndpoint, Select, Filter, RoundRobin, LeastConnections,
     Random, Pick, Ask, Fallback, GiveUp, AcquireConnection, RequestSucceeds, RequestFails,
     Record, ReleaseConnection, SetHealthy, TimeoutElapses, AddCluster, vars, balancer
<1>9. usable' \in [Tasks -> SUBSET Endpoints]
  BY <1>8 DEF Ranges, StillUsable
<1> QED BY <1>1, <1>3, <1>5, <1>7, <1>9

LEMMA BreakersInRange ==
  ASSUME Ranges, [Next]_vars
  PROVE  /\ circuit_breaker' = [e \in Endpoints |-> circuit_breaker'[e]]
         /\ \A e \in Endpoints : InRange(circuit_breaker'[e])
<1>1. ASSUME NEW f, NEW b, circuit_breaker' = [circuit_breaker EXCEPT ![f] = b],
             f \in Endpoints => InRange(b)
      PROVE  /\ circuit_breaker' = [e \in Endpoints |-> circuit_breaker'[e]]
             /\ \A e \in Endpoints : InRange(circuit_breaker'[e])
  BY <1>1 DEF Ranges
<1>2. ASSUME NEW f \in Endpoints
      PROVE  LET b == circuit_breaker[f] IN
             /\ InRange(b) /\ InRange(AllowRequest(b)) /\ InRange(RecordSuccess(b))
             /\ InRange(RecordFailure(b)) /\ InRange([b EXCEPT !.elapsed = TRUE])
  BY BreakerRanges DEF Ranges
<1>3. CASE \E t \in Tasks : Ask(t)
  BY <1>1, <1>2, <1>3 DEF Ask
<1>4. CASE \E t \in Tasks : Fallback(t)
  <2>1. PICK f : \/ circuit_breaker' = [circuit_breaker EXCEPT ![f] =
                                          AllowRequest(circuit_breaker[f])]
                 \/ circuit_breaker' = [circuit_breaker EXCEPT ![f] = circuit_breaker[f]]
    BY <1>4 DEF Fallback
  <2> QED BY <1>1, <1>2, <2>1
<1>5. CASE \E t \in Tasks : RequestSucceeds(t) \/ RequestFails(t)
  <2>1. PICK f : \/ circuit_breaker' = [circuit_breaker EXCEPT ![f] =
                                          RecordSuccess(circuit_breaker[f])]
                 \/ circuit_breaker' = [circuit_breaker EXCEPT ![f] =
                                          RecordFailure(circuit_breaker[f])]
    BY <1>5 DEF RequestSucceeds, RequestFails, Record
  <2> QED BY <1>1, <1>2, <2>1
<1>6. CASE \E e \in Endpoints : TimeoutElapses(e)
  <2>1. PICK f \in Endpoints :
          circuit_breaker' = [circuit_breaker EXCEPT ![f] =
                                [circuit_breaker[f] EXCEPT !.elapsed = TRUE]]
    BY <1>6 DEF TimeoutElapses
  <2> QED BY <1>1, <1>2, <2>1
<1>7. CASE circuit_breaker' = circuit_breaker
  BY <1>7 DEF Ranges
<1> QED BY <1>3, <1>4, <1>5, <1>6, <1>7 DEF Next, TaskStep, SelectEndpoint, Select, Filter,
     RoundRobin, LeastConnections, Random, Pick, GiveUp, AcquireConnection,
     ReleaseConnection, SetHealthy, AddCluster, vars

LEMMA LocalCases ==
  ASSUME NEW k, Local(k)
  PROVE  /\ k.pc \in {"filter"} \cup Choosing => k.lb \in 1..current
         /\ k.pc \in {"selected", "request", "release"} =>
              \E e \in Endpoints : k = [Idle EXCEPT !.pc = k.pc, !.endpoint = e]
<1>1. CASE k = Idle
  BY <1>1 DEF Idle, Choosing
<1>2. CASE k = [Idle EXCEPT !.pc = "none"]
  <2>1. k.pc = "none"
    BY <1>2 DEF Idle
  <2> QED BY <2>1 DEF Choosing
<1>3. ASSUME NEW e \in Endpoints, NEW at \in {"selected", "request", "release"},
             k = [Idle EXCEPT !.pc = at, !.endpoint = e]
      PROVE  /\ k.pc \notin {"filter"} \cup Choosing
             /\ k = [Idle EXCEPT !.pc = k.pc, !.endpoint = e]
  <2>1. k.pc = at
    BY <1>3 DEF Idle
  <2> QED BY <1>3, <2>1, Zenon DEF Choosing
<1>4. CASE k.pc \in {"filter"} \cup Choosing /\ k.lb \in 1..current
  BY <1>4 DEF Choosing
<1> QED BY <1>1, <1>2, <1>3, <1>4, Zenon DEF Local

LEMMA LocalsInRange ==
  ASSUME SelInv, Ranges, [Next]_vars, NEW u \in Tasks
  PROVE  Local(task[u])'
<1>1. /\ Endpoints' = Endpoints /\ DOMAIN task = Tasks /\ DOMAIN task[u] = Fields
      /\ Local(task[u])
  BY FieldRanges DEF SelInv, Inv, Shapes, Ranges
<1>2. current \in Nat /\ (current' = current \/ current' = current + 1)
  <2>1. current \in Nat
    BY PlansAssumption DEF SelInv, Balancers, Generations
  <2> QED BY <2>1 DEF Next, TaskStep, SelectEndpoint, Select, Filter, RoundRobin, LeastConnections,
     Random, Pick, Ask, Fallback, GiveUp, AcquireConnection, RequestSucceeds, RequestFails,
     Record, ReleaseConnection, SetHealthy, TimeoutElapses, AddCluster, vars, balancer
<1>3. CASE task'[u] = task[u]
  <2>1. 1..current \subseteq 1..current'
    BY <1>2
  <2> QED BY <1>1, <1>3, <2>1 DEF Local
<1>4. ASSUME NEW e \in Endpoints, Selected(u, e) PROVE Local(task[u])'
  BY <1>1, <1>4 DEF Selected, Local
<1>5. ASSUME SelectedNone(u) PROVE Local(task[u])'
  BY <1>1, <1>5 DEF SelectedNone, Local
<1>6. ASSUME task[u].pc \in {"filter"} \cup Choosing, current' = current,
             task'[u].pc \in {"filter"} \cup Choosing, task'[u].lb = task[u].lb
      PROVE  Local(task[u])'
  <2>1. task[u].lb \in 1..current
    BY <1>1, <1>6, LocalCases
  <2> QED BY <1>6, <2>1, Zenon DEF Local
<1>7. ASSUME task[u].pc \in {"filter"} \cup Choosing
      PROVE  /\ Found(task[u]) \subseteq Endpoints
             /\ \A j \in 1..Len(task[u].healthy_endpoints) :
                  task[u].healthy_endpoints[j] \in Endpoints
  <2>1. /\ task[u].lb \in Generations
        /\ task[u].healthy_endpoints \in Seq(Members(task[u].lb))
    BY <1>7 DEF SelInv, SelectionOK, Sound
  <2>2. Members(task[u].lb) \subseteq Endpoints
    BY <2>1, MembersAreEndpoints DEF SelInv
  <2>3. \A j \in 1..Len(task[u].healthy_endpoints) :
          task[u].healthy_endpoints[j] \in Members(task[u].lb)
    BY <2>1
  <2> QED BY <2>2, <2>3 DEF Found
<1>8. CASE SelectEndpoint(u)
  <2>1. CASE SelectedNone(u)
    BY <1>5, <2>1
  <2>2. CASE /\ current \in Populated /\ current' = current
             /\ task' = [task EXCEPT ![u] =
                          [Idle EXCEPT !.pc = "filter", !.lb = current, !.i = 1]]
    <3>1. task'[u].pc = "filter" /\ task'[u].lb = current
      BY <1>1, <2>2 DEF Idle
    <3>2. current # 0
      BY <2>2, PlansAssumption DEF Populated, SelInv, Balancers, Generations
    <3>3. task'[u].lb \in 1..current'
      BY <1>2, <2>2, <3>1, <3>2
    <3> QED BY <3>1, <3>3, Zenon DEF Local
  <2> QED BY <1>8, <2>1, <2>2 DEF SelectEndpoint, balancer
<1>9. CASE Filter(u)
  <2>1. task[u].pc = "filter" /\ current' = current
    BY <1>9 DEF Filter, balancer
  <2>2. CASE SelectedNone(u)
    BY <1>5, <2>2
  <2>3. CASE \E found :
               \/ task' = [task EXCEPT ![u].i = @ + 1, ![u].healthy_endpoints = found]
               \/ task' = [task EXCEPT ![u].pc = "pick", ![u].i = 1,
                                       ![u].healthy_endpoints = found]
    <3>1. task'[u].pc \in {"filter", "pick"} /\ task'[u].lb = task[u].lb
      BY <1>1, <2>1, <2>3 DEF Fields
    <3> QED BY <1>6, <2>1, <3>1 DEF Choosing
  <2> QED BY <1>9, <2>2, <2>3 DEF Filter
<1>10. CASE RoundRobin(u) \/ Random(u)
  <2>1. PICK e : Pick(u, e)
    BY <1>10 DEF RoundRobin, Random
  <2>2. /\ task[u].pc = "pick" /\ current' = current
        /\ task'[u].pc = "ask" /\ task'[u].lb = task[u].lb
    BY <1>1, <2>1 DEF Pick, Fields
  <2> QED BY <1>6, <2>2 DEF Choosing
<1>11. CASE LeastConnections(u)
  <2>1. task[u].pc = "pick" /\ current' = current
    BY <1>11 DEF LeastConnections, balancer
  <2>2. \E best, n :
          \/ task' = [task EXCEPT ![u].pc = "ask", ![u].endpoint = best, ![u].i = 1,
                                  ![u].least = 0]
          \/ task' = [task EXCEPT ![u].endpoint = best, ![u].i = @ + 1, ![u].least = n]
    BY <1>11 DEF LeastConnections
  <2>3. task'[u].pc \in {"ask", "pick"} /\ task'[u].lb = task[u].lb
    BY <1>1, <2>1, <2>2 DEF Fields
  <2> QED BY <1>6, <2>1, <2>3 DEF Choosing
<1>12. CASE Ask(u)
  <2>1. task[u].pc = "ask" /\ current' = current
    BY <1>12 DEF Ask, balancer
  <2>2. task[u].endpoint \in Endpoints
    BY <1>7, <2>1 DEF SelInv, SelectionOK, Chosen, Choosing
  <2>3. CASE task' = [task EXCEPT ![u].pc = "fallback"]
    <3>1. task'[u].pc = "fallback" /\ task'[u].lb = task[u].lb
      BY <1>1, <2>3 DEF Fields
    <3> QED BY <1>6, <2>1, <3>1 DEF Choosing
  <2> QED BY <1>4, <1>12, <2>2, <2>3 DEF Ask
<1>13. CASE Fallback(u)
  <2>1. task[u].pc = "fallback" /\ current' = current
    BY <1>13 DEF Fallback, balancer
  <2>2. task[u].healthy_endpoints[task[u].i] \in Endpoints
    BY <1>7, <2>1 DEF SelInv, SelectionOK, Complete, Choosing
  <2>3. CASE task' = [task EXCEPT ![u].i = @ + 1]
    <3>1. task'[u].pc = "fallback" /\ task'[u].lb = task[u].lb
      BY <1>1, <2>1, <2>3 DEF Fields
    <3> QED BY <1>6, <2>1, <3>1 DEF Choosing
  <2> QED BY <1>4, <1>5, <1>13, <2>2, <2>3 DEF Fallback
<1>14. CASE GiveUp(u) \/ ReleaseConnection(u)
  BY <1>1, <1>14 DEF GiveUp, ReleaseConnection, Local
<1>15. ASSUME NEW from \in {"selected", "request"}, NEW to \in {"request", "release"},
              task[u].pc = from, task' = [task EXCEPT ![u].pc = to]
       PROVE  Local(task[u])'
  <2>1. PICK e \in Endpoints : task[u] = [Idle EXCEPT !.pc = from, !.endpoint = e]
    BY <1>1, <1>15, LocalCases
  <2>2. task'[u] = [Idle EXCEPT !.pc = to, !.endpoint = e]
    BY <1>1, <1>15, <2>1 DEF Idle
  <2> QED BY <1>1, <2>2 DEF Local
<1>16. CASE AcquireConnection(u) \/ RequestSucceeds(u) \/ RequestFails(u)
  BY <1>15, <1>16 DEF AcquireConnection, RequestSucceeds, RequestFails, Record
<1>17. ASSUME NEW t \in Tasks \ {u}, TaskStep(t) PROVE task'[u] = task[u]
  BY <1>1, <1>17 DEF TaskStep, SelectEndpoint, Select, Filter, RoundRobin,
     LeastConnections, Random, Pick, Ask, Fallback, GiveUp, AcquireConnection,
     RequestSucceeds, RequestFails, Record, ReleaseConnection, Selected, SelectedNone
<1>18. CASE TaskStep(u)
  BY <1>8, <1>9, <1>10, <1>11, <1>12, <1>13, <1>14, <1>16, <1>18 DEF TaskStep, Select
<1>19. CASE UNCHANGED task
  BY <1>3, <1>19
<1> QED BY <1>3, <1>17, <1>18, <1>19 DEF Next, SetHealthy, TimeoutElapses, AddCluster, vars

\* Positions, indices and counts stay in range for any number of tasks, clusters and
\* any wrap-around: what a task holds comes from the balancer it works with, however
\* often add_cluster replaces it meanwhile.
THEOREM TypeCorrect == Spec => []TypeOK
<1>1. SelInv /\ Ranges /\ [Next]_vars => Ranges'
  <2> SUFFICES ASSUME SelInv, Ranges, [Next]_vars PROVE Ranges'
    OBVIOUS
  <2>1. \A t \in Tasks : Local(task[t])'
    BY LocalsInRange
  <2>2. /\ (next_index \in [Generations -> 0..(IndexMod - 1)])'
        /\ (active_connections \in [Endpoints -> Int])'
        /\ (healthy \in [Endpoints -> BOOLEAN])'
        /\ (usable \in [Tasks -> SUBSET Endpoints])'
    BY FieldRanges
  <2>3. /\ (circuit_breaker = [e \in Endpoints |-> circuit_breaker[e]])'
        /\ (\A e \in Endpoints : InRange(circuit_breaker[e]))'
    BY FieldRanges, BreakersInRange DEF InRange
  <2> QED BY <2>1, <2>2, <2>3 DEF Ranges
<1>2. SelInv /\ Ranges => TypeOK
  <2> SUFFICES ASSUME SelInv, Ranges PROVE TypeOK
    OBVIOUS
  <2>1. active_connections \in [Endpoints -> 0..Cardinality(Tasks)]
    <3>1. ASSUME NEW e \in Endpoints PROVE active_connections[e] \in 0..Cardinality(Tasks)
      <4>1. active_connections[e] = Cardinality(Using(e))
        BY DEF SelInv, Inv, Exact
      <4>2. Cardinality(Using(e)) <= Cardinality(Tasks) /\ Cardinality(Tasks) \in Nat
        BY PlansAssumption, FS_Subset, FS_CardinalityType DEF Using
      <4> QED BY <4>1, <4>2, UsingFinite
    <3> QED BY <3>1 DEF Ranges
  <2>2. circuit_breaker \in [Endpoints ->
          [state : {"Closed", "Open", "HalfOpen"}, failures : 0..FailureThreshold,
           successes : 0..(SuccessThreshold - 1), elapsed : BOOLEAN]]
    <3>1. ASSUME NEW b, InRange(b)
          PROVE  b \in [state : {"Closed", "Open", "HalfOpen"},
                        failures : 0..FailureThreshold,
                        successes : 0..(SuccessThreshold - 1), elapsed : BOOLEAN]
      BY <3>1 DEF InRange
    <3> QED BY <3>1 DEF Ranges
  <2>3. ASSUME NEW t \in Tasks, task[t].pc \in {"filter"} \cup Choosing
        PROVE  LET k == task[t] IN
               /\ \A e \in ToSet(k.healthy_endpoints) : e \in Endpoints /\ e[1] = k.lb
               /\ \/ k.pc = "filter" /\ k.i \in DOMAIN plan[k.lb].addresses
                  \/ k.pc = "pick" /\ k.i \in DOMAIN k.healthy_endpoints
                  \/ /\ k.pc \in {"ask", "fallback"} /\ k.i \in DOMAIN k.healthy_endpoints
                     /\ k.endpoint \in ToSet(k.healthy_endpoints)
    <3> DEFINE k == task[t]
    <3>1. k.lb \in Generations /\ k.healthy_endpoints \in Seq(Members(k.lb))
      BY <2>3 DEF SelInv, SelectionOK, Sound
    <3>2. /\ DOMAIN k.healthy_endpoints = 1..Len(k.healthy_endpoints)
          /\ ToSet(k.healthy_endpoints) = Found(k)
          /\ \A e \in Found(k) : e \in Members(k.lb)
      BY <3>1 DEF ToSet, Found
    <3>3. \A e \in Members(k.lb) : e \in Endpoints /\ e[1] = k.lb
      BY <3>1, MembersAreEndpoints DEF SelInv, Members
    <3>4. DOMAIN plan[k.lb].addresses = 1..Len(plan[k.lb].addresses)
      BY <3>1, AddressesOK DEF SelInv
    <3>5. /\ k.pc = "filter" => k.i \in 1..Len(plan[k.lb].addresses)
          /\ k.pc \in Choosing => k.i \in 1..Len(k.healthy_endpoints)
          /\ k.pc \in {"ask", "fallback"} => k.endpoint \in Found(k)
      BY DEF SelInv, SelectionOK, Complete, Chosen
    <3> QED BY <2>3, <3>2, <3>3, <3>4, <3>5 DEF Choosing
  <2> QED BY <2>1, <2>2, <2>3 DEF TypeOK, Ranges, Local, SelInv, Balancers
<1> QED BY <1>1, <1>2, RangesInit, SelAlways, PTL DEF Spec
===============================================================================
