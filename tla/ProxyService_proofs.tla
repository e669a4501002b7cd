-------------------------- MODULE ProxyService_proofs --------------------------
(***************************************************************************)
(* What is proved about the forwarding service, for any number of requests *)
(* and upstreams, any timeout and any wrap-around of the counter.          *)
(***************************************************************************)
EXTENDS ProxyService, FiniteSetTheorems, TLAPS

Counted == {r \in Requests : upstream[r] # None /\ status[r] # None}
Errors == {r \in Counted : status[r] >= 400}

\* A request has an answer only once it is past waiting, and an upstream from the
\* moment it waits.
Progress ==
  \A r \in Requests :
    /\ phase[r] \in {"new", "waiting"} => status[r] = None
    /\ phase[r] = "new" => upstream[r] = None
    /\ phase[r] = "waiting" => upstream[r] # None

Exact == requests_total = Cardinality(Counted) /\ errors_total = Cardinality(Errors)

IInv == TypeOK /\ Progress /\ Exact

LEMMA CountedFinite ==
  /\ IsFiniteSet(Counted) /\ Cardinality(Counted) \in Nat
  /\ IsFiniteSet(Errors) /\ Cardinality(Errors) \in Nat
<1>1. IsFiniteSet(Counted)
  BY ServiceAssumption, FS_Subset DEF Counted
<1>2. IsFiniteSet(Errors)
  BY <1>1, FS_Subset DEF Errors
<1> QED BY <1>1, <1>2, FS_CardinalityType

\* An answer that is recorded goes to a request that had none.
LEMMA AnswerCounts ==
  ASSUME TypeOK, Exact, NEW r \in Requests, NEW code \in Nat \ {0}, status[r] = None,
         Answer(r, code), RecordRequest(code),
         upstream' \in [Requests -> Nat], upstream'[r] # None,
         \A q \in Requests \ {r} : upstream'[q] = upstream[q]
  PROVE  Exact'
<1>0. {None, BadGateway, GatewayTimeout} \cup Statuses \subseteq Nat
  BY ServiceAssumption DEF None, BadGateway, GatewayTimeout
<1>1. /\ status' = [status EXCEPT ![r] = code] /\ r \notin Counted
      /\ status \in [Requests -> Nat]
  BY <1>0 DEF Answer, Counted, TypeOK
<1>2. Counted' = Counted \cup {r}
  BY <1>1 DEF Counted, None
<1>3. Cardinality(Counted') = Cardinality(Counted) + 1
  BY <1>1, <1>2, CountedFinite, FS_AddElement
<1>4. CASE code >= 400
  <2>1. Errors' = Errors \cup {r} /\ r \notin Errors
    BY <1>1, <1>2, <1>4 DEF Errors, Counted
  <2>2. Cardinality(Errors') = Cardinality(Errors) + 1
    BY <2>1, CountedFinite, FS_AddElement
  <2> QED BY <1>3, <1>4, <2>2, CountedFinite DEF Exact, RecordRequest
<1>5. CASE ~(code >= 400)
  <2>1. Errors' = Errors
    BY <1>1, <1>2, <1>5 DEF Errors, Counted
  <2> QED BY <1>3, <1>5, <2>1, CountedFinite DEF Exact, RecordRequest
<1> QED BY <1>4, <1>5

\* A step that answers nothing that is counted records nothing.
LEMMA SilenceCounts ==
  ASSUME Exact, UNCHANGED metrics,
         \A q \in Requests :
           \/ upstream'[q] = upstream[q] /\ status'[q] = status[q]
           \/ status[q] = None /\ status'[q] = None
           \/ upstream[q] = None /\ upstream'[q] = None
  PROVE  Exact'
<1>1. Counted' = Counted
  BY DEF Counted
<1>2. Errors' = Errors
  BY <1>1 DEF Errors, Counted
<1> QED BY <1>1, <1>2 DEF Exact, metrics

-------------------------------------------------------------------------------

LEMMA IInvInit == Init => IInv
<1> SUFFICES ASSUME Init PROVE IInv
  OBVIOUS
<1>1. Counted = {} /\ Errors = {}
  BY DEF Init, Counted, Errors
<1>2. TypeOK
  BY ServiceAssumption DEF Init, TypeOK, None, BadGateway, GatewayTimeout
<1> QED BY <1>1, <1>2, FS_EmptySet
        DEF Init, IInv, Progress, Exact, None

LEMMA NoUpstreamKeeps ==
  ASSUME IInv, NEW r \in Requests, NoUpstream(r)
  PROVE  IInv'
<1>1. TypeOK' /\ Progress'
  BY ServiceAssumption
     DEF IInv, TypeOK, Progress, NoUpstream, Goto, Answer, balancer, transfer,
         metrics, None, BadGateway, GatewayTimeout
<1>2. Exact'
  BY SilenceCounts DEF IInv, TypeOK, Progress, NoUpstream, Goto, Answer
<1> QED BY <1>1, <1>2 DEF IInv

LEMMA ForwardKeeps ==
  ASSUME IInv, NEW r \in Requests, Forward(r)
  PROVE  IInv'
<1> DEFINE idx == next_upstream % num_upstreams
<1>1. /\ num_upstreams \in Nat \ {0} /\ next_upstream \in Nat
      /\ idx \in 0..(num_upstreams - 1)
      /\ (next_upstream + 1) % CounterMod \in 0..(CounterMod - 1)
  BY ServiceAssumption DEF IInv, TypeOK, Forward
<1>2. /\ phase[r] = "new" /\ status[r] = None /\ upstream[r] = None
      /\ upstream' = [upstream EXCEPT ![r] = idx + 1]
      /\ next_upstream' = (next_upstream + 1) % CounterMod
      /\ UNCHANGED <<num_upstreams, elapsed, transfer>>
  BY DEF Forward, Goto, IInv, Progress
<1> HIDE DEF idx
<1>3. upstream' \in [Requests -> 0..num_upstreams] /\ upstream'[r] # None
  BY <1>1, <1>2 DEF IInv, TypeOK, None
<1>4. CASE /\ phase' = [phase EXCEPT ![r] = "done"]
           /\ RecordRequest(BadGateway) /\ Answer(r, BadGateway)
  <2>1. TypeOK' /\ Progress'
    BY <1>1, <1>2, <1>3, <1>4
       DEF IInv, TypeOK, Progress, Answer, RecordRequest, transfer, None,
           BadGateway, GatewayTimeout
  <2>2. Exact'
    BY <1>1, <1>2, <1>3, <1>4, AnswerCounts DEF IInv, TypeOK, BadGateway
  <2> QED BY <2>1, <2>2 DEF IInv
<1>5. CASE phase' = [phase EXCEPT ![r] = "waiting"] /\ UNCHANGED <<status, metrics>>
  <2>1. TypeOK' /\ Progress'
    BY <1>1, <1>2, <1>3, <1>5
       DEF IInv, TypeOK, Progress, transfer, metrics, None
  <2>2. Exact'
    BY <1>2, <1>5, SilenceCounts DEF IInv, TypeOK
  <2> QED BY <2>1, <2>2 DEF IInv
<1> QED BY <1>4, <1>5 DEF Forward, Goto

\* Either way in which the wait for the headers ends.
LEMMA PollKeeps ==
  ASSUME IInv, NEW r \in Requests, Poll(r)
  PROVE  IInv'
<1>1. /\ phase[r] = "waiting" /\ status[r] = None /\ upstream[r] # None
      /\ UNCHANGED <<balancer, upstream, elapsed, transfer>>
  BY DEF Poll, Answered, TimedOut, Goto, IInv, Progress
<1>2. PICK code, to :
        /\ code \in {BadGateway, GatewayTimeout} \cup Statuses
        /\ to \in {"done", "streaming"} /\ phase' = [phase EXCEPT ![r] = to]
        /\ RecordRequest(code) /\ Answer(r, code)
  <2>1. CASE Answered(r)
    <3>1. reply[r] \in {BadGateway} \cup Statuses
      BY <2>1 DEF Answered, IInv, TypeOK
    <3> QED BY <2>1, <3>1 DEF Answered, Goto
  <2>2. CASE TimedOut(r)
    BY <2>2 DEF TimedOut, Goto
  <2> QED BY <2>1, <2>2 DEF Poll
<1>3. code \in Nat \ {0}
  BY <1>2, ServiceAssumption DEF BadGateway, GatewayTimeout
<1>4. TypeOK' /\ Progress'
  BY <1>1, <1>2, <1>3
     DEF IInv, TypeOK, Progress, Answer, RecordRequest, balancer, transfer, None
<1>5. Exact'
  BY <1>1, <1>2, <1>3, AnswerCounts DEF IInv, TypeOK
<1> QED BY <1>4, <1>5 DEF IInv

LEMMA EnvironmentKeeps ==
  ASSUME IInv,
         \/ \E r \in Requests :
              \/ Deliver(r) \/ BodyEnds(r) \/ ClientLeaves(r)
              \/ \E code \in Statuses \cup {BadGateway} : UpstreamReplies(r, code)
         \/ Tick
  PROVE  IInv'
<1>1. UNCHANGED <<upstream, status, metrics>>
  BY DEF Deliver, BodyEnds, ClientLeaves, UpstreamReplies, Tick
<1>2. Exact'
  BY <1>1, SilenceCounts DEF IInv
<1>3. ASSUME NEW r \in Requests, BodyEnds(r) \/ ClientLeaves(r)
      PROVE  TypeOK' /\ Progress'
  BY <1>1, <1>3 DEF IInv, TypeOK, Progress, BodyEnds, ClientLeaves,
     Goto, balancer, transfer, metrics
<1>4. ASSUME NEW r \in Requests, NEW code \in Statuses \cup {BadGateway},
             UpstreamReplies(r, code)
      PROVE  TypeOK' /\ Progress'
  BY <1>1, <1>4 DEF IInv, TypeOK, Progress, UpstreamReplies, balancer, transfer, metrics
<1>5. ASSUME NEW r \in Requests, Deliver(r)
      PROVE  TypeOK' /\ Progress'
  BY <1>1, <1>5 DEF IInv, TypeOK, Progress, Deliver, balancer, transfer, metrics
<1>6. CASE Tick
  <2>1. UNCHANGED <<balancer, phase, transfer>>
    BY <1>6 DEF Tick
  <2>2. elapsed' \in [Requests -> 0..Timeout]
    BY <1>6, ServiceAssumption DEF Tick, IInv, TypeOK
  <2> QED BY <1>1, <1>2, <2>1, <2>2
          DEF IInv, TypeOK, Progress, balancer, transfer, metrics
<1> QED BY <1>2, <1>3, <1>4, <1>5, <1>6 DEF IInv

LEMMA IInvStep == IInv /\ [Next]_vars => IInv'
<1> SUFFICES ASSUME IInv, [Next]_vars PROVE IInv'
  OBVIOUS
<1>1. CASE UNCHANGED vars
  BY <1>1 DEF vars, balancer, transfer, metrics, IInv, TypeOK, Progress, Exact, Counted, Errors
<1> QED BY <1>1, NoUpstreamKeeps, ForwardKeeps, PollKeeps, EnvironmentKeeps DEF Next

LEMMA IInvAlways == Spec => []IInv
BY IInvInit, IInvStep, PTL DEF Spec

-------------------------------------------------------------------------------

\* Every field keeps its type; the index of a selected upstream is in range for
\* any number of upstreams and any wrap-around of the shared counter.
THEOREM TypeCorrect == Spec => []TypeOK
<1>1. IInv => TypeOK
  BY DEF IInv
<1> QED BY <1>1, IInvAlways, PTL

\* Every answer of a request that got an upstream is counted exactly once, and as
\* an error exactly when it is one.
THEOREM MetricsAreExact == Spec => []MetricsMatchAnswers
<1>1. IInv => MetricsMatchAnswers
  <2> SUFFICES ASSUME IInv PROVE MetricsMatchAnswers
    OBVIOUS
  <2>1. {r \in Selected : status[r] # None} = Counted
    BY DEF Selected, Counted
  <2>2. {r \in Counted : status[r] >= 400} = Errors
    BY DEF Errors
  <2> QED BY <2>1, <2>2 DEF IInv, Exact, MetricsMatchAnswers
<1> QED BY <1>1, IInvAlways, PTL

-------------------------------------------------------------------------------
\* The balance of the round robin

\* Whether the present round has passed the upstream u.
Past(u) == IF next_upstream % num_upstreams >= u THEN 1 ELSE 0

\* The counter has wrapped around q times, and since the last time it has counted
\* to next_upstream.  Each of these periods leaves two upstreams apart by at most
\* one request; the present one, by whether its round has passed them.
Turns ==
  \E q \in Nat :
    /\ Cardinality(Selected) = q * CounterMod + next_upstream
    /\ \A u, v \in 1..num_upstreams :
         Cardinality(ServedBy(u)) + Past(v) <= Cardinality(ServedBy(v)) + q + Past(u)

LEMMA ServedFinite ==
  /\ IsFiniteSet(Selected) /\ Cardinality(Selected) \in Nat
  /\ \A u : IsFiniteSet(ServedBy(u)) /\ Cardinality(ServedBy(u)) \in Nat
<1>1. IsFiniteSet(Selected) /\ \A u : IsFiniteSet(ServedBy(u))
  BY ServiceAssumption, FS_Subset DEF Selected, ServedBy
<1> QED BY <1>1, FS_CardinalityType

LEMMA Remainder ==
  ASSUME NEW n \in Nat \ {0}, NEW a \in Nat, NEW r \in Nat, r < n
  PROVE  (n * a + r) % n = r
OBVIOUS

\* The remainder of the next number is the next remainder, or zero.
LEMMA NextRemainder ==
  ASSUME NEW x \in Nat, NEW n \in Nat \ {0}
  PROVE  /\ x % n \in 0..(n - 1)
         /\ (x + 1) % n = IF (x % n) + 1 = n THEN 0 ELSE (x % n) + 1
<1> DEFINE a == x \div n
           r == x - n * a
<1>1. n * a <= x
  OBVIOUS
<1>2. x < n * a + n
  OBVIOUS
<1>3. a \in Nat
  OBVIOUS
<1>4. n * a \in Nat /\ n * (a + 1) = n * a + n
  <2> HIDE DEF a
  <2> QED BY <1>3
<1>5. r \in Nat /\ r < n /\ x = n * a + r
  BY <1>1, <1>2, <1>4
<1> HIDE DEF a, r
<1>6. x % n = r
  <2>1. (n * a + r) % n = r
    BY <1>3, <1>5, Remainder, Zenon
  <2> QED BY <1>5, <2>1, Zenon
<1>7. CASE r + 1 < n
  <2>1. x + 1 = n * a + (r + 1)
    BY <1>4, <1>5
  <2>2. r + 1 \in Nat
    BY <1>5
  <2>3. (n * a + (r + 1)) % n = r + 1
    BY <1>3, <1>7, <2>2, Remainder, Zenon
  <2>4. (x + 1) % n = r + 1
    BY <2>1, <2>3, Zenon
  <2>5. r + 1 # n
    BY <1>5, <1>7
  <2> QED BY <1>5, <1>6, <1>7, <2>4, <2>5
<1>8. CASE r + 1 = n
  <2>1. x + 1 = n * (a + 1) + 0
    BY <1>4, <1>5, <1>8
  <2>2. a + 1 \in Nat /\ 0 \in Nat /\ 0 < n
    BY <1>3
  <2>3. (n * (a + 1) + 0) % n = 0
    BY <2>2, Remainder, Zenon
  <2>4. (x + 1) % n = 0
    BY <2>1, <2>3, Zenon
  <2> QED BY <1>5, <1>6, <1>8, <2>4
<1> QED BY <1>5, <1>7, <1>8

LEMMA DivBound ==
  ASSUME NEW a \in Nat, NEW m \in Nat \ {0}, NEW q \in Nat, q * m <= a
  PROVE  q <= a \div m
  OBVIOUS

\* A request that gets an upstream moves the round on by one, or ends the period.
LEMMA ForwardTurns ==
  ASSUME IInv, Turns, NEW r \in Requests, Forward(r)
  PROVE  Turns'
<1> DEFINE n == num_upstreams
           x == next_upstream
           rem == x % n
           served == rem + 1
<1>1. /\ n \in Nat \ {0} /\ n' = n
      /\ x \in Nat /\ x < CounterMod /\ CounterMod \in Nat \ {0}
      /\ x' = (x + 1) % CounterMod
      /\ upstream[r] = None /\ upstream' = [upstream EXCEPT ![r] = served]
      /\ upstream \in [Requests -> 0..n]
  BY ServiceAssumption DEF IInv, TypeOK, Progress, Forward, Goto
<1>2. rem \in 0..(n - 1) /\ (x + 1) % n = IF served = n THEN 0 ELSE served
  BY <1>1, NextRemainder
<1>3. x' = IF x + 1 = CounterMod THEN 0 ELSE x + 1
  <2>1. x % CounterMod = x
    BY <1>1
  <2>2. (x + 1) % CounterMod
          = IF (x % CounterMod) + 1 = CounterMod THEN 0 ELSE (x % CounterMod) + 1
    BY <1>1, NextRemainder
  <2> QED BY <1>1, <2>1, <2>2, Zenon
<1>4. Cardinality(Selected') = Cardinality(Selected) + 1
  <2>1. Selected' = Selected \cup {r} /\ r \notin Selected
    BY <1>1, <1>2 DEF Selected, None
  <2> QED BY <2>1, ServedFinite, FS_AddElement
<1>5. \A u \in 1..n : Cardinality(ServedBy(u)')
                      = Cardinality(ServedBy(u)) + (IF u = served THEN 1 ELSE 0)
  <2> TAKE u \in 1..n
  <2>1. CASE u = served
    <3>1. ServedBy(u)' = ServedBy(u) \cup {r} /\ r \notin ServedBy(u)
      BY <1>1, <2>1 DEF ServedBy, None
    <3> QED BY <2>1, <3>1, ServedFinite, FS_AddElement
  <2>2. CASE u # served
    <3>1. ServedBy(u)' = ServedBy(u)
      BY <1>1, <2>2 DEF ServedBy, None
    <3> QED BY <2>2, <3>1, ServedFinite
  <2> QED BY <2>1, <2>2
<1>6. \A u \in 1..n : Past(u) = (IF rem >= u THEN 1 ELSE 0)
  BY DEF Past
<1>7. \A u \in 1..n : Past(u)' = (IF x' % n >= u THEN 1 ELSE 0)
  BY <1>1 DEF Past
<1>8. PICK q \in Nat :
        /\ Cardinality(Selected) = q * CounterMod + x
        /\ \A u, v \in 1..n :
             Cardinality(ServedBy(u)) + Past(v) <= Cardinality(ServedBy(v)) + q + Past(u)
  BY DEF Turns
<1>9. \A u, v \in 1..n :
        Cardinality(ServedBy(u)') + (IF served >= v THEN 1 ELSE 0)
          <= Cardinality(ServedBy(v)') + q + (IF served >= u THEN 1 ELSE 0)
  <2> TAKE u, v \in 1..n
  <2>1. /\ Cardinality(ServedBy(u)) \in Nat /\ Cardinality(ServedBy(v)) \in Nat
        /\ Cardinality(ServedBy(u)) + Past(v) <= Cardinality(ServedBy(v)) + q + Past(u)
    BY <1>8, ServedFinite
  <2> HIDE DEF rem
  <2> QED BY <1>1, <1>2, <1>5, <1>6, <2>1
<1>10. \A u \in 1..n : Cardinality(ServedBy(u)') \in Nat
  BY <1>5, ServedFinite
<1>11. CASE x + 1 = CounterMod
  <2>1. x' = 0 /\ x' % n = 0
    BY <1>1, <1>3, <1>11
  <2>2. Cardinality(Selected') = (q + 1) * CounterMod + x'
    BY <1>1, <1>4, <1>8, <1>11, <2>1
  <2>3. \A u, v \in 1..n :
          Cardinality(ServedBy(u)') + Past(v)'
            <= Cardinality(ServedBy(v)') + (q + 1) + Past(u)'
    BY <1>1, <1>7, <1>9, <1>10, <2>1
  <2> QED BY <1>1, <2>2, <2>3 DEF Turns
<1>12. CASE x + 1 # CounterMod
  <2>1. x' = x + 1 /\ x' % n = IF served = n THEN 0 ELSE served
    BY <1>2, <1>3, <1>12
  <2>2. Cardinality(Selected') = q * CounterMod + x'
    BY <1>1, <1>4, <1>8, <2>1
  <2>3. \A u, v \in 1..n :
          Cardinality(ServedBy(u)') + Past(v)'
            <= Cardinality(ServedBy(v)') + q + Past(u)'
    <3> HIDE DEF rem
    <3> QED BY <1>1, <1>2, <1>7, <1>9, <1>10, <2>1
  <2> QED BY <1>1, <2>2, <2>3 DEF Turns
<1> QED BY <1>11, <1>12

LEMMA TurnsStep == IInv /\ Turns /\ [Next]_vars => Turns'
<1> SUFFICES ASSUME IInv, Turns, [Next]_vars PROVE Turns'
  OBVIOUS
<1>1. CASE UNCHANGED <<balancer, upstream>>
  BY <1>1 DEF Turns, Past, Selected, ServedBy, balancer
<1>2. CASE \E r \in Requests : Forward(r)
  BY <1>2, ForwardTurns
<1>3. CASE UNCHANGED vars
  BY <1>1, <1>3 DEF vars
<1> QED BY <1>1, <1>2, <1>3 DEF Next, NoUpstream, Poll, Answered, TimedOut, BodyEnds,
     ClientLeaves, UpstreamReplies, Deliver, Tick

\* However many requests interleave, no upstream is ahead of another by more than
\* one request for every period of the counter that has begun.
THEOREM LoadsStayBalanced == Spec => []RoundRobinBalanced
<1>1. Init => Turns
  <2> SUFFICES ASSUME Init PROVE Turns
    OBVIOUS
  <2>1. Selected = {} /\ \A u \in 1..num_upstreams : ServedBy(u) = {}
    BY ServiceAssumption DEF Init, Selected, ServedBy, None
  <2>2. \A u \in 1..num_upstreams : Past(u) \in {0, 1} /\ Past(u) = 0
    BY ServiceAssumption DEF Init, Past
  <2>3. Cardinality(Selected) = 0 * CounterMod + next_upstream
    BY <2>1, FS_EmptySet, ServiceAssumption DEF Init
  <2> QED BY <2>1, <2>2, <2>3, FS_EmptySet DEF Turns
<1>2. IInv /\ Turns => RoundRobinBalanced
  <2> SUFFICES ASSUME IInv, Turns PROVE RoundRobinBalanced
    OBVIOUS
  <2> DEFINE a == Cardinality(Selected) + CounterMod - 1
             periods == a \div CounterMod
  <2>1. CounterMod \in Nat \ {0} /\ next_upstream \in 0..(CounterMod - 1)
    BY ServiceAssumption DEF IInv, TypeOK
  <2>2. PICK q \in Nat :
          /\ Cardinality(Selected) = q * CounterMod + next_upstream
          /\ \A u, v \in 1..num_upstreams :
               Cardinality(ServedBy(u)) + Past(v) <= Cardinality(ServedBy(v)) + q + Past(u)
    BY DEF Turns
  <2>3. a \in Nat /\ q * CounterMod \in Nat
    BY <2>1, ServedFinite
  <2>4. q <= periods
    BY <2>1, <2>2, <2>3, DivBound
  <2>5. ASSUME next_upstream # 0 PROVE q + 1 <= periods
    <3>1. (q + 1) * CounterMod <= a
      BY <2>1, <2>2, <2>5
    <3> QED BY <2>1, <2>3, <3>1, DivBound
  <2>6. periods \in Nat
    BY <2>1, <2>3
  <2>7. ASSUME NEW u \in 1..num_upstreams
        PROVE  Past(u) \in {0, 1} /\ (next_upstream = 0 => Past(u) = 0)
    BY <2>1, ServiceAssumption DEF Past, IInv, TypeOK
  <2> HIDE DEF periods
  <2>8. ASSUME NEW u \in 1..num_upstreams, NEW v \in 1..num_upstreams
        PROVE  Cardinality(ServedBy(u)) <= Cardinality(ServedBy(v)) + periods
    BY <2>2, <2>4, <2>5, <2>6, <2>7, ServedFinite
  <2> QED BY <2>8 DEF RoundRobinBalanced, periods
<1> QED BY <1>1, <1>2, TurnsStep, IInvAlways, PTL DEF Spec
===============================================================================
