------------------------ MODULE ConnectionLimiter_proofs ------------------------
(***************************************************************************)
(* The limiter's properties for any number of connections and any limit.   *)
(***************************************************************************)
EXTENDS ConnectionLimiter, FiniteSetTheorems, TLAPS

Labels == {"new", "count", "accept", "held", "release", "gone", "reject",
           "rejected"}

\* The connections at a set of labels are finitely many.
LEMMA AtFinite ==
  ASSUME NEW S
  PROVE  IsFiniteSet(At(S)) /\ Cardinality(At(S)) \in Nat
BY LimiterAssumption, FS_Subset, FS_CardinalityType DEF At

\* One connection moving between two labels changes how many connections are at
\* a set of labels by what it leaves and what it enters.
LEMMA MoveCounts ==
  ASSUME NEW S, NEW c \in Connections, NEW l, NEW m,
         pc \in [Connections -> Labels], Goto(c, l, m)
  PROVE  Cardinality(At(S)') = Cardinality(At(S))
           + (IF m \in S THEN 1 ELSE 0) - (IF l \in S THEN 1 ELSE 0)
<1>1. pc[c] = l /\ pc' = [pc EXCEPT ![c] = m]
  BY DEF Goto
<1>2. IsFiniteSet(At(S)) /\ Cardinality(At(S)) \in Nat
  BY AtFinite
<1>3. CASE l \in S /\ m \in S
  <2>1. At(S)' = At(S)
    BY <1>1, <1>3 DEF At
  <2> QED BY <2>1, <1>2, <1>3
<1>4. CASE l \notin S /\ m \notin S
  <2>1. At(S)' = At(S)
    BY <1>1, <1>4 DEF At
  <2> QED BY <2>1, <1>2, <1>4
<1>5. CASE l \notin S /\ m \in S
  <2>1. At(S)' = At(S) \cup {c} /\ c \notin At(S)
    BY <1>1, <1>5 DEF At
  <2>2. Cardinality(At(S) \cup {c}) = Cardinality(At(S)) + 1
    BY <2>1, <1>2, FS_AddElement
  <2> QED BY <2>1, <2>2, <1>2, <1>5
<1>6. CASE l \in S /\ m \notin S
  <2>1. At(S)' = At(S) \ {c} /\ c \in At(S)
    BY <1>1, <1>6 DEF At
  <2>2. Cardinality(At(S) \ {c}) = Cardinality(At(S)) - 1
    BY <2>1, <1>2, FS_RemoveElement
  <2> QED BY <2>1, <2>2, <1>2, <1>6
<1> QED BY <1>3, <1>4, <1>5, <1>6

\* The four sets of connections that the counters count.
Holding == At({"count", "accept", "held", "release"})
Active == At({"accept", "held"})
Accepted == At({"held", "release", "gone"})
Rejected == At({"rejected"})

\* The inductive invariant: every counter is exactly the size of its set.
IInv ==
  /\ permits \in Int
  /\ pc \in [Connections -> Labels]
  /\ permits + Cardinality(Holding) = MaxConnections
  /\ active_connections = Cardinality(Active)
  /\ total_accepted = Cardinality(Accepted)
  /\ total_rejected = Cardinality(Rejected)
  /\ permits >= 0

\* Every access of try_acquire and of the guard's drop keeps the counters exact.
LEMMA IInvStep == IInv /\ [Next]_vars => IInv'
<1> SUFFICES ASSUME IInv, [Next]_vars PROVE IInv'
  OBVIOUS
<1>0. /\ Cardinality(Holding) \in Nat /\ Cardinality(Active) \in Nat
      /\ Cardinality(Accepted) \in Nat /\ Cardinality(Rejected) \in Nat
      /\ MaxConnections \in Nat
  BY AtFinite, LimiterAssumption DEF Holding, Active, Accepted, Rejected
<1>M. ASSUME NEW c \in Connections, NEW l, NEW m, Goto(c, l, m)
      PROVE  /\ Cardinality(Holding') = Cardinality(Holding)
                  + (IF m \in {"count", "accept", "held", "release"} THEN 1 ELSE 0)
                  - (IF l \in {"count", "accept", "held", "release"} THEN 1 ELSE 0)
             /\ Cardinality(Active') = Cardinality(Active)
                  + (IF m \in {"accept", "held"} THEN 1 ELSE 0)
                  - (IF l \in {"accept", "held"} THEN 1 ELSE 0)
             /\ Cardinality(Accepted') = Cardinality(Accepted)
                  + (IF m \in {"held", "release", "gone"} THEN 1 ELSE 0)
                  - (IF l \in {"held", "release", "gone"} THEN 1 ELSE 0)
             /\ Cardinality(Rejected') = Cardinality(Rejected)
                  + (IF m \in {"rejected"} THEN 1 ELSE 0)
                  - (IF l \in {"rejected"} THEN 1 ELSE 0)
  BY <1>M, MoveCounts DEF IInv, Holding, Active, Accepted, Rejected
<1>T. ASSUME NEW c \in Connections, NEW l, NEW m \in Labels, Goto(c, l, m)
      PROVE  pc' \in [Connections -> Labels]
  BY <1>T DEF IInv, Goto
<1>1. ASSUME NEW c \in Connections, TryAcquire(c) PROVE IInv'
  <2>1. CASE permits > 0 /\ Goto(c, "new", "count") /\ permits' = permits - 1
    BY <1>1, <2>1, <1>0, <1>M, <1>T DEF TryAcquire, IInv, Labels
  <2>2. CASE permits = 0 /\ Goto(c, "new", "reject") /\ permits' = permits
    BY <1>1, <2>2, <1>0, <1>M, <1>T DEF TryAcquire, IInv, Labels
  <2> QED BY <1>1, <2>1, <2>2 DEF TryAcquire
<1>2. ASSUME NEW c \in Connections, CountActive(c) PROVE IInv'
  BY <1>2, <1>0, <1>M, <1>T DEF CountActive, IInv, Labels
<1>3. ASSUME NEW c \in Connections, CountAccepted(c) PROVE IInv'
  BY <1>3, <1>0, <1>M, <1>T DEF CountAccepted, IInv, Labels
<1>4. ASSUME NEW c \in Connections, CountRejected(c) PROVE IInv'
  BY <1>4, <1>0, <1>M, <1>T DEF CountRejected, IInv, Labels
<1>5. ASSUME NEW c \in Connections, DropGuard(c) PROVE IInv'
  BY <1>5, <1>0, <1>M, <1>T DEF DropGuard, IInv, Labels
<1>6. ASSUME NEW c \in Connections, ReleasePermit(c) PROVE IInv'
  BY <1>6, <1>0, <1>M, <1>T DEF ReleasePermit, IInv, Labels
<1>7. CASE UNCHANGED vars
  BY <1>7 DEF vars, IInv, Holding, Active, Accepted, Rejected, At
<1> QED BY <1>1, <1>2, <1>3, <1>4, <1>5, <1>6, <1>7 DEF Next

LEMMA IInvAlways == Spec => []IInv
<1>1. Init => IInv
  <2> SUFFICES ASSUME Init PROVE IInv
    OBVIOUS
  <2>1. Holding = {} /\ Active = {} /\ Accepted = {} /\ Rejected = {}
    BY DEF Init, Holding, Active, Accepted, Rejected, At
  <2> QED BY <2>1, FS_EmptySet, LimiterAssumption DEF Init, IInv, Labels
<1> QED BY <1>1, IInvStep, PTL DEF Spec

\* Type correctness: permits stay within 0..MaxConnections, counters unsigned.
THEOREM TypeCorrect == Spec => []TypeOK
<1>1. IInv => TypeOK
  BY AtFinite, LimiterAssumption
  DEF IInv, TypeOK, Labels, Holding, Active, Accepted, Rejected
<1> QED BY <1>1, IInvAlways, PTL

\* The counters of the limiter are exact at every moment.
THEOREM ExactCounters == Spec => []CountersExact
<1>1. IInv => CountersExact
  BY DEF IInv, CountersExact, Holding, Active, Accepted, Rejected
<1> QED BY <1>1, IInvAlways, PTL

\* The reported number of active connections never exceeds the permits handed
\* out, for any limit and any number of concurrent attempts and drops.
THEOREM LimitAlwaysHolds == Spec => []LimitHolds
<1>1. IInv => LimitHolds
  <2> SUFFICES ASSUME IInv PROVE LimitHolds
    OBVIOUS
  <2>1. Active \subseteq Holding
    BY DEF Active, Holding, At
  <2>2. IsFiniteSet(Holding) /\ Cardinality(Holding) \in Nat /\ Cardinality(Active) \in Nat
    BY AtFinite DEF Active, Holding
  <2>3. Cardinality(Active) <= Cardinality(Holding)
    BY <2>1, <2>2, FS_Subset
  <2> QED BY <2>2, <2>3, LimiterAssumption DEF IInv, LimitHolds
<1> QED BY <1>1, IInvAlways, PTL

\* Nothing leaks once every connection is over.
THEOREM NeverLeaks == Spec => []NothingLeaks
<1>1. IInv => NothingLeaks
  <2> SUFFICES ASSUME IInv, At({"gone", "rejected"}) = Connections
               PROVE  /\ permits = MaxConnections
                      /\ active_connections = 0
                      /\ total_accepted + total_rejected = Cardinality(Connections)
    BY DEF NothingLeaks
  <2>1. Holding = {} /\ Active = {}
    BY DEF Holding, Active, At
  <2>2. /\ Accepted \cup Rejected = Connections
        /\ Accepted \cap Rejected = {}
    BY DEF Accepted, Rejected, At
  <2>3. IsFiniteSet(Accepted) /\ IsFiniteSet(Rejected)
    BY AtFinite DEF Accepted, Rejected
  <2>4. Cardinality(Connections) = Cardinality(Accepted) + Cardinality(Rejected)
    <3>1. Cardinality(Accepted) \in Nat /\ Cardinality(Rejected) \in Nat
      BY <2>3, FS_CardinalityType
    <3> QED BY <2>2, <2>3, <3>1, FS_Union, FS_EmptySet
  <2> QED BY <2>1, <2>4, FS_EmptySet, LimiterAssumption DEF IInv
<1> QED BY <1>1, IInvAlways, PTL
================================================================================
