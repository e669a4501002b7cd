----------------------------- MODULE Router_proofs -----------------------------
(***************************************************************************)
(* What is proved about the route table, for any routes and requests, any  *)
(* prefixes and patterns, and a table of any length.                       *)
(***************************************************************************)
EXTENDS Router, SequenceTheorems, FiniteSetTheorems, WellFoundedInduction, TLAPS

LEMMA MinIsLeast ==
  ASSUME NEW S, S \subseteq Nat, S # {}
  PROVE  Min(S) \in S /\ \A y \in S : Min(S) <= y
<1>1. PICK x \in S : \A y \in S : ~(<<y, x>> \in OpToRel(<, Nat))
  BY NatLessThanWellFounded, WFMin
<1>2. ASSUME NEW y \in S PROVE x <= y
  <2> DEFINE z == <<y, x>>
  <2>1. z \in Nat \X Nat /\ z[1] = y /\ z[2] = x
    OBVIOUS
  <2>2. ~(z \in OpToRel(<, Nat))
    BY <1>1
  <2>3. ~(z[1] < z[2])
    BY <2>1, <2>2, Zenon DEF OpToRel
  <2> QED BY <2>1, <2>3
<1> QED BY <1>2 DEF Min

LEMMA Priorities ==
  \A r \in Candidates : Priority(r) \in {100, 50, 25}
BY RouterAssumption DEF Priority, RoutePriority

\* The first match, without the library's operator
LEMMA FirstMatchIs ==
  ASSUME NEW q
  PROVE  LET I == {i \in 1..Len(routes) : Matches(routes[i], q, regex_cache)}
         IN FirstMatch(q) = IF I # {} THEN Min(I) ELSE 0
BY DEF FirstMatch, SelectInSeq

-------------------------------------------------------------------------------
\* The sort

Sorting(s, p) ==
  /\ p \in [1..Len(s) -> 1..Len(s)]
  /\ \A k \in 1..Len(s) : \E i \in 1..Len(s) : p[i] = k
  /\ \A i, j \in 1..Len(s) : i < j => Before(s, p[i], p[j])

\* Every list can be sorted: the rank of an entry is the number of those that belong
\* before it, and no two entries have the same rank.
LEMMA Sortable ==
  ASSUME NEW s \in Seq(Candidates)
  PROVE  \E p : Sorting(s, p)
<1> DEFINE n == Len(s)
           B(k) == {j \in 1..n : Before(s, j, k)}
           rank == [k \in 1..n |-> Cardinality(B(k)) + 1]
<1>1. n \in Nat /\ \A i \in 1..n : s[i] \in Candidates /\ Priority(s[i]) \in {100, 50, 25}
  BY Priorities
<1>2. IsFiniteSet(1..n) /\ Cardinality(1..n) = n
  BY <1>1, FS_Interval
<1>3. ASSUME NEW k \in 1..n PROVE B(k) \subseteq 1..n /\ k \notin B(k)
  BY <1>1 DEF Before
<1>4. ASSUME NEW k \in 1..n PROVE IsFiniteSet(B(k)) /\ Cardinality(B(k)) \in 0..(n - 1)
  <2>1. B(k) \in SUBSET (1..n) /\ B(k) # 1..n
    BY <1>3
  <2> HIDE DEF B
  <2>2. IsFiniteSet(B(k)) /\ Cardinality(B(k)) <= n /\ Cardinality(B(k)) # n
    BY <1>2, <2>1, FS_Subset
  <2>3. Cardinality(B(k)) \in Nat
    BY <2>2, FS_CardinalityType
  <2> QED BY <1>1, <2>2, <2>3
<1>5. ASSUME NEW j \in 1..n, NEW k \in 1..n, Before(s, j, k)
      PROVE  Cardinality(B(j)) < Cardinality(B(k))
  <2>1. B(j) \in SUBSET B(k)
    BY <1>1, <1>5 DEF Before
  <2>2. B(j) # B(k)
    BY <1>3, <1>5
  <2> HIDE DEF B
  <2>3. /\ Cardinality(B(j)) <= Cardinality(B(k)) /\ Cardinality(B(j)) # Cardinality(B(k))
    BY <1>4, <2>1, <2>2, FS_Subset
  <2> QED BY <1>1, <1>4, <2>3
<1> HIDE DEF B
<1>6. ASSUME NEW j \in 1..n, NEW k \in 1..n, j # k
      PROVE  Before(s, j, k) \/ Before(s, k, j)
  BY <1>1, <1>6 DEF Before
<1>7. rank \in [1..n -> 1..n]
  BY <1>1, <1>4
<1>8. ASSUME NEW j \in 1..n, NEW k \in 1..n PROVE rank[j] < rank[k] => Before(s, j, k)
  BY <1>1, <1>4, <1>5, <1>6
<1>9. ASSUME NEW j \in 1..n, NEW k \in 1..n, rank[j] = rank[k] PROVE j = k
  BY <1>1, <1>4, <1>5, <1>6, <1>9
<1> HIDE DEF rank, n
<1>10. rank \in Injection(1..n, 1..n)
  BY <1>7, <1>9 DEF Injection, IsInjective
<1>11. rank \in Surjection(1..n, 1..n)
  BY <1>2, <1>10, FS_Injection
<1>12. \A i \in 1..n : \E k \in 1..n : rank[k] = i
  BY <1>11 DEF Surjection
<1> DEFINE p == [i \in 1..n |-> CHOOSE k \in 1..n : rank[k] = i]
<1>13. \A i \in 1..n : p[i] \in 1..n /\ rank[p[i]] = i
  BY <1>12
<1>14. p \in [1..n -> 1..n]
  BY <1>13
<1> HIDE DEF p
<1>15. \A k \in 1..n : p[rank[k]] = k /\ rank[k] \in 1..n
  BY <1>7, <1>9, <1>13
<1>16. \A i, j \in 1..n : i < j => Before(s, p[i], p[j])
  BY <1>8, <1>13
<1> QED BY <1>14, <1>15, <1>16 DEF Sorting, n

LEMMA SortRoutesIs ==
  ASSUME NEW s \in Seq(Candidates)
  PROVE  \E o : Sorting(s, o) /\ SortRoutes(s) = [i \in 1..Len(s) |-> s[o[i]]]
<1> DEFINE n == Len(s)
           Good(x) == \A i, j \in DOMAIN s : i < j => Before(s, x[i], x[j])
           o == CHOOSE x \in Bijection(DOMAIN s, DOMAIN s) : Good(x)
<1> PICK p : Sorting(s, p)
  BY Sortable
<1>1. n \in Nat /\ DOMAIN s = 1..n /\ \A i \in 1..n : s[i] \in Candidates
  OBVIOUS
<1>2. ASSUME NEW i \in 1..n, NEW j \in 1..n, p[i] = p[j]
      PROVE  i = j
  <2>1. p[i] \in 1..n
    BY <1>1 DEF Sorting
  <2>2. ASSUME NEW k \in 1..n PROVE ~Before(s, k, k)
    BY <1>1, Priorities DEF Before
  <2>3. ~(i < j) /\ ~(j < i)
    BY <1>2, <2>1, <2>2 DEF Sorting
  <2> QED BY <2>3, <1>1
<1>3. p \in Bijection(DOMAIN s, DOMAIN s) /\ Good(p)
  BY <1>1, <1>2 DEF Sorting, Bijection, Injection, Surjection, IsInjective
<1>4. o \in Bijection(DOMAIN s, DOMAIN s) /\ Good(o)
  <2> HIDE DEF Good
  <2> QED BY <1>3
<1>5. SortRoutes(s) = [i \in 1..n |-> s[o[i]]]
  BY <1>1 DEF SortRoutes
<1>6. Sorting(s, o)
  BY <1>1, <1>4 DEF Sorting, Bijection, Injection, Surjection
<1> QED BY <1>5, <1>6

-------------------------------------------------------------------------------
\* The table is always the stable sort of the additions that are left.

Sorted ==
  /\ added \in Seq(Candidates)
  /\ \E p : Sorting(added, p) /\ routes = [i \in 1..Len(added) |-> added[p[i]]]

LEMMA SortedFacts ==
  ASSUME Sorted
  PROVE  /\ routes \in Seq(Candidates) /\ Len(routes) = Len(added)
         /\ \A i, j \in 1..Len(routes) :
              i < j => Priority(routes[i]) >= Priority(routes[j])
<1>1. PICK p : Sorting(added, p) /\ routes = [i \in 1..Len(added) |-> added[p[i]]]
  BY DEF Sorted
<1>2. added \in Seq(Candidates) /\ Len(added) \in Nat
  BY DEF Sorted
<1>3. \A i \in 1..Len(added) : p[i] \in 1..Len(added) /\ added[p[i]] \in Candidates
  BY <1>1, <1>2 DEF Sorting
<1>4. routes \in Seq(Candidates) /\ Len(routes) = Len(added)
  BY <1>1, <1>2, <1>3
<1>5. ASSUME NEW i \in 1..Len(added), NEW j \in 1..Len(added), i < j
      PROVE  Priority(routes[i]) >= Priority(routes[j])
  <2>1. Before(added, p[i], p[j]) /\ routes[i] = added[p[i]] /\ routes[j] = added[p[j]]
    BY <1>1, <1>5 DEF Sorting
  <2> QED BY <2>1, <1>3, Priorities DEF Before
<1> QED BY <1>4, <1>5

LEMMA SortedInit == Init => Sorted
<1> SUFFICES ASSUME Init PROVE Sorted
  OBVIOUS
<1>1. PICK n \in 0..MaxRoutes : added \in [1..n -> Candidates]
  BY DEF Init, BoundedSeq, SeqOf
<1>2. added \in Seq(Candidates) /\ Len(added) = n
  BY <1>1, RouterAssumption
<1>3. PICK o : Sorting(added, o) /\ SortRoutes(added) = [i \in 1..n |-> added[o[i]]]
  BY <1>2, SortRoutesIs
<1> QED BY <1>2, <1>3 DEF Init, Sorted

LEMMA SortedAdd ==
  ASSUME Sorted, NEW r \in Candidates, AddRoute(r)
  PROVE  Sorted'
<1> DEFINE n == Len(added)
           s == Append(routes, r)
           t == Append(added, r)
<1>1. PICK p : Sorting(added, p) /\ routes = [i \in 1..n |-> added[p[i]]]
  BY DEF Sorted
<1>2. /\ n \in Nat /\ s \in Seq(Candidates) /\ t \in Seq(Candidates)
      /\ Len(s) = n + 1 /\ Len(t) = n + 1 /\ s[n + 1] = r /\ t[n + 1] = r
      /\ \A i \in 1..n : s[i] = routes[i] /\ t[i] = added[i]
  BY SortedFacts DEF Sorted
<1>3. PICK o : Sorting(s, o) /\ SortRoutes(s) = [i \in 1..(n + 1) |-> s[o[i]]]
  <2> HIDE DEF s
  <2>1. \E o : Sorting(s, o) /\ SortRoutes(s) = [i \in 1..Len(s) |-> s[o[i]]]
    BY <1>2, SortRoutesIs
  <2> QED BY <2>1, <1>2
<1>4. routes' = [i \in 1..(n + 1) |-> s[o[i]]] /\ added' = t
  BY <1>3 DEF AddRoute
<1> HIDE DEF s, t
<1>o. /\ o \in [1..(n + 1) -> 1..(n + 1)]
      /\ \A k \in 1..(n + 1) : \E i \in 1..(n + 1) : o[i] = k
      /\ \A i, j \in 1..(n + 1) : i < j => Before(s, o[i], o[j])
  <2>1. Sorting(s, o) /\ Len(s) = n + 1
    BY <1>2, <1>3
  <2> HIDE DEF n
  <2> QED BY <2>1 DEF Sorting
<1>p. /\ p \in [1..n -> 1..n]
      /\ \A k \in 1..n : \E i \in 1..n : p[i] = k
      /\ \A i, j \in 1..n : i < j => Before(added, p[i], p[j])
  BY <1>1 DEF Sorting
<1> DEFINE pp == [i \in 1..(n + 1) |-> IF o[i] <= n THEN p[o[i]] ELSE n + 1]
<1>5. ASSUME NEW i \in 1..(n + 1)
      PROVE  o[i] \in 1..(n + 1) /\ (o[i] <= n => p[o[i]] \in 1..n)
  <2>1. n \in Nat /\ o[i] \in 1..(n + 1)
    BY <1>2, <1>o
  <2>2. o[i] <= n => o[i] \in 1..n
    BY <2>1
  <2> QED BY <2>1, <2>2, <1>p
<1>6. pp \in [1..(n + 1) -> 1..(n + 1)]
  BY <1>2, <1>5
<1>7. ASSUME NEW i \in 1..(n + 1) PROVE s[o[i]] = t[pp[i]]
  <2>1. CASE o[i] <= n
    BY <2>1, <1>1, <1>2, <1>5
  <2>2. CASE o[i] = n + 1
    BY <2>2, <1>2
  <2> QED BY <2>1, <2>2, <1>2, <1>5
<1>8. ASSUME NEW k \in 1..(n + 1) PROVE \E i \in 1..(n + 1) : pp[i] = k
  <2>1. CASE k <= n
    <3>1. PICK x \in 1..n : p[x] = k
      BY <1>2, <1>p, <2>1
    <3>2. PICK i \in 1..(n + 1) : o[i] = x
      BY <1>2, <1>o, <3>1
    <3> QED BY <3>1, <3>2, <1>2
  <2>2. CASE k = n + 1
    <3>1. PICK i \in 1..(n + 1) : o[i] = k
      BY <1>o
    <3> QED BY <3>1, <2>2, <1>2
  <2> QED BY <2>1, <2>2, <1>2
<1>9. ASSUME NEW i \in 1..(n + 1), NEW j \in 1..(n + 1), i < j
      PROVE  Before(t, pp[i], pp[j])
  <2>1. Before(s, o[i], o[j]) /\ s[o[i]] = t[pp[i]] /\ s[o[j]] = t[pp[j]]
    BY <1>o, <1>7, <1>9
  <2>2. CASE Priority(s[o[i]]) > Priority(s[o[j]])
    BY <2>1, <2>2 DEF Before
  <2>3. CASE Priority(s[o[i]]) = Priority(s[o[j]]) /\ o[i] < o[j]
    <3>1. pp[i] < pp[j]
      <4>1. CASE o[j] = n + 1
        BY <4>1, <2>3, <1>2, <1>5
      <4>2. CASE o[j] <= n
        <5>1. o[i] \in 1..n /\ o[j] \in 1..n /\ p[o[i]] \in 1..n /\ p[o[j]] \in 1..n
          BY <4>2, <2>3, <1>2, <1>5
        <5>2. Before(added, p[o[i]], p[o[j]])
          BY <5>1, <2>3, <1>p
        <5>3. Priority(added[p[o[i]]]) = Priority(added[p[o[j]]])
          BY <5>1, <2>3, <1>1, <1>2
        <5>4. added[p[o[i]]] \in Candidates /\ added[p[o[j]]] \in Candidates
          BY <5>1 DEF Sorted
        <5> QED BY <5>1, <5>2, <5>3, <5>4, Priorities DEF Before
      <4> QED BY <4>1, <4>2, <1>2, <1>5
    <3> QED BY <3>1, <2>1, <2>3 DEF Before
  <2> QED BY <2>1, <2>2, <2>3 DEF Before
<1> HIDE DEF pp
<1>10. Sorting(t, pp) /\ routes' = [i \in 1..Len(t) |-> t[pp[i]]]
  BY <1>2, <1>4, <1>6, <1>7, <1>8, <1>9 DEF Sorting
<1>11. \E x : Sorting(t, x) /\ routes' = [i \in 1..Len(t) |-> t[x[i]]]
  BY <1>10
<1> QED BY <1>2, <1>4, <1>11, Zenon DEF Sorted

LEMMA RemoveAtIs ==
  ASSUME NEW S, NEW s \in Seq(S), NEW d \in 1..Len(s)
  PROVE  /\ RemoveAt(s, d) \in Seq(S) /\ Len(RemoveAt(s, d)) = Len(s) - 1
         /\ \A k \in 1..(Len(s) - 1) :
              RemoveAt(s, d)[k] = IF k < d THEN s[k] ELSE s[k + 1]
<1> DEFINE n == Len(s)
           a == SubSeq(s, 1, d - 1)
           b == SubSeq(s, d + 1, n)
<1>1. n \in Nat /\ d \in 1..n /\ \A i \in 1..n : s[i] \in S
  OBVIOUS
<1>2. a \in Seq(S) /\ Len(a) = d - 1 /\ \A i \in 1..(d - 1) : a[i] = s[i]
  <2>1. \A i \in 1..(d - 1) : s[i] \in S
    BY <1>1
  <2>2. /\ a \in Seq(S) /\ Len(a) = IF 1 <= d - 1 THEN (d - 1) - 1 + 1 ELSE 0
        /\ \A i \in 1..((d - 1) - 1 + 1) : a[i] = s[1 + i - 1]
    BY <1>1, <2>1, SubSeqProperties
  <2> HIDE DEF a
  <2> QED BY <2>2, <1>1
<1>3. b \in Seq(S) /\ Len(b) = n - d /\ \A i \in 1..(n - d) : b[i] = s[d + i]
  <2>1. \A i \in (d + 1)..n : s[i] \in S
    BY <1>1
  <2>2. /\ b \in Seq(S) /\ Len(b) = IF d + 1 <= n THEN n - (d + 1) + 1 ELSE 0
        /\ \A i \in 1..(n - (d + 1) + 1) : b[i] = s[(d + 1) + i - 1]
    BY <1>1, <2>1, SubSeqProperties
  <2> HIDE DEF b
  <2> QED BY <2>2, <1>1
<1> HIDE DEF a, b
<1>4. /\ a \o b \in Seq(S) /\ Len(a \o b) = Len(a) + Len(b)
      /\ \A i \in 1..(Len(a) + Len(b)) :
           (a \o b)[i] = IF i <= Len(a) THEN a[i] ELSE b[i - Len(a)]
  BY <1>2, <1>3, ConcatProperties
<1>5. RemoveAt(s, d) = a \o b
  BY DEF RemoveAt, a, b
<1> DEFINE c == a \o b
<1> HIDE DEF c
<1>6. ASSUME NEW k \in 1..(n - 1)
      PROVE  c[k] = IF k < d THEN s[k] ELSE s[k + 1]
  <2>1. c[k] = IF k <= d - 1 THEN a[k] ELSE b[k - (d - 1)]
    BY <1>1, <1>2, <1>3, <1>4 DEF c
  <2>2. CASE k < d
    BY <2>1, <2>2, <1>1, <1>2
  <2>3. CASE k >= d
    <3>1. k - (d - 1) \in 1..(n - d) /\ d + (k - (d - 1)) = k + 1
      BY <2>3, <1>1
    <3> QED BY <3>1, <2>1, <2>3, <1>1, <1>3
  <2> QED BY <2>2, <2>3, <1>1
<1>7. c \in Seq(S) /\ Len(c) = n - 1
  BY <1>1, <1>2, <1>3, <1>4 DEF c
<1> QED BY <1>5, <1>6, <1>7 DEF c

\* The position that a removal takes from the table, and the one that it takes from
\* the additions.
LEMMA RemovedIs ==
  ASSUME Sorted, NEW name, RemoveRoute(name),
         NEW p, Sorting(added, p), routes = [i \in 1..Len(added) |-> added[p[i]]]
  PROVE  \E i \in 1..Len(added) :
           /\ routes' = RemoveAt(routes, i) /\ added' = RemoveAt(added, p[i])
           /\ added' = RemoveFirst(added, added[p[i]])
<1> DEFINE n == Len(added)
           I == {k \in 1..Len(routes) : routes[k].name = name}
           i == Min(I)
           D == {k \in 1..n : added[k] = routes[i]}
<1>1. /\ n \in Nat /\ Len(routes) = n
      /\ \A k \in 1..n : /\ added[k] \in Candidates /\ p[k] \in 1..n
                         /\ routes[k] = added[p[k]]
  <2>1. n \in Nat /\ Len(routes) = n /\ \A k \in 1..n : added[k] \in Candidates
    BY SortedFacts DEF Sorted
  <2>2. \A k \in 1..n : p[k] \in 1..n /\ routes[k] = added[p[k]]
    BY DEF Sorting
  <2> QED BY <2>1, <2>2
<1>2. I # {} /\ routes' = RemoveAt(routes, i) /\ added' = RemoveFirst(added, routes[i])
  BY DEF RemoveRoute, SelectInSeq
<1>3. i \in I /\ \A k \in I : i <= k
  <2>1. I \subseteq Nat
    BY <1>1
  <2> HIDE DEF I
  <2> QED BY <1>2, <2>1, MinIsLeast
<1> HIDE DEF i
<1>4. i \in 1..n /\ routes[i].name = name
      /\ \A k \in 1..n : routes[k].name = name => i <= k
  BY <1>1, <1>3
<1>5. p[i] \in D /\ D \subseteq Nat
  BY <1>1, <1>4
<1>6. ASSUME NEW k \in D PROVE p[i] <= k
  <2>1. PICK j \in 1..n : p[j] = k
    BY <1>6 DEF Sorting
  <2>2. routes[j] = routes[i] /\ i <= j
    BY <2>1, <1>1, <1>4, <1>6
  <2>3. CASE i = j
    BY <2>1, <2>3, <1>1
  <2>4. CASE i < j
    <3>1. Before(added, p[i], p[j])
      BY <2>4, <1>4 DEF Sorting
    <3>2. added[p[i]] = added[p[j]] /\ added[p[i]] \in Candidates
      BY <2>2, <1>1, <1>4
    <3>3. p[i] < p[j]
      BY <3>1, <3>2, Priorities DEF Before
    <3> QED BY <3>3, <2>1, <1>1, <1>4
  <2> QED BY <2>2, <2>3, <2>4, <1>1, <1>4
<1>7. Min(D) = p[i]
  <2>1. Min(D) \in D /\ \A k \in D : Min(D) <= k
    <3> HIDE DEF D
    <3> QED BY <1>5, MinIsLeast
  <2>2. Min(D) <= p[i] /\ p[i] <= Min(D) /\ p[i] \in Nat /\ Min(D) \in Nat
    <3> HIDE DEF D
    <3> QED BY <2>1, <1>5, <1>6
  <2> HIDE DEF D
  <2> QED BY <2>2
<1>8. RemoveFirst(added, routes[i]) = RemoveAt(added, Min(D))
  <2>1. \E k \in 1..n : added[k] = routes[i]
    BY <1>5
  <2>2. D # {}
    BY <1>5
  <2> QED BY <2>1, <2>2 DEF RemoveFirst, SelectInSeq
<1> QED BY <1>1, <1>2, <1>4, <1>7, <1>8

LEMMA SortedRemove ==
  ASSUME Sorted, NEW name, RemoveRoute(name)
  PROVE  Sorted'
<1> DEFINE n == Len(added)
<1>1. PICK p : Sorting(added, p) /\ routes = [i \in 1..n |-> added[p[i]]]
  BY DEF Sorted
<1>2. PICK i \in 1..n :
        routes' = RemoveAt(routes, i) /\ added' = RemoveAt(added, p[i])
  BY <1>1, RemovedIs
<1>3. /\ p \in [1..n -> 1..n]
      /\ \A k \in 1..n : \E j \in 1..n : p[j] = k
      /\ \A j, k \in 1..n : j < k => Before(added, p[j], p[k])
  BY <1>1 DEF Sorting
<1>4. /\ n \in Nat /\ Len(routes) = n /\ p[i] \in 1..n
      /\ routes \in Seq(Candidates) /\ added \in Seq(Candidates)
      /\ \A k \in 1..n : added[k] \in Candidates
  BY <1>3, SortedFacts DEF Sorted
<1> DEFINE d == p[i]
           t == RemoveAt(added, d)
           Up(m, j) == IF j < m THEN j ELSE j + 1
           Down(m, j) == IF j < m THEN j ELSE j - 1
           x(j) == p[Up(i, j)]
           pp == [j \in 1..(n - 1) |-> Down(d, x(j))]
<1>5. /\ t \in Seq(Candidates) /\ Len(t) = n - 1
      /\ \A k \in 1..(n - 1) : t[k] = added[Up(d, k)]
  BY <1>4, RemoveAtIs
<1>6. /\ Len(routes') = n - 1 /\ routes' \in Seq(Candidates)
      /\ \A k \in 1..(n - 1) : routes'[k] = routes[Up(i, k)]
  BY <1>2, <1>4, RemoveAtIs
<1>7. added' = t
  BY <1>2
<1> HIDE DEF t
<1>8. ASSUME NEW j \in 1..n, NEW k \in 1..n, p[j] = p[k]
      PROVE  j = k
  <2>1. ~Before(added, p[j], p[j]) /\ p[j] \in 1..n
    <3>1. p[j] \in 1..n /\ added[p[j]] \in Candidates
      BY <1>3, <1>4
    <3> QED BY <3>1, <1>4, Priorities DEF Before
  <2>2. ~(j < k) /\ ~(k < j)
    BY <2>1, <1>3, <1>8
  <2> QED BY <2>2, <1>4
<1>9. ASSUME NEW j \in 1..(n - 1)
      PROVE  /\ Up(i, j) \in 1..n /\ Up(i, j) # i /\ x(j) \in 1..n /\ x(j) # d
             /\ pp[j] = Down(d, x(j)) /\ pp[j] \in 1..(n - 1)
             /\ t[pp[j]] = added[x(j)] /\ routes'[j] = t[pp[j]]
  <2>1. Up(i, j) \in 1..n /\ Up(i, j) # i
    BY <1>4
  <2>2. x(j) \in 1..n /\ x(j) # d
    BY <2>1, <1>3, <1>8
  <2> HIDE DEF x, d
  <2>3. pp[j] = Down(d, x(j)) /\ pp[j] \in 1..(n - 1) /\ Up(d, pp[j]) = x(j)
    <3>1. pp[j] = Down(d, x(j))
      OBVIOUS
    <3>2. d \in 1..n /\ n \in Nat
      BY <1>4 DEF d
    <3> HIDE DEF pp, n
    <3> QED BY <3>1, <3>2, <2>2
  <2> HIDE DEF pp
  <2>4. t[pp[j]] = added[x(j)]
    BY <2>3, <1>5
  <2>5. routes'[j] = added[x(j)]
    BY <2>1, <1>1, <1>6 DEF x
  <2> QED BY <2>1, <2>2, <2>3, <2>4, <2>5
<1>10. ASSUME NEW k \in 1..(n - 1) PROVE \E j \in 1..(n - 1) : pp[j] = k
  <2>1. Up(d, k) \in 1..n /\ Up(d, k) # d /\ Down(d, Up(d, k)) = k
    BY <1>4
  <2>2. PICK y \in 1..n : p[y] = Up(d, k)
    BY <2>1, <1>3
  <2>3. y # i
    BY <2>1, <2>2
  <2>4. Down(i, y) \in 1..(n - 1) /\ Up(i, Down(i, y)) = y
    BY <2>3, <1>4
  <2>5. x(Down(i, y)) = Up(d, k)
    BY <2>2, <2>4
  <2> QED BY <2>1, <2>4, <2>5
<1> HIDE DEF x, d
<1>11. ASSUME NEW j \in 1..(n - 1), NEW k \in 1..(n - 1), j < k
       PROVE  Before(t, pp[j], pp[k])
  <2>1. Up(i, j) < Up(i, k) /\ Up(i, j) \in 1..n /\ Up(i, k) \in 1..n
    BY <1>4, <1>11
  <2>2. Before(added, x(j), x(k))
    BY <2>1, <1>3 DEF x
  <2>3. x(j) < x(k) => pp[j] < pp[k]
    <3>1. /\ x(j) \in 1..n /\ x(j) # d /\ pp[j] = Down(d, x(j))
          /\ x(k) \in 1..n /\ x(k) # d /\ pp[k] = Down(d, x(k)) /\ d \in 1..n
      BY <1>9, <1>4 DEF d
    <3> HIDE DEF pp
    <3> QED BY <3>1, <1>4
  <2>4. t[pp[j]] = added[x(j)] /\ t[pp[k]] = added[x(k)]
    BY <1>9
  <2> HIDE DEF pp
  <2> QED BY <2>2, <2>3, <2>4 DEF Before
<1>12. pp \in [1..(n - 1) -> 1..(n - 1)]
  <2>1. \A j \in 1..(n - 1) : Down(d, x(j)) \in 1..(n - 1)
    BY <1>9
  <2> QED BY <2>1
<1> HIDE DEF pp
<1>13. Sorting(t, pp)
  BY <1>5, <1>10, <1>11, <1>12 DEF Sorting
<1>14. routes' = [j \in 1..Len(t) |-> t[pp[j]]]
  BY <1>5, <1>6, <1>9
<1>15. \E y : Sorting(t, y) /\ routes' = [j \in 1..Len(t) |-> t[y[j]]]
  BY <1>13, <1>14
<1> QED BY <1>5, <1>7, <1>15, Zenon DEF Sorted

LEMMA SortedStep ==
  ASSUME Sorted, [Next]_vars
  PROVE  Sorted'
<1>1. CASE UNCHANGED vars
  BY <1>1 DEF vars, Sorted
<1>2. ASSUME NEW r \in Candidates, AddRoute(r) PROVE Sorted'
  BY <1>2, SortedAdd
<1>3. ASSUME NEW r \in Candidates, RemoveRoute(r.name) PROVE Sorted'
  BY <1>3, SortedRemove
<1>4. ASSUME NEW u \in Upstreams, WithDefaultUpstream(u) PROVE Sorted'
  BY <1>4 DEF WithDefaultUpstream, Sorted
<1>5. ASSUME NEW q \in Requests, RouteRequest(q) PROVE Sorted'
  BY <1>5 DEF RouteRequest, Sorted
<1> QED BY <1>1, <1>2, <1>3, <1>4, <1>5 DEF Next

\* The best of the additions that match, if any matches
Best(q, i) ==
  /\ i \in DOMAIN added /\ Matches(added[i], q, regex_cache)
  /\ \A k \in DOMAIN added : Matches(added[k], q, regex_cache) =>
       \/ Priority(added[k]) < Priority(added[i])
       \/ Priority(added[k]) = Priority(added[i]) /\ k >= i

LEMMA FirstIsBest ==
  ASSUME Sorted, NEW q
  PROVE  /\ (\A k \in DOMAIN added : ~Matches(added[k], q, regex_cache)) =>
              Chosen(q) = None /\ Upstream(q) = default_upstream
         /\ (\E k \in DOMAIN added : Matches(added[k], q, regex_cache)) =>
              \E i \in DOMAIN added :
                Best(q, i) /\ Chosen(q) = added[i] /\ Upstream(q) = added[i].upstream
<1> DEFINE n == Len(added)
           I == {i \in 1..Len(routes) : Matches(routes[i], q, regex_cache)}
           m == Min(I)
<1>1. PICK p : Sorting(added, p) /\ routes = [i \in 1..n |-> added[p[i]]]
  BY DEF Sorted
<1>2. /\ p \in [1..n -> 1..n]
      /\ \A k \in 1..n : \E j \in 1..n : p[j] = k
      /\ \A j, k \in 1..n : j < k => Before(added, p[j], p[k])
  BY <1>1 DEF Sorting
<1>3. /\ n \in Nat /\ Len(routes) = n /\ DOMAIN added = 1..n
      /\ \A k \in 1..n : added[k] \in Candidates
  BY SortedFacts DEF Sorted
<1>4. \A j \in 1..n : p[j] \in 1..n /\ routes[j] = added[p[j]]
  BY <1>1, <1>2
<1>5. FirstMatch(q) = IF I # {} THEN m ELSE 0
  BY FirstMatchIs
<1>6. ASSUME \A k \in DOMAIN added : ~Matches(added[k], q, regex_cache)
      PROVE  Chosen(q) = None /\ Upstream(q) = default_upstream
  <2>1. I = {}
    BY <1>3, <1>4, <1>6
  <2> QED BY <2>1, <1>5 DEF Chosen, Upstream
<1>7. ASSUME NEW k \in DOMAIN added, Matches(added[k], q, regex_cache)
      PROVE  \E i \in DOMAIN added :
               Best(q, i) /\ Chosen(q) = added[i] /\ Upstream(q) = added[i].upstream
  <2>1. PICK j \in 1..n : p[j] = k
    BY <1>2, <1>3
  <2>2. j \in I /\ I \subseteq Nat
    BY <2>1, <1>3, <1>4, <1>7
  <2>3. m \in I /\ \A l \in I : m <= l
    <3> HIDE DEF I
    <3> QED BY <2>2, MinIsLeast
  <2>4. FirstMatch(q) = m
    <3> HIDE DEF I, m
    <3> QED BY <2>2, <1>5
  <2> HIDE DEF m
  <2>5. /\ m \in 1..n /\ Matches(routes[m], q, regex_cache)
        /\ \A l \in 1..n : Matches(routes[l], q, regex_cache) => m <= l
    BY <2>3, <1>3
  <2>6. /\ p[m] \in 1..n /\ routes[m] = added[p[m]]
        /\ Chosen(q) = added[p[m]] /\ Upstream(q) = added[p[m]].upstream
    BY <2>4, <2>5, <1>3, <1>4 DEF Chosen, Upstream
  <2>7. ASSUME NEW l \in 1..n, Matches(added[l], q, regex_cache)
        PROVE  \/ Priority(added[l]) < Priority(added[p[m]])
               \/ Priority(added[l]) = Priority(added[p[m]]) /\ l >= p[m]
    <3>1. PICK y \in 1..n : p[y] = l
      BY <1>2
    <3>2. m <= y
      BY <3>1, <2>5, <2>7, <1>4
    <3>3. added[l] \in Candidates /\ added[p[m]] \in Candidates
      BY <2>6, <1>3
    <3>4. CASE m = y
      BY <3>1, <3>3, <3>4, <2>6, Priorities
    <3>5. CASE m < y
      <4>1. Before(added, p[m], l)
        BY <3>1, <3>5, <2>5, <1>2
      <4> QED BY <4>1, <3>3, <2>6, Priorities DEF Before
    <3> QED BY <3>2, <3>4, <3>5, <2>5
  <2>8. Best(q, p[m])
    BY <2>5, <2>6, <2>7, <1>3 DEF Best
  <2> QED BY <2>6, <2>8, <1>3
<1> QED BY <1>6, <1>7

-------------------------------------------------------------------------------
\* Matching does not depend on what the cache holds.

CacheInv ==
  /\ DOMAIN regex_cache \subseteq DOMAIN Language
  /\ \A p \in DOMAIN regex_cache : regex_cache[p] = Language[p]

\* What a pattern matches when it is compiled afresh
Compiled(p) == GetOrCompileRegex(p, EmptyCache)

LEMMA CompiledIs ==
  ASSUME CacheInv, NEW p
  PROVE  GetOrCompileRegex(p, regex_cache) = Compiled(p)
<1>1. DOMAIN EmptyCache = {}
  BY DEF EmptyCache
<1>2. CASE p \in DOMAIN regex_cache
  BY <1>1, <1>2 DEF CacheInv, GetOrCompileRegex, Compiled
<1>3. CASE p \in DOMAIN Language \ DOMAIN regex_cache
  BY <1>1, <1>3 DEF GetOrCompileRegex, Compiled
<1>4. CASE p \notin DOMAIN Language
  BY <1>1, <1>4 DEF CacheInv, GetOrCompileRegex, Compiled
<1> QED BY <1>2, <1>3, <1>4

LEMMA CacheStep ==
  ASSUME CacheInv, [Next]_vars
  PROVE  CacheInv'
<1>1. CASE UNCHANGED regex_cache
  BY <1>1 DEF CacheInv
<1>2. ASSUME NEW q \in Requests, RouteRequest(q) PROVE CacheInv'
  <2>1. PICK T : regex_cache' = [p \in (T \cap DOMAIN Language) \cup DOMAIN regex_cache
                                   |-> GetOrCompileRegex(p, regex_cache)]
    BY <1>2 DEF RouteRequest
  <2>2. \A p \in DOMAIN Language : GetOrCompileRegex(p, regex_cache) = Language[p]
    BY DEF CacheInv, GetOrCompileRegex
  <2>3. DOMAIN regex_cache' \subseteq DOMAIN Language
    BY <2>1 DEF CacheInv
  <2> QED BY <2>1, <2>2, <2>3 DEF CacheInv
<1>3. \/ UNCHANGED regex_cache
      \/ \E q \in Requests : RouteRequest(q)
  BY DEF Next, vars, AddRoute, RemoveRoute, WithDefaultUpstream
<1> QED BY <1>1, <1>2, <1>3

LEMMA MatchesFits ==
  ASSUME CacheInv, NEW r \in Candidates, NEW q
  PROVE  Matches(r, q, regex_cache) <=> Fits(r, q)
<1>1. \A p : GetOrCompileRegex(p, regex_cache) = GetOrCompileRegex(p, EmptyCache)
  BY CompiledIs DEF Compiled
<1>2. PathMatches(r.path, q.path, regex_cache) <=> PathMatches(r.path, q.path, EmptyCache)
  <2>1. r.path.type \in {"Exact", "Prefix", "Regex"}
    BY RouterAssumption
  <2> DEFINE m == r.path
             a == q.path
  <2> HIDE DEF m, a
  <2>2. PathMatches(m, a, regex_cache) <=> PathMatches(m, a, EmptyCache)
    BY <2>1, <1>1 DEF PathMatches, m
  <2> QED BY <2>2 DEF m, a
<1>3. ASSUME NEW i \in DOMAIN r.headers
      PROVE  HeaderMatches(r.headers[i], q.headers, regex_cache)
               <=> HeaderMatches(r.headers[i], q.headers, EmptyCache)
  <2> DEFINE h == r.headers[i]
             a == q.headers
  <2>1. h.type \in {"Exact", "Contains", "Regex", "Present", "Absent"}
    BY RouterAssumption
  <2> HIDE DEF h, a
  <2>2. HeaderMatches(h, a, regex_cache) <=> HeaderMatches(h, a, EmptyCache)
    BY <2>1, <1>1 DEF HeaderMatches
  <2> QED BY <2>2 DEF h, a
<1> QED BY <1>2, <1>3 DEF Matches, Fits

\* The best fit of the additions answers.
BestFit(s, q, i) ==
  /\ i \in 1..Len(s) /\ Fits(s[i], q)
  /\ \A k \in 1..Len(s) : Fits(s[k], q) =>
       \/ Priority(s[k]) < Priority(s[i])
       \/ Priority(s[k]) = Priority(s[i]) /\ k >= i

NoFit(s, q) == \A k \in 1..Len(s) : ~Fits(s[k], q)

Answers ==
  \A q \in Requests :
    \/ NoFit(added, q) /\ Chosen(q) = None /\ Upstream(q) = default_upstream
    \/ \E i \in 1..Len(added) :
         BestFit(added, q, i) /\ Chosen(q) = added[i] /\ Upstream(q) = added[i].upstream

LEMMA SortedAnswers == Sorted /\ CacheInv => Answers
<1> SUFFICES ASSUME Sorted, CacheInv, NEW q \in Requests
             PROVE  \/ /\ NoFit(added, q)
                       /\ Chosen(q) = None /\ Upstream(q) = default_upstream
                    \/ \E i \in 1..Len(added) :
                         /\ BestFit(added, q, i)
                         /\ Chosen(q) = added[i] /\ Upstream(q) = added[i].upstream
  BY DEF Answers
<1> DOMAIN added = 1..Len(added)
  BY DEF Sorted
<1>1. \A k \in DOMAIN added : Matches(added[k], q, regex_cache) <=> Fits(added[k], q)
  <2>1. \A k \in DOMAIN added : added[k] \in Candidates
    BY DEF Sorted
  <2> QED BY <2>1, MatchesFits
<1>2. CASE \A k \in DOMAIN added : ~Fits(added[k], q)
  BY <1>1, <1>2, FirstIsBest DEF NoFit
<1>3. CASE \E k \in DOMAIN added : Fits(added[k], q)
  <2>1. PICK i \in DOMAIN added :
          Best(q, i) /\ Chosen(q) = added[i] /\ Upstream(q) = added[i].upstream
    BY <1>1, <1>3, FirstIsBest
  <2>2. BestFit(added, q, i)
    BY <1>1, <2>1 DEF Best, BestFit
  <2> QED BY <1>3, <2>1, <2>2
<1> QED BY <1>2, <1>3

LEMMA AnswersBest == Sorted /\ Answers => BestMatchWins
<1> SUFFICES ASSUME Sorted, Answers, NEW q \in Requests
             PROVE  LET fit == {i \in DOMAIN added : Fits(added[i], q)}
                    IN IF fit = {} THEN Chosen(q) = None /\ Upstream(q) = default_upstream
                       ELSE \E i \in fit :
                              /\ Chosen(q) = added[i] /\ Upstream(q) = added[i].upstream
                              /\ \A k \in fit :
                                   \/ Priority(added[k]) < Priority(added[i])
                                   \/ Priority(added[k]) = Priority(added[i]) /\ k >= i
  BY DEF BestMatchWins
<1>1. DOMAIN added = 1..Len(added)
  BY DEF Sorted
<1>2. CASE /\ NoFit(added, q)
           /\ Chosen(q) = None /\ Upstream(q) = default_upstream
  BY <1>1, <1>2 DEF NoFit
<1>3. CASE \E i \in 1..Len(added) :
             /\ BestFit(added, q, i)
             /\ Chosen(q) = added[i] /\ Upstream(q) = added[i].upstream
  BY <1>1, <1>3 DEF BestFit
<1> QED BY <1>2, <1>3 DEF Answers

\* In every state, whatever was added, removed and looked up before, a request goes
\* to the route of the highest priority that matches it, cached patterns or not, and
\* among equals to the oldest (with_routes, add_route, sort_routes, remove_route and
\* route of src/router.rs).
THEOREM BestMatch == Spec => []BestMatchWins
<1>1. Sorted /\ [Next]_vars => Sorted'
  BY SortedStep
<1>2. Init => CacheInv
  BY DEF Init, CacheInv, EmptyCache
<1>3. CacheInv /\ [Next]_vars => CacheInv'
  BY CacheStep
<1> QED
  BY <1>1, <1>2, <1>3, SortedInit, SortedAnswers, AnswersBest, PTL DEF Spec

LEMMA BestFitUnique ==
  ASSUME NEW s \in Seq(Candidates), NEW q, NEW i, NEW j,
         BestFit(s, q, i), BestFit(s, q, j)
  PROVE  i = j
<1>1. Len(s) \in Nat /\ i \in 1..Len(s) /\ j \in 1..Len(s)
  BY DEF BestFit
<1>2. s[i] \in Candidates /\ s[j] \in Candidates
  BY <1>1
<1> QED BY <1>1, <1>2, Priorities DEF BestFit

\* An addition takes requests only for itself.
LEMMA BestFitAppend ==
  ASSUME NEW s \in Seq(Candidates), NEW r \in Candidates, NEW q
  PROVE  LET t == Append(s, r)
         IN /\ NoFit(t, q) => NoFit(s, q)
            /\ \A i \in 1..Len(s) : BestFit(t, q, i) => BestFit(s, q, i) /\ t[i] = s[i]
<1> DEFINE n == Len(s)
           t == Append(s, r)
<1>1. n \in Nat /\ Len(t) = n + 1 /\ \A i \in 1..n : t[i] = s[i] /\ i \in 1..(n + 1)
  OBVIOUS
<1> HIDE DEF t, n
<1>2. NoFit(t, q) => NoFit(s, q)
  BY <1>1 DEF NoFit, n
<1>3. ASSUME NEW i \in 1..n, BestFit(t, q, i)
      PROVE  BestFit(s, q, i) /\ t[i] = s[i]
  BY <1>1, <1>3 DEF BestFit, n
<1> QED BY <1>2, <1>3 DEF t, n

\* A removal leaves the requests of the other routes where they are.
LEMMA BestFitRemove ==
  ASSUME NEW s \in Seq(Candidates), NEW d \in 1..Len(s), NEW q
  PROVE  LET t == RemoveAt(s, d)
         IN /\ NoFit(s, q) => NoFit(t, q)
            /\ \A b \in 1..Len(s) : BestFit(s, q, b) /\ b # d =>
                 \E c \in 1..Len(t) : BestFit(t, q, c) /\ t[c] = s[b]
<1> DEFINE n == Len(s)
           t == RemoveAt(s, d)
           Up(k) == IF k < d THEN k ELSE k + 1
<1>1. /\ n \in Nat /\ d \in 1..n /\ Len(t) = n - 1
      /\ \A k \in 1..(n - 1) : t[k] = s[Up(k)] /\ Up(k) \in 1..n
  <2>1. n \in Nat /\ d \in 1..n
    OBVIOUS
  <2>2. Len(t) = n - 1 /\ \A k \in 1..(n - 1) : t[k] = s[Up(k)]
    BY RemoveAtIs
  <2>3. \A k \in 1..(n - 1) : Up(k) \in 1..n
    BY <2>1
  <2> HIDE DEF t, n, Up
  <2> QED BY <2>1, <2>2, <2>3
<1> HIDE DEF t
<1>2. NoFit(s, q) => NoFit(t, q)
  BY <1>1 DEF NoFit
<1>3. ASSUME NEW b \in 1..n, BestFit(s, q, b), b # d
      PROVE  \E c \in 1..Len(t) : BestFit(t, q, c) /\ t[c] = s[b]
  <2> DEFINE c == IF b < d THEN b ELSE b - 1
  <2>1. c \in 1..(n - 1) /\ Up(c) = b
    BY <1>1, <1>3
  <2>2. t[c] = s[b]
    BY <2>1, <1>1
  <2>3. ASSUME NEW k \in 1..(n - 1), Fits(t[k], q)
        PROVE  \/ Priority(t[k]) < Priority(t[c])
               \/ Priority(t[k]) = Priority(t[c]) /\ k >= c
    <3>1. t[k] = s[Up(k)] /\ Up(k) \in 1..n
      BY <1>1
    <3>2. \/ Priority(s[Up(k)]) < Priority(s[b])
          \/ Priority(s[Up(k)]) = Priority(s[b]) /\ Up(k) >= b
      BY <3>1, <1>3, <2>3 DEF BestFit
    <3>3. Up(k) >= b => k >= c
      BY <2>1, <1>1, <1>3
    <3> QED BY <3>1, <3>2, <3>3, <2>2
  <2>4. BestFit(t, q, c)
    <3>1. Fits(t[c], q)
      BY <2>2, <1>3 DEF BestFit
    <3> HIDE DEF c
    <3> QED BY <3>1, <2>1, <2>3, <1>1 DEF BestFit
  <2> QED BY <2>1, <2>2, <2>4, <1>1
<1> QED BY <1>2, <1>3 DEF t

LEMMA LocalStep ==
  ASSUME Sorted, Answers, Answers', [Next]_vars
  PROVE  [\A q \in Requests : Chosen(q)' # Chosen(q) =>
            \/ Len(added') > Len(added) /\ Chosen(q)' = Last(added')
            \/ Len(added') < Len(added) /\ added' = RemoveFirst(added, Chosen(q))]_vars
<1> SUFFICES ASSUME Next, NEW q \in Requests, Chosen(q)' # Chosen(q)
             PROVE  \/ Len(added') > Len(added) /\ Chosen(q)' = Last(added')
                    \/ /\ Len(added') < Len(added)
                       /\ added' = RemoveFirst(added, Chosen(q))
  OBVIOUS
<1> DEFINE n == Len(added)
<1>1. added \in Seq(Candidates) /\ n \in Nat
  BY DEF Sorted
<1>2. \/ NoFit(added, q) /\ Chosen(q) = None
      \/ \E i \in 1..n : BestFit(added, q, i) /\ Chosen(q) = added[i]
  BY DEF Answers
<1>3. \/ NoFit(added', q) /\ Chosen(q)' = None
      \/ \E i \in 1..Len(added') : BestFit(added', q, i) /\ Chosen(q)' = added'[i]
  BY DEF Answers
<1>4. \A i \in 1..n : ~(NoFit(added, q) /\ BestFit(added, q, i))
  BY DEF NoFit, BestFit
<1>5. \A i \in 1..Len(added') : ~(NoFit(added', q) /\ BestFit(added', q, i))
  BY DEF NoFit, BestFit
<1>6. ASSUME added' = added PROVE FALSE
  BY <1>1, <1>2, <1>3, <1>4, <1>6, BestFitUnique
<1>7. ASSUME NEW r \in Candidates, AddRoute(r)
      PROVE  Len(added') > n /\ Chosen(q)' = Last(added')
  <2> DEFINE t == Append(added, r)
  <2>1. added' = t /\ Len(t) = n + 1
    BY <1>7, <1>1 DEF AddRoute
  <2>2. /\ NoFit(t, q) => NoFit(added, q)
        /\ \A i \in 1..n : BestFit(t, q, i) => BestFit(added, q, i) /\ t[i] = added[i]
    BY <1>1, BestFitAppend
  <2> HIDE DEF t
  <2>3. PICK i \in 1..(n + 1) : BestFit(t, q, i) /\ Chosen(q)' = t[i]
    BY <2>1, <2>2, <1>2, <1>3, <1>4
  <2>4. i = n + 1
    <3>1. ~(i \in 1..n)
      BY <2>2, <2>3, <1>1, <1>2, <1>4, BestFitUnique
    <3> QED BY <3>1, <1>1
  <2> QED BY <2>1, <2>3, <2>4, <1>1 DEF Last
<1>8. ASSUME NEW r \in Candidates, RemoveRoute(r.name)
      PROVE  Len(added') < n /\ added' = RemoveFirst(added, Chosen(q))
  <2>1. PICK d \in 1..n :
          added' = RemoveAt(added, d) /\ added' = RemoveFirst(added, added[d])
    <3>1. PICK p : Sorting(added, p) /\ routes = [i \in 1..n |-> added[p[i]]]
      BY DEF Sorted
    <3>2. PICK i \in 1..n : /\ added' = RemoveAt(added, p[i])
                            /\ added' = RemoveFirst(added, added[p[i]])
      BY <3>1, <1>8, RemovedIs
    <3>3. p[i] \in 1..n
      BY <3>1 DEF Sorting
    <3> QED BY <3>2, <3>3
  <2>2. added' \in Seq(Candidates) /\ Len(added') = n - 1
    BY <2>1, <1>1, RemoveAtIs
  <2>3. /\ NoFit(added, q) => NoFit(added', q)
        /\ \A b \in 1..n : BestFit(added, q, b) /\ b # d =>
             \E c \in 1..Len(added') : BestFit(added', q, c) /\ added'[c] = added[b]
    <3> DEFINE t == RemoveAt(added, d)
    <3>1. /\ NoFit(added, q) => NoFit(t, q)
          /\ \A b \in 1..n : BestFit(added, q, b) /\ b # d =>
               \E c \in 1..Len(t) : BestFit(t, q, c) /\ t[c] = added[b]
      BY <1>1, BestFitRemove
    <3> HIDE DEF t
    <3>2. added' = t
      BY <2>1 DEF t
    <3> QED BY <3>1, <3>2
  <2>4. PICK b \in 1..n : BestFit(added, q, b) /\ Chosen(q) = added[b]
    BY <2>3, <1>2, <1>3, <1>5
  <2>5. b = d
    <3> SUFFICES ASSUME b # d PROVE FALSE
      OBVIOUS
    <3>1. PICK c \in 1..Len(added') : BestFit(added', q, c) /\ added'[c] = added[b]
      BY <2>3, <2>4
    <3>2. PICK j \in 1..Len(added') : BestFit(added', q, j) /\ Chosen(q)' = added'[j]
      BY <3>1, <1>3, <1>5
    <3>3. c = j
      BY <3>1, <3>2, <2>2, BestFitUnique
    <3> QED BY <3>1, <3>2, <3>3, <2>4
  <2> QED BY <2>1, <2>2, <2>4, <2>5, <1>1
<1> QED BY <1>6, <1>7, <1>8 DEF Next, WithDefaultUpstream, RouteRequest

\* No step of the table moves a request that does not concern the route added or
\* removed (add_route and remove_route of src/router.rs), and no lookup moves any,
\* though lookups fill the cache that matching reads.
THEOREM LocalChanges == Spec => ChangesAreLocal
<1> DEFINE Local(q) == Chosen(q)' # Chosen(q) =>
             \/ Len(added') > Len(added) /\ Chosen(q)' = Last(added')
             \/ Len(added') < Len(added) /\ added' = RemoveFirst(added, Chosen(q))
<1>1. Init => CacheInv
  BY DEF Init, CacheInv, EmptyCache
<1>2. Sorted /\ [Next]_vars => Sorted'
  BY SortedStep
<1>3. CacheInv /\ [Next]_vars => CacheInv'
  BY CacheStep
<1>4. Sorted /\ Answers /\ Answers' /\ [Next]_vars => [\A q \in Requests : Local(q)]_vars
  BY LocalStep
<1> QED
  BY <1>1, <1>2, <1>3, <1>4, SortedInit, SortedAnswers, PTL DEF Spec, ChangesAreLocal
===============================================================================
