-------------------------------- MODULE Router --------------------------------
(***************************************************************************)
(* The route table of src/router.rs: routes kept in order of priority, the *)
(* first one that matches a request wins, and the cache of compiled        *)
(* regular expressions that matching goes through.                         *)
(*                                                                         *)
(* Paths, header values, prefixes and patterns are opaque: constants say   *)
(* which strings start with a prefix, contain a text or match a pattern.   *)
(* The rewritten path of an answer, a text, is left out.  So are the       *)
(* weight and the timeout_ms of a route, which no code reads: weights      *)
(* decide nothing when several routes match.                               *)
(***************************************************************************)
EXTENDS Naturals, SequencesExt

CONSTANTS
  Candidates,  \* the routes that callers add
  Requests,    \* the requests that are routed
  StartsWith,  \* StartsWith[p]: the paths with the prefix p
  Containing,  \* Containing[s]: the header values with the text s in them
  Language,    \* Language[p]: the strings matched by the valid pattern p
  Upstreams,
  None,        \* None of Option, and a header that a request does not have
  MaxRoutes    \* bound on the length of the table

\* The variants of PathMatch and of HeaderMatch.
ASSUME RouterAssumption ==
  /\ MaxRoutes \in Nat
  /\ \A r \in Candidates :
       /\ r.path.type \in {"Exact", "Prefix", "Regex"}
       /\ \A i \in DOMAIN r.headers :
            r.headers[i].type \in {"Exact", "Contains", "Regex", "Present", "Absent"}

VARIABLES
  routes,
  default_upstream,
  regex_cache,  \* REGEX_CACHE: the compiled form of the patterns met so far
  added         \* history: the routes of the table in the order of their addition

vars == <<routes, default_upstream, regex_cache, added>>

-------------------------------------------------------------------------------
\* Matching

EmptyCache == [p \in {} |-> {}]

\* The strings a pattern matches, by way of the cache.  A pattern that does not
\* compile is not cached and matches nothing.
GetOrCompileRegex(p, cache) ==
  CASE p \in DOMAIN cache -> cache[p]
    [] p \in DOMAIN Language \ DOMAIN cache -> Language[p]
    [] OTHER -> {}

HeaderMatches(h, headers, cache) ==
  LET v == headers[h.name]
  IN CASE h.type = "Exact" -> v = h.value
       [] h.type = "Contains" -> v \in Containing[h.value]
       [] h.type = "Regex" -> v \in GetOrCompileRegex(h.value, cache)
       [] h.type = "Present" -> v # None
       [] h.type = "Absent" -> v = None

PathMatches(m, path, cache) ==
  CASE m.type = "Exact" -> path = m.value
    [] m.type = "Prefix" -> path \in StartsWith[m.value]
    [] m.type = "Regex" -> path \in GetOrCompileRegex(m.value, cache)

MethodMatches(m, method) == m = "Any" \/ m = method

Matches(r, q, cache) ==
  /\ r.enabled
  /\ MethodMatches(r.method, q.method)
  /\ PathMatches(r.path, q.path, cache)
  /\ \A i \in DOMAIN r.headers : HeaderMatches(r.headers[i], q.headers, cache)

\* The patterns that matches hands to the cache before it has its result.
PatternsTried(r, q, cache) ==
  IF ~r.enabled \/ ~MethodMatches(r.method, q.method) THEN {}
  ELSE {m.value : m \in {x \in {r.path} : x.type = "Regex"}} \cup
       {r.headers[i].value : i \in {k \in DOMAIN r.headers :
          /\ r.headers[k].type = "Regex"
          /\ PathMatches(r.path, q.path, cache)
          /\ \A j \in 1..(k - 1) : HeaderMatches(r.headers[j], q.headers, cache)}}

-------------------------------------------------------------------------------
\* The table

RoutePriority == [Exact |-> 100, Prefix |-> 50, Regex |-> 25, Default |-> 0]
Priority(r) == RoutePriority[r.path.type]

\* Whether the entry i of s belongs before the entry j: sort_by_key is stable.
Before(s, i, j) ==
  \/ Priority(s[i]) > Priority(s[j])
  \/ Priority(s[i]) = Priority(s[j]) /\ i < j

SortRoutes(s) ==
  LET order == CHOOSE p \in Bijection(DOMAIN s, DOMAIN s) :
                 \A i, j \in DOMAIN s : i < j => Before(s, p[i], p[j])
  IN [i \in DOMAIN s |-> s[order[i]]]

\* build_router: a list from the configuration in any order, and perhaps a default.
Init ==
  /\ added \in BoundedSeq(Candidates, MaxRoutes)
  /\ routes = SortRoutes(added)
  /\ default_upstream \in Upstreams \cup {None}
  /\ regex_cache = EmptyCache

AddRouteAtFront(r) ==
  /\ Len(routes) < MaxRoutes
  /\ routes' = SortRoutes(<<r>> \o routes)
  /\ added' = Append(added, r)
  /\ UNCHANGED <<default_upstream, regex_cache>>

AddRoute(r) ==
  /\ Len(routes) < MaxRoutes
  /\ routes' = SortRoutes(Append(routes, r))
  /\ added' = Append(added, r)
  /\ UNCHANGED <<default_upstream, regex_cache>>

\* swap_remove instead of remove: the last route takes the place of the removed.
RemoveRouteSwapping(name) ==
  LET i == SelectInSeq(routes, LAMBDA r : r.name = name)
      n == Len(routes)
  IN /\ i # 0
     /\ routes' = SubSeq([routes EXCEPT ![i] = routes[n]], 1, n - 1)
     /\ added' = RemoveFirst(added, routes[i])
     /\ UNCHANGED <<default_upstream, regex_cache>>

\* Names need not be unique: the first in the order of the table goes.
RemoveRoute(name) ==
  LET i == SelectInSeq(routes, LAMBDA r : r.name = name)
  IN /\ i # 0
     /\ routes' = RemoveAt(routes, i)
     /\ added' = RemoveFirst(added, routes[i])
     /\ UNCHANGED <<default_upstream, regex_cache>>

WithDefaultUpstream(u) ==
  /\ default_upstream' = u
  /\ UNCHANGED <<routes, regex_cache, added>>

\* Where route stops: the first match, or 0.
FirstMatch(q) == SelectInSeq(routes, LAMBDA r : Matches(r, q, regex_cache))

\* The route that answers, None for the default one or for no answer at all.
Chosen(q) == IF FirstMatch(q) = 0 THEN None ELSE routes[FirstMatch(q)]

Upstream(q) ==
  IF FirstMatch(q) = 0 THEN default_upstream ELSE routes[FirstMatch(q)].upstream

\* A lookup changes nothing but the cache, to which each insertion adds one entry
\* that no other lookup would add differently.
RouteRequest(q) ==
  LET n == IF FirstMatch(q) = 0 THEN Len(routes) ELSE FirstMatch(q)
      tried == UNION {PatternsTried(routes[i], q, regex_cache) : i \in 1..n}
  IN /\ regex_cache' = [p \in (tried \cap DOMAIN Language) \cup DOMAIN regex_cache
                          |-> GetOrCompileRegex(p, regex_cache)]
     /\ UNCHANGED <<routes, default_upstream, added>>

Next ==
  \/ \E r \in Candidates : AddRoute(r) \/ RemoveRoute(r.name)
  \/ \E u \in Upstreams : WithDefaultUpstream(u)
  \/ \E q \in Requests : RouteRequest(q)

Spec == Init /\ [][Next]_vars

-------------------------------------------------------------------------------
\* Properties

Fits(r, q) == Matches(r, q, EmptyCache)

\* After any sequence of additions, removals and lookups, whatever the cache holds by
\* then, a request goes to the route of the highest priority that would match it with
\* every pattern compiled afresh, among equals to the one that was added first, and
\* to the default only if there is no such route.  The weight that the code keeps for
\* the case of several matches (src/router.rs, line 220) has no say in it.
BestMatchWins ==
  \A q \in Requests :
    LET fit == {i \in DOMAIN added : Fits(added[i], q)}
    IN IF fit = {} THEN Chosen(q) = None /\ Upstream(q) = default_upstream
       ELSE \E i \in fit :
              /\ Chosen(q) = added[i] /\ Upstream(q) = added[i].upstream
              /\ \A k \in fit : \/ Priority(added[k]) < Priority(added[i])
                                \/ Priority(added[k]) = Priority(added[i]) /\ k >= i

\* A change of the table moves no traffic but that of the route concerned: whoever
\* gets another answer gets the added route, or had the removed one.
ChangesAreLocal ==
  [][\A q \in Requests : Chosen(q)' # Chosen(q) =>
       \/ Len(added') > Len(added) /\ Chosen(q)' = Last(added')
       \/ Len(added') < Len(added) /\ added' = RemoveFirst(added, Chosen(q))]_vars
===============================================================================
