---------------------------- MODULE MCLoadBalancer ----------------------------
(* An instance of LoadBalancer for TLC: two endpoints under each policy, an     *)
(* address given twice, three endpoints of which two flap, and a cluster that   *)
(* is replaced by an empty list while in use.                                   *)
EXTENDS LoadBalancer

Cluster(addrs, p) == [addresses |-> addrs, policy |-> p]

Shared ==
  {<<Cluster(<<"a", "b">>, "RoundRobin")>>,
   <<Cluster(<<"a">>, "LeastConnections"), Cluster(<<>>, "RoundRobin")>>}
Alone ==
  {<<Cluster(<<"a", "b">>, "LeastConnections")>>, <<Cluster(<<"a", "b">>, "Random")>>,
   <<Cluster(<<"a", "a">>, "ConsistentHash")>>,
   <<Cluster(<<"a", "b", "c">>, "RoundRobin")>>}
MCPlans == Shared \cup Alone

\* In the plans of Alone one task calls, or there are too many states.
MCCallers == [p \in MCPlans |-> IF p \in Alone THEN {CHOOSE t \in Tasks : TRUE} ELSE Tasks]
MCMayFlap == {<<1, 1>>, <<1, 3>>}
===============================================================================
