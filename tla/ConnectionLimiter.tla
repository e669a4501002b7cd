--------------------------- MODULE ConnectionLimiter ---------------------------
(***************************************************************************)
(* The connection limiter of src/connection.rs: a semaphore of permits and *)
(* three atomic statistics that try_acquire and the guard's Drop update    *)
(* beside it, one access at a time.  Each connection tries once and, when  *)
(* admitted, drops its guard once.                                         *)
(***************************************************************************)
EXTENDS Integers, FiniteSets

CONSTANTS
  Connections,     \* the attempts of one run
  MaxConnections   \* config.max_connections

ASSUME LimiterAssumption ==
  /\ IsFiniteSet(Connections)
  /\ MaxConnections \in Nat

VARIABLES permits, active_connections, total_accepted, total_rejected, pc

vars == <<permits, active_connections, total_accepted, total_rejected, pc>>

Init ==
  /\ permits = MaxConnections
  /\ active_connections = 0
  /\ total_accepted = 0
  /\ total_rejected = 0
  /\ pc = [c \in Connections |-> "new"]

Goto(c, from, to) == pc[c] = from /\ pc' = [pc EXCEPT ![c] = to]

-------------------------------------------------------------------------------
\* try_acquire

TryAcquireUnchecked(c) ==
  /\ Goto(c, "new", "count")
  /\ permits' = permits - 1
  /\ UNCHANGED <<active_connections, total_accepted, total_rejected>>

\* The semaphore decides once, atomically.
TryAcquire(c) ==
  /\ \/ permits > 0 /\ Goto(c, "new", "count") /\ permits' = permits - 1
     \/ permits = 0 /\ Goto(c, "new", "reject") /\ permits' = permits
  /\ UNCHANGED <<active_connections, total_accepted, total_rejected>>

CountActive(c) ==
  /\ Goto(c, "count", "accept")
  /\ active_connections' = active_connections + 1
  /\ UNCHANGED <<permits, total_accepted, total_rejected>>

CountAccepted(c) ==
  /\ Goto(c, "accept", "held")
  /\ total_accepted' = total_accepted + 1
  /\ UNCHANGED <<permits, active_connections, total_rejected>>

CountRejectedAsAccepted(c) ==
  /\ Goto(c, "reject", "rejected")
  /\ total_accepted' = total_accepted + 1
  /\ UNCHANGED <<permits, active_connections, total_rejected>>

CountRejected(c) ==
  /\ Goto(c, "reject", "rejected")
  /\ total_rejected' = total_rejected + 1
  /\ UNCHANGED <<permits, active_connections, total_accepted>>

-------------------------------------------------------------------------------
\* Dropping the guard: first the body of drop, then the drop of its fields

DropGuardKeepingCount(c) ==
  /\ Goto(c, "held", "release")
  /\ UNCHANGED <<permits, active_connections, total_accepted, total_rejected>>

DropGuard(c) ==
  /\ Goto(c, "held", "release")
  /\ active_connections' = active_connections - 1
  /\ UNCHANGED <<permits, total_accepted, total_rejected>>

ReleaseNothing(c) ==
  /\ Goto(c, "release", "gone")
  /\ UNCHANGED <<permits, active_connections, total_accepted, total_rejected>>

ReleasePermit(c) ==
  /\ Goto(c, "release", "gone")
  /\ permits' = permits + 1
  /\ UNCHANGED <<active_connections, total_accepted, total_rejected>>

Next ==
  \E c \in Connections :
    \/ TryAcquire(c) \/ CountActive(c) \/ CountAccepted(c) \/ CountRejected(c)
    \/ DropGuard(c) \/ ReleasePermit(c)

Spec == Init /\ [][Next]_vars

-------------------------------------------------------------------------------
\* Properties

\* The permits and the unsigned counters never go below zero, and the permits
\* never above the configured number.
TypeOK ==
  /\ permits \in 0..MaxConnections
  /\ active_connections \in Nat
  /\ total_accepted \in Nat
  /\ total_rejected \in Nat
  /\ pc \in [Connections -> {"new", "count", "accept", "held", "release",
                             "gone", "reject", "rejected"}]

At(S) == {c \in Connections : pc[c] \in S}

\* The number of active connections that the limiter reports never exceeds the
\* permits handed out, hence never max_connections: it is raised after the
\* permit is taken (line 85) and lowered before it is given back (line 146).
LimitHolds == active_connections + permits <= MaxConnections

\* Nothing leaks and nothing is counted twice: when every connection is over,
\* all permits are back, none is active, and every attempt was counted once,
\* as accepted or as rejected.
NothingLeaks ==
  At({"gone", "rejected"}) = Connections =>
    /\ permits = MaxConnections
    /\ active_connections = 0
    /\ total_accepted + total_rejected = Cardinality(Connections)

\* What the counters stand for at any moment (the inductive strengthening of
\* the two properties above).
CountersExact ==
  /\ permits + Cardinality(At({"count", "accept", "held", "release"}))
       = MaxConnections
  /\ active_connections = Cardinality(At({"accept", "held"}))
  /\ total_accepted = Cardinality(At({"held", "release", "gone"}))
  /\ total_rejected = Cardinality(At({"rejected"}))
===============================================================================
