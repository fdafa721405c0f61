---------------------------- MODULE ConnectionPool ----------------------------
(***************************************************************************)
(* The connections of the platform's database (core/database/database.py): *)
(* an engine with SQLAlchemy's default pool, and sessions that take a      *)
(* connection at their first statement and give it back when they close.   *)
(* A request of most handlers has one session.  /system/status opens one   *)
(* and, while it holds a connection, has PersistentTaskQueue.depth() and   *)
(* SystemMonitor.snapshot() open theirs.                                   *)
(***************************************************************************)
EXTENDS Naturals, Sequences, FiniteSets

CONSTANTS
  StatusRequests,  \* GET /system/status
  PlainRequests,   \* requests of the handlers with one session
  PoolSize         \* connections of the pool, overflow included

ASSUME PoolAssumption == PoolSize \in Nat \ {0} /\ StatusRequests \cap PlainRequests = {}

VARIABLES
  free,  \* connections that are not checked out
  at     \* how far each request is in its plan

poolVars == <<free, at>>

PoolRequests == StatusRequests \cup PlainRequests
Out == 0      \* not received yet
Ended == 9    \* answered, or failed with the pool's timeout
-----------------------------------------------------------------------------
\* depth(); the outer session's appointments; snapshot()'s session with its
\* three counts, closed before its own depth(); the outer session closes.
StatusPlan == <<"take", "give", "take", "take", "give", "take", "give", "give">>
NestedPlainSlip == <<"take", "take", "give", "give">>
PlainPlan == <<"take", "give">>

Plan(q) == IF q \in StatusRequests THEN StatusPlan ELSE PlainPlan

\* Connections request q has, having done the steps before its next one.
CheckedOut(q) ==
  LET done(step) == Cardinality({i \in DOMAIN Plan(q) : i < at[q] /\ Plan(q)[i] = step})
  IN IF at[q] \in {Out, Ended} THEN 0 ELSE done("take") - done("give")

Wants(q, step) == at[q] \in DOMAIN Plan(q) /\ Plan(q)[at[q]] = step

PoolTypeOK ==
  /\ free \in 0 .. PoolSize
  /\ at \in [PoolRequests -> Out .. Ended]
  /\ \A q \in PoolRequests : at[q] \in DOMAIN Plan(q) \cup {Out, Ended}

PoolInit == free = PoolSize /\ at = [q \in PoolRequests |-> Out]

Arrive(q) == at[q] = Out /\ at' = [at EXCEPT ![q] = 1] /\ UNCHANGED free

Advance(q) == at' = [at EXCEPT ![q] = IF @ = Len(Plan(q)) THEN Ended ELSE @ + 1]

TakeConnection(q) == Wants(q, "take") /\ free > 0 /\ free' = free - 1 /\ Advance(q)
GiveConnection(q) == Wants(q, "give") /\ free' = free + 1 /\ Advance(q)

PatientSlip(q) == FALSE
\* The pool has none for 30 seconds: TimeoutError, answered with 500, and the
\* with block of the outer session gives back what the request holds.
PoolTimeout(q) ==
  /\ Wants(q, "take") /\ free = 0
  /\ free' = free + CheckedOut(q)
  /\ at' = [at EXCEPT ![q] = Ended]

PoolNext ==
  \E q \in PoolRequests : Arrive(q) \/ TakeConnection(q) \/ GiveConnection(q) \/ PoolTimeout(q)

\* Threads are scheduled, and one that waits for a connection is given one or
\* the pool's timer runs out.
PoolFairness ==
  \A q \in PoolRequests :
    WF_poolVars(TakeConnection(q) \/ GiveConnection(q) \/ PoolTimeout(q))

PoolSpec == PoolInit /\ [][PoolNext]_poolVars /\ PoolFairness
-----------------------------------------------------------------------------
(* Requests wait for each other's connections, with nobody to give one     *)
(* back but by the timeout, only when every connection of the pool is the  *)
(* outer one of a status request: fewer of those at a time than the pool   *)
(* has connections never block the platform.                               *)
Stalled ==
  /\ \E q \in PoolRequests : Wants(q, "take")
  /\ \A q \in PoolRequests : ~Wants(q, "give") /\ (Wants(q, "take") => free = 0)
StallTakesAllConnections ==
  Stalled => Cardinality({q \in StatusRequests : CheckedOut(q) = 1}) >= PoolSize

(* Every request that arrived ends: the stall lasts as long as the timeout *)
(* of the pool, whose victims free the rest.                               *)
RequestsEnd == \A q \in PoolRequests : (at[q] = 1) ~> (at[q] = Ended)
=============================================================================
