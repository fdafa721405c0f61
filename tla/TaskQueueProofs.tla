-------------------------- MODULE TaskQueueProofs --------------------------
(***************************************************************************)
(* Theorems about TaskQueue for any number of tasks, threads and tries.    *)
(* None of the properties is inductive as it stands; QueueInv adds what a  *)
(* stale row may and may not say.                                          *)
(***************************************************************************)
EXTENDS TaskQueue, TLAPS

\* A thread that is about to write the end of a try of a running row has
\* read "running", so that its UPDATE does carry the status column.
WillSettle(w, t) ==
  /\ held[w] = t /\ pc[w] \in Holding
  /\ pc[w] \in {"completing", "failing"} => seenStatus[w] = "running"

RunningWillSettle ==
  \A t \in Tasks : status[t] = "running" => t \in stranded \/ \E w \in Workers : WillSettle(w, t)

\* Counts in rows and in sessions only ever fall behind the claims.
CountsLag ==
  /\ \A t \in Tasks : attempts[t] <= claims[t]
  /\ \A w \in Workers : held[w] # NoTask => seenCount[w] <= claims[held[w]]
  /\ \A w \in Workers : pc[w] \in Holding => claims[held[w]] > 0

\* A row that was never claimed is still as enqueue() wrote it, and before
\* its commit there is none.
Unclaimed ==
  /\ \A t \in Tasks : status[t] = "absent" => claims[t] = 0
  /\ \A t \in Tasks : claims[t] = 0 => status[t] \in {"absent", "queued"}
  /\ \A w \in Workers : held[w] # NoTask => status[held[w]] # "absent"
  /\ \A t \in pending : status[t] = "absent"

QueueInv ==
  /\ TypeOK
  /\ RunningWillSettle
  /\ CountsLag
  /\ Unclaimed
  /\ NoPrematureFailure
  /\ CompletedHasResult

\* At first no task is enqueued and no thread has a row.
LEMMA InitQueueInv == Init => QueueInv
<1> SUFFICES ASSUME Init PROVE QueueInv
  OBVIOUS
<1>1. SomeRequest \in Requests
  BY ConstantsAssumption DEF SomeRequest, Requests
<1>2. TypeOK
  BY <1>1, ConstantsAssumption DEF Init, TypeOK, Statuses, Stages, Holding, Waiting
<1>3. RunningWillSettle /\ NoPrematureFailure /\ CompletedHasResult
  BY DEF Init, RunningWillSettle, NoPrematureFailure, CompletedHasResult
<1>4. CountsLag /\ Unclaimed
  BY <1>1 DEF Init, CountsLag, Unclaimed, Holding
<1> QED
  BY <1>2, <1>3, <1>4 DEF QueueInv

\* Forgetting an undone selection leaves sets of tasks.
LEMMA UndoneType ==
  ASSUME TypeOK, NEW rest
  PROVE  Undone(rest) \in [Tasks -> SUBSET Tasks]
BY DEF TypeOK, Undone

\* Every step of a thread keeps the types of the table.
LEMMA TypeStep == TypeOK /\ [Next]_vars => TypeOK'
<1> SUFFICES ASSUME TypeOK, [Next]_vars PROVE TypeOK'
  OBVIOUS
<1> USE DEF TypeOK, Statuses, Stages, Holding, Waiting, row, inserts, thread
<1>1. ASSUME NEW t \in Tasks, EnqueueStep(t)
      PROVE  TypeOK'
  <2>1. \A o \in Owners, p \in Priorities, d \in -1..MaxClock :
          [owner |-> o, priority |-> p, due |-> d, created |-> clock] \in Requests
    BY DEF Requests
  <2>2. ASSUME NEW o \in Owners, NEW p \in Priorities, NEW d \in -1..MaxClock, Stamp(t, o, p, d)
        PROVE  TypeOK'
    BY <2>1, <2>2 DEF Stamp
  <2>3. CASE Enqueue(t) \/ EnqueueRaises(t)
    BY <2>3, ConstantsAssumption DEF Enqueue, EnqueueRaises
  <2> QED
    BY <1>1, <2>2, <2>3 DEF EnqueueStep
<1>2. ASSUME NEW w \in Workers, NEW o \in Owners \cup {AnyOwner}, ClaimRead(w, o)
      PROVE  TypeOK'
  BY <1>2, ConstantsAssumption DEF ClaimRead, Claimable, ReadRow
<1>3. ASSUME NEW w \in Workers, ClaimCommit(w)
      PROVE  TypeOK'
  BY <1>3 DEF ClaimCommit, GoTo
<1>4. ASSUME NEW w \in Workers, StartHandler(w) \/ HandlerReturns(w) \/ HandlerRaises(w) \/ Leave(w)
      PROVE  TypeOK'
  BY <1>4 DEF StartHandler, HandlerReturns, HandlerRaises, Leave, GoTo
<1>5. ASSUME NEW w \in Workers, CompleteRead(w) \/ FailRead(w)
      PROVE  TypeOK'
  BY <1>5 DEF CompleteRead, FailRead, ReadRow
<1>6. ASSUME NEW w \in Workers, CompleteCommit(w)
      PROVE  TypeOK'
  BY <1>6, ConstantsAssumption DEF CompleteCommit, Flushed, Release
<1>7. ASSUME NEW w \in Workers, FailCommit(w)
      PROVE  TypeOK'
  BY <1>7, ConstantsAssumption DEF FailCommit, Flushed, StatusAfterFail, Release
<1>8. ASSUME NEW w \in Workers, Fault(w)
      PROVE  TypeOK'
  <2>1. CASE ClaimRaises(w)
    BY <2>1, UndoneType, ConstantsAssumption DEF ClaimRaises, Release
  <2>2. CASE CompleteRaises(w)
    BY <2>2, ConstantsAssumption DEF CompleteRaises, GoTo
  <2>3. CASE FailRaises(w)
    BY <2>3, ConstantsAssumption DEF FailRaises, Release
  <2> QED
    BY <1>8, <2>1, <2>2, <2>3 DEF Fault
<1>9. CASE Tick
  BY <1>9, ConstantsAssumption DEF Tick
<1>10. CASE Restart
  BY <1>10, UndoneType, ConstantsAssumption DEF Restart
<1>11. CASE UNCHANGED vars
  BY <1>11 DEF vars
<1> QED
  BY <1>1, <1>2, <1>3, <1>4, <1>5, <1>6, <1>7, <1>8, <1>9, <1>10, <1>11 DEF Next, Step

\* A running row keeps somebody who will settle it, or was lost to a fault.
LEMMA RunningWillSettleStep ==
  TypeOK /\ RunningWillSettle /\ [Next]_vars => RunningWillSettle'
<1> SUFFICES ASSUME TypeOK, RunningWillSettle, [Next]_vars,
                    NEW t \in Tasks, status'[t] = "running"
             PROVE  t \in stranded' \/ \E w \in Workers : WillSettle(w, t)'
  BY DEF RunningWillSettle
<1> USE DEF TypeOK, WillSettle, Holding, row, inserts, thread
<1>1. ASSUME NEW u \in Tasks, EnqueueStep(u)
      PROVE  t \in stranded' \/ \E w \in Workers : WillSettle(w, t)'
  BY <1>1 DEF EnqueueStep, Stamp, Enqueue, EnqueueRaises, RunningWillSettle
<1>2. ASSUME NEW v \in Workers, NEW o \in Owners \cup {AnyOwner}, ClaimRead(v, o)
      PROVE  t \in stranded' \/ \E w \in Workers : WillSettle(w, t)'
  BY <1>2 DEF ClaimRead, ReadRow, RunningWillSettle
<1>3. ASSUME NEW v \in Workers, ClaimCommit(v)
      PROVE  t \in stranded' \/ \E w \in Workers : WillSettle(w, t)'
  <2>1. CASE t = held[v]
    BY <1>3, <2>1 DEF ClaimCommit, GoTo
  <2>2. CASE t # held[v]
    BY <1>3, <2>2 DEF ClaimCommit, GoTo, RunningWillSettle
  <2> QED
    BY <2>1, <2>2
<1>4. ASSUME NEW v \in Workers, StartHandler(v) \/ HandlerReturns(v) \/ HandlerRaises(v) \/ Leave(v)
      PROVE  t \in stranded' \/ \E w \in Workers : WillSettle(w, t)'
  BY <1>4 DEF StartHandler, HandlerReturns, HandlerRaises, Leave, GoTo, RunningWillSettle
<1>5. ASSUME NEW v \in Workers, CompleteRead(v) \/ FailRead(v)
      PROVE  t \in stranded' \/ \E w \in Workers : WillSettle(w, t)'
  BY <1>5 DEF CompleteRead, FailRead, ReadRow, RunningWillSettle
\* The thread that settles the row read "running" from it, or it did not
\* write the status; then the row's witness is another thread.
<1>6. ASSUME NEW v \in Workers, CompleteCommit(v) \/ FailCommit(v)
      PROVE  t \in stranded' \/ \E w \in Workers : WillSettle(w, t)'
  <2>1. \E s \in {"completed", "retry", "failed"} : status' = Flushed(v, s)
    BY <1>6 DEF CompleteCommit, FailCommit, StatusAfterFail
  <2>2. status[t] = "running" /\ (held[v] = t => seenStatus[v] # "running")
    BY <2>1 DEF Flushed
  <2>3. Release(v, "leaving") /\ stranded' = stranded /\ pc[v] \in {"completing", "failing"}
    BY <1>6 DEF CompleteCommit, FailCommit
  <2>4. PICK w \in Workers : t \in stranded \/ WillSettle(w, t)
    BY <2>2 DEF RunningWillSettle
  <2> QED
    BY <2>2, <2>3, <2>4 DEF Release
<1>7. ASSUME NEW v \in Workers, Fault(v)
      PROVE  t \in stranded' \/ \E w \in Workers : WillSettle(w, t)'
  <2>1. PICK w \in Workers : t \in stranded \/ WillSettle(w, t)
    BY <1>7 DEF Fault, ClaimRaises, CompleteRaises, FailRaises, RunningWillSettle
  <2> QED
    BY <1>7, <2>1 DEF Fault, ClaimRaises, CompleteRaises, FailRaises, GoTo, Release
<1>8. CASE Tick
  BY <1>8 DEF Tick, RunningWillSettle
<1>9. CASE Restart
  BY <1>9 DEF Restart, RunningWillSettle
<1>10. CASE UNCHANGED vars
  BY <1>10 DEF vars, RunningWillSettle
<1> QED
  BY <1>1, <1>2, <1>3, <1>4, <1>5, <1>6, <1>7, <1>8, <1>9, <1>10 DEF Next, Step

\* Counts never get ahead of the claims.
LEMMA CountsLagStep ==
  TypeOK /\ CountsLag /\ [Next]_vars => CountsLag'
<1> SUFFICES ASSUME TypeOK, CountsLag, [Next]_vars PROVE CountsLag'
  OBVIOUS
<1> USE ConstantsAssumption DEF TypeOK, CountsLag, Holding, row, inserts, thread
<1>1. ASSUME NEW u \in Tasks, EnqueueStep(u)
      PROVE  CountsLag'
  BY <1>1 DEF EnqueueStep, Stamp, Enqueue, EnqueueRaises
<1>2. ASSUME NEW v \in Workers, NEW o \in Owners \cup {AnyOwner}, ClaimRead(v, o)
      PROVE  CountsLag'
  BY <1>2 DEF ClaimRead, Claimable, ReadRow
<1>3. ASSUME NEW v \in Workers, ClaimCommit(v)
      PROVE  CountsLag'
  <2>1. held[v] \in Tasks /\ seenCount[v] <= claims[held[v]]
    BY <1>3 DEF ClaimCommit
  <2> QED
    BY <1>3, <2>1 DEF ClaimCommit, GoTo
<1>4. ASSUME NEW v \in Workers, StartHandler(v) \/ HandlerReturns(v) \/ HandlerRaises(v) \/ Leave(v)
      PROVE  CountsLag'
  BY <1>4 DEF StartHandler, HandlerReturns, HandlerRaises, Leave, GoTo
<1>5. ASSUME NEW v \in Workers, CompleteRead(v) \/ FailRead(v)
      PROVE  CountsLag'
  BY <1>5 DEF CompleteRead, FailRead, ReadRow
<1>6. ASSUME NEW v \in Workers, CompleteCommit(v) \/ FailCommit(v)
      PROVE  CountsLag'
  BY <1>6 DEF CompleteCommit, FailCommit, Release
<1>7. ASSUME NEW v \in Workers, Fault(v)
      PROVE  CountsLag'
  BY <1>7 DEF Fault, ClaimRaises, CompleteRaises, FailRaises, GoTo, Release
<1>8. CASE Tick
  BY <1>8 DEF Tick
<1>9. CASE Restart
  BY <1>9 DEF Restart
<1>10. CASE UNCHANGED vars
  BY <1>10 DEF vars
<1> QED
  BY <1>1, <1>2, <1>3, <1>4, <1>5, <1>6, <1>7, <1>8, <1>9, <1>10 DEF Next, Step

\* What nobody claimed has no attempt.
LEMMA UnclaimedStep ==
  TypeOK /\ CountsLag /\ Unclaimed /\ [Next]_vars => Unclaimed'
<1> SUFFICES ASSUME TypeOK, CountsLag, Unclaimed, [Next]_vars PROVE Unclaimed'
  OBVIOUS
<1> USE ConstantsAssumption DEF TypeOK, Unclaimed, row, inserts, thread
<1>1. ASSUME NEW u \in Tasks, EnqueueStep(u)
      PROVE  Unclaimed'
  BY <1>1 DEF EnqueueStep, Stamp, Enqueue, EnqueueRaises
<1>2. ASSUME NEW v \in Workers, NEW o \in Owners \cup {AnyOwner}, ClaimRead(v, o)
      PROVE  Unclaimed'
  BY <1>2 DEF ClaimRead, Claimable, ClaimStatuses, Waiting, ReadRow
<1>3. ASSUME NEW v \in Workers, ClaimCommit(v)
      PROVE  Unclaimed'
  BY <1>3 DEF ClaimCommit, GoTo
<1>4. ASSUME NEW v \in Workers, StartHandler(v) \/ HandlerReturns(v) \/ HandlerRaises(v) \/ Leave(v)
      PROVE  Unclaimed'
  BY <1>4 DEF StartHandler, HandlerReturns, HandlerRaises, Leave, GoTo
<1>5. ASSUME NEW v \in Workers, CompleteRead(v) \/ FailRead(v)
      PROVE  Unclaimed'
  BY <1>5 DEF CompleteRead, FailRead, ReadRow
<1>6. ASSUME NEW v \in Workers, CompleteCommit(v) \/ FailCommit(v)
      PROVE  Unclaimed'
  <2>1. claims[held[v]] > 0 /\ held[v] \in Tasks /\ pc[v] \in {"completing", "failing"}
    BY <1>6 DEF CountsLag, Holding, CompleteCommit, FailCommit
  <2>2. PICK s \in {"completed", "retry", "failed"} : status' = Flushed(v, s)
    BY <1>6 DEF CompleteCommit, FailCommit, StatusAfterFail
  <2>3. /\ UNCHANGED <<claims, pending>>
        /\ \A w \in Workers : held'[w] \in {held[w], NoTask}
    BY <1>6 DEF CompleteCommit, FailCommit, Release
  <2> QED
    BY <2>1, <2>2, <2>3 DEF Flushed
<1>7. ASSUME NEW v \in Workers, Fault(v)
      PROVE  Unclaimed'
  BY <1>7 DEF Fault, ClaimRaises, CompleteRaises, FailRaises, GoTo, Release
<1>8. CASE Tick
  BY <1>8 DEF Tick
<1>9. CASE Restart
  BY <1>9 DEF Restart
<1>10. CASE UNCHANGED vars
  BY <1>10 DEF vars
<1> QED
  BY <1>1, <1>2, <1>3, <1>4, <1>5, <1>6, <1>7, <1>8, <1>9, <1>10 DEF Next, Step

\* Only CompleteCommit and FailCommit write the statuses these two are about.
LEMMA VerdictStep ==
  TypeOK /\ CountsLag /\ NoPrematureFailure /\ CompletedHasResult /\ [Next]_vars
    => NoPrematureFailure' /\ CompletedHasResult'
<1> SUFFICES ASSUME TypeOK, CountsLag, NoPrematureFailure, CompletedHasResult, [Next]_vars
             PROVE  NoPrematureFailure' /\ CompletedHasResult'
  OBVIOUS
<1> USE ConstantsAssumption DEF TypeOK, NoPrematureFailure, CompletedHasResult, row, inserts, thread
<1>1. ASSUME NEW u \in Tasks, EnqueueStep(u)
      PROVE  NoPrematureFailure' /\ CompletedHasResult'
  BY <1>1 DEF EnqueueStep, Stamp, Enqueue, EnqueueRaises
<1>2. ASSUME NEW v \in Workers, NEW o \in Owners \cup {AnyOwner}, ClaimRead(v, o)
      PROVE  NoPrematureFailure' /\ CompletedHasResult'
  BY <1>2 DEF ClaimRead
<1>3. ASSUME NEW v \in Workers, ClaimCommit(v)
      PROVE  NoPrematureFailure' /\ CompletedHasResult'
  BY <1>3 DEF ClaimCommit, GoTo
<1>4. ASSUME NEW v \in Workers, StartHandler(v) \/ HandlerReturns(v) \/ HandlerRaises(v) \/ Leave(v)
      PROVE  NoPrematureFailure' /\ CompletedHasResult'
  BY <1>4 DEF StartHandler, HandlerReturns, HandlerRaises, Leave
<1>5. ASSUME NEW v \in Workers, CompleteRead(v) \/ FailRead(v)
      PROVE  NoPrematureFailure' /\ CompletedHasResult'
  BY <1>5 DEF CompleteRead, FailRead
<1>6. ASSUME NEW v \in Workers, CompleteCommit(v)
      PROVE  NoPrematureFailure' /\ CompletedHasResult'
  <2>1. held[v] \in Tasks /\ claims[held[v]] > 0
    BY <1>6 DEF CompleteCommit, CountsLag, Holding
  <2> QED
    BY <1>6, <2>1 DEF CompleteCommit, Flushed
<1>7. ASSUME NEW v \in Workers, FailCommit(v)
      PROVE  NoPrematureFailure' /\ CompletedHasResult'
  <2>1. held[v] \in Tasks /\ seenCount[v] <= claims[held[v]]
    BY <1>7 DEF FailCommit, CountsLag
  <2>2. StatusAfterFail(seenCount[v]) = "failed" => claims[held[v]] >= MaxAttempts
    BY <2>1 DEF StatusAfterFail
  <2>3. StatusAfterFail(seenCount[v]) # "completed"
    BY DEF StatusAfterFail
  <2> QED
    BY <1>7, <2>1, <2>2, <2>3 DEF FailCommit, Flushed
<1>8. ASSUME NEW v \in Workers, Fault(v)
      PROVE  NoPrematureFailure' /\ CompletedHasResult'
  BY <1>8 DEF Fault, ClaimRaises, CompleteRaises, FailRaises
<1>9. CASE Tick \/ Restart
  BY <1>9 DEF Tick, Restart
<1>10. CASE UNCHANGED vars
  BY <1>10 DEF vars
<1> QED
  BY <1>1, <1>2, <1>3, <1>4, <1>5, <1>6, <1>7, <1>8, <1>9, <1>10 DEF Next, Step

(* QueueInv is an invariant of the queue under any interleaving of its     *)
(* threads, database errors and restarts.                                  *)
THEOREM QueueInvariant == Spec => []QueueInv
<1>1. QueueInv /\ [Next]_vars => QueueInv'
  BY TypeStep, RunningWillSettleStep, CountsLagStep, UnclaimedStep, VerdictStep DEF QueueInv
<1> QED
  BY InitQueueInv, <1>1, PTL DEF Spec

(* Every reachable state has the declared types.                           *)
THEOREM TypeCorrect == Spec => []TypeOK
<1>1. QueueInv => TypeOK
  BY DEF QueueInv
<1> QED
  BY <1>1, QueueInvariant, PTL

(* A running row has a thread that will settle it, or lost its thread to a *)
(* crash or an error in fail().                                            *)
THEOREM RunningIsAlwaysHeld == Spec => []RunningIsHeld
<1>1. QueueInv => RunningIsHeld
  BY DEF QueueInv, RunningWillSettle, WillSettle, RunningIsHeld, Holds
<1> QED
  BY <1>1, QueueInvariant, PTL

(* However many increments of attempts are lost, a task that failed for    *)
(* good was claimed at least max_attempts times.                           *)
THEOREM FailureIsNeverPremature == Spec => []NoPrematureFailure
<1>1. QueueInv => NoPrematureFailure
  BY DEF QueueInv
<1> QED
  BY <1>1, QueueInvariant, PTL

(* A completed row has the result of a handler run, even when two threads  *)
(* completed the task and one of them wrote no status.                     *)
THEOREM CompletionHasResult == Spec => []CompletedHasResult
<1>1. QueueInv => CompletedHasResult
  BY DEF QueueInv
<1> QED
  BY <1>1, QueueInvariant, PTL

-----------------------------------------------------------------------------
\* FirstComeFirstServed must already hold when a thread selects a row.
OrderKept ==
  \A t, u \in Tasks :
    Earlier(t, u) /\ (claims[u] > 0 \/ \E w \in Workers : held[w] = u)
      => claims[t] > 0 \/ u \in overtook[t]

\* What a task is ordered by are integers.
LEMMA RequestTypes ==
  ASSUME TypeOK, NEW t \in Tasks
  PROVE  /\ request[t].created \in Int /\ request[t].priority \in Int /\ request[t].due \in Int
         /\ clock \in Int /\ claims[t] \in Nat
<1>1. request[t] \in Requests /\ clock \in Int /\ claims[t] \in Nat
  BY DEF TypeOK
<1>2. \A r \in Requests : r.created \in 0..MaxClock /\ r.priority \in Priorities /\ r.due \in -1..MaxClock
  BY DEF Requests
<1>3. /\ request[t].created \in 0..MaxClock
      /\ request[t].priority \in Priorities
      /\ request[t].due \in -1..MaxClock
  BY <1>1, <1>2
<1>4. request[t].created \in Int
  BY <1>3
<1>5. request[t].due \in Int
  BY <1>3
<1>6. request[t].priority \in Int
  BY <1>3, ConstantsAssumption
<1> QED
  BY <1>1, <1>4, <1>5, <1>6

\* A selected task goes before every other that its thread could claim; an
\* INSERT committed later notes what was selected before it.
LEMMA OrderKeptStep ==
  QueueInv /\ OrderKept /\ [Next]_vars => OrderKept'
<1> SUFFICES ASSUME QueueInv, OrderKept, [Next]_vars,
                    NEW t \in Tasks, NEW u \in Tasks, Earlier(t, u)',
                    claims'[u] > 0 \/ \E w \in Workers : held'[w] = u
             PROVE  claims'[t] > 0 \/ u \in overtook'[t]
  BY DEF OrderKept
<1> USE ConstantsAssumption DEF TypeOK, row, inserts, thread
<1>0. TypeOK /\ Unclaimed
  BY DEF QueueInv
<1>t. /\ request[t].created \in Int /\ request[t].priority \in Int /\ request[t].due \in Int
      /\ request[u].created \in Int /\ request[u].priority \in Int /\ request[u].due \in Int
      /\ clock \in Int /\ claims[t] \in Nat
  BY <1>0, RequestTypes
\* The row of u was claimed or selected before: t was there already.
<1>a. ASSUME claims[u] > 0 \/ \E w \in Workers : held[w] = u, Earlier(t, u),
             claims'[t] \in {claims[t], claims[t] + 1}, u \in overtook[t] => u \in overtook'[t]
      PROVE  claims'[t] > 0 \/ u \in overtook'[t]
  BY <1>0, <1>t, <1>a DEF OrderKept
<1>1. ASSUME NEW x \in Tasks, EnqueueStep(x)
      PROVE  claims'[t] > 0 \/ u \in overtook'[t]
  <2>0. UNCHANGED <<claims, held>>
    BY <1>1 DEF EnqueueStep, Stamp, Enqueue, EnqueueRaises
  <2>1. status[u] # "absent"
    BY <1>0, <2>0 DEF Unclaimed
  <2>2. ASSUME NEW o \in Owners, NEW p \in Priorities, NEW d \in -1..MaxClock, Stamp(x, o, p, d)
        PROVE  claims'[t] > 0 \/ u \in overtook'[t]
    <3>1. x # u /\ x # t
      BY <2>1, <2>2 DEF Stamp, Earlier
    <3> QED
      BY <1>0, <1>a, <1>t, <2>0, <2>2, <3>1 DEF Stamp, Earlier
  <2>3. CASE Enqueue(x) /\ x = t
    BY <1>0, <2>0, <2>3 DEF Enqueue
  <2>4. CASE Enqueue(x) /\ x # t
    BY <1>0, <1>a, <1>t, <2>0, <2>4 DEF Enqueue, Earlier
  <2>5. CASE EnqueueRaises(x)
    BY <1>a, <1>t, <2>0, <2>5 DEF EnqueueRaises, Earlier
  <2> QED
    BY <1>1, <2>2, <2>3, <2>4, <2>5 DEF EnqueueStep
<1>2. ASSUME NEW v \in Workers, NEW o \in Owners \cup {AnyOwner}, ClaimRead(v, o)
      PROVE  claims'[t] > 0 \/ u \in overtook'[t]
  <2>1. Earlier(t, u) /\ claims' = claims /\ overtook' = overtook
    BY <1>2 DEF ClaimRead, Earlier
  <2>2. CASE held'[v] = u
    <3>1. u \in Claimable(o) /\ \A y \in Claimable(o) : Precedes(u, y)
      BY <1>0, <1>2, <2>2 DEF ClaimRead, ReadRow, Claimable
    <3>2. claims[t] = 0 => t \in Claimable(o)
      BY <1>0, <1>t, <2>1, <3>1 DEF Unclaimed, Claimable, ClaimStatuses, Waiting, Earlier
    <3>3. ~Precedes(u, t)
      BY <1>t, <2>1 DEF Precedes, Earlier
    <3> QED
      BY <1>t, <2>1, <3>1, <3>2, <3>3
  <2>3. CASE held'[v] # u
    BY <1>0, <1>2, <1>a, <1>t, <2>1, <2>3 DEF ClaimRead, ReadRow
  <2> QED
    BY <2>2, <2>3
<1>3. ASSUME NEW v \in Workers, ClaimCommit(v)
      PROVE  claims'[t] > 0 \/ u \in overtook'[t]
  <2>1. held[v] \in Tasks /\ held' = held /\ claims' = [claims EXCEPT ![held[v]] = @ + 1] /\ overtook' = overtook
    BY <1>0, <1>3 DEF ClaimCommit, GoTo
  <2>2. claims[u] > 0 \/ \E w \in Workers : held[w] = u
    BY <1>0, <2>1
  <2>3. Earlier(t, u)
    BY <1>0, <1>3, <2>1 DEF ClaimCommit, Earlier, Unclaimed
  <2> QED
    BY <1>0, <1>a, <2>1, <2>2, <2>3
<1>4. ASSUME NEW v \in Workers, \/ StartHandler(v) \/ HandlerReturns(v) \/ HandlerRaises(v) \/ Leave(v)
                                \/ CompleteRead(v) \/ FailRead(v) \/ CompleteRaises(v) \/ FailRaises(v)
      PROVE  claims'[t] > 0 \/ u \in overtook'[t]
  <2>1. UNCHANGED <<status, request, claims, overtook>>
    BY <1>4 DEF StartHandler, HandlerReturns, HandlerRaises, Leave, CompleteRead, FailRead,
                CompleteRaises, FailRaises
  <2>2. \A w \in Workers : held'[w] \in {held[w], NoTask}
    BY <1>0, <1>4 DEF StartHandler, HandlerReturns, HandlerRaises, Leave, CompleteRead, FailRead,
                CompleteRaises, FailRaises, GoTo, ReadRow, Release
  <2> QED
    BY <1>a, <1>t, <2>1, <2>2 DEF Earlier
\* A selection that is given up is forgotten, unless another stands.
<1>5. ASSUME NEW v \in Workers, ClaimRaises(v)
      PROVE  claims'[t] > 0 \/ u \in overtook'[t]
  <2>1. /\ UNCHANGED <<status, request, claims>>
        /\ held' = [held EXCEPT ![v] = NoTask]
        /\ overtook' = Undone({w \in Workers : w # v /\ held[w] # NoTask})
    BY <1>5 DEF ClaimRaises, Release
  <2>2. claims[u] > 0 \/ \E w \in {x \in Workers : x # v /\ held[x] # NoTask} : held[w] = u
    BY <1>0, <2>1
  <2> QED
    BY <1>a, <1>t, <2>1, <2>2 DEF Earlier, Undone
<1>6. ASSUME NEW v \in Workers, CompleteCommit(v) \/ FailCommit(v)
      PROVE  claims'[t] > 0 \/ u \in overtook'[t]
  <2>1. PICK s \in {"completed", "retry", "failed"} : status' = Flushed(v, s)
    BY <1>6 DEF CompleteCommit, FailCommit, StatusAfterFail
  <2>2. UNCHANGED <<request, claims, overtook>> /\ Release(v, "leaving") /\ pc[v] \in {"completing", "failing"}
    BY <1>6 DEF CompleteCommit, FailCommit
  <2>3. held[v] \in Tasks /\ status[held[v]] # "absent"
    BY <1>0, <2>2 DEF Unclaimed
  <2>4. status[t] # "absent"
    BY <1>0, <2>1, <2>3 DEF Flushed, Earlier
  <2>5. Earlier(t, u)
    BY <2>2, <2>4 DEF Earlier
  <2>6. claims[u] > 0 \/ \E w \in Workers : held[w] = u
    BY <1>0, <2>2 DEF Release
  <2> QED
    BY <1>a, <1>t, <2>2, <2>5, <2>6
<1>7. CASE Tick
  BY <1>7, <1>a, <1>t DEF Tick, Earlier
<1>8. CASE Restart
  <2>1. UNCHANGED <<status, request, claims>> /\ \A w \in Workers : held'[w] = NoTask
    BY <1>8 DEF Restart
  <2>2. claims[u] > 0 /\ overtook' = Undone({})
    BY <1>8, <2>1 DEF Restart
  <2> QED
    BY <1>a, <1>t, <2>1, <2>2 DEF Earlier, Undone
<1>9. CASE UNCHANGED vars
  BY <1>9, <1>a, <1>t DEF vars, Earlier
<1> QED
  BY <1>1, <1>2, <1>3, <1>4, <1>5, <1>6, <1>7, <1>8, <1>9 DEF Next, Step, Fault

(* Tasks of one owner are claimed in order of priority, then age, whatever *)
(* the threads, errors and restarts: only a task that was selected before  *)
(* the row of an earlier one was committed overtakes it.                   *)
THEOREM ClaimsKeepOrder == Spec => []FirstComeFirstServed
<1>1. Init => OrderKept
  BY ConstantsAssumption DEF Init, OrderKept, Earlier
<1>2. OrderKept => FirstComeFirstServed
  BY DEF OrderKept, FirstComeFirstServed
<1> QED
  BY <1>1, <1>2, OrderKeptStep, QueueInvariant, PTL DEF Spec

-----------------------------------------------------------------------------
Processing == (Holding \ {"claimed"}) \cup {"leaving"}
BusyInv == workerStatus = "running" => \E w \in Workers : pc[w] \in Processing

(* The shared status field says "running" only while a thread is inside    *)
(* the try of process_once: the thread that wrote it last is.              *)
THEOREM BusyReportIsAlwaysTrue == Spec => []BusyReportIsTrue
<1>1. Init => BusyInv
  BY DEF Init, BusyInv
<1>2. TypeOK /\ BusyInv /\ [Next]_vars => BusyInv'
  <2> SUFFICES ASSUME TypeOK, BusyInv, [Next]_vars PROVE BusyInv'
    OBVIOUS
  <2> USE DEF TypeOK, BusyInv, Processing, Holding, row, inserts, thread
  <2>1. ASSUME NEW t \in Tasks, EnqueueStep(t)
        PROVE  BusyInv'
    BY <2>1 DEF EnqueueStep, Stamp, Enqueue, EnqueueRaises
  <2>2. ASSUME NEW w \in Workers, NEW o \in Owners \cup {AnyOwner}, ClaimRead(w, o)
        PROVE  BusyInv'
    BY <2>2 DEF ClaimRead, ReadRow
  <2>3. ASSUME NEW w \in Workers, Step(w)
        PROVE  BusyInv'
    <3>1. CASE ClaimCommit(w) \/ StartHandler(w) \/ HandlerReturns(w) \/ HandlerRaises(w) \/ Leave(w)
      BY <3>1 DEF ClaimCommit, StartHandler, HandlerReturns, HandlerRaises, Leave, GoTo
    <3>2. CASE CompleteRead(w) \/ FailRead(w) \/ CompleteCommit(w) \/ FailCommit(w)
      BY <3>2 DEF CompleteRead, FailRead, CompleteCommit, FailCommit, ReadRow, Release
    <3> QED
      BY <2>3, <3>1, <3>2 DEF Step
  <2>4. ASSUME NEW w \in Workers, Fault(w)
        PROVE  BusyInv'
    BY <2>4 DEF Fault, ClaimRaises, CompleteRaises, FailRaises, GoTo, Release
  <2>5. CASE Tick \/ Restart \/ UNCHANGED vars
    BY <2>5 DEF Tick, Restart, vars
  <2> QED
    BY <2>1, <2>2, <2>3, <2>4, <2>5 DEF Next
<1>3. BusyInv => BusyReportIsTrue
  BY DEF BusyInv, BusyReportIsTrue, Processing, Holding
<1> QED
  BY <1>1, <1>2, <1>3, TypeCorrect, PTL DEF Spec

-----------------------------------------------------------------------------
OneThread == \A v, w \in Workers : v = w

\* With one thread, what its session read is what the row still says.
SerialInv ==
  /\ \A w \in Workers :
       /\ pc[w] = "selected" => /\ status[held[w]] \in Waiting
                                /\ seenCount[w] = attempts[held[w]]
       /\ pc[w] \in Holding => status[held[w]] = "running"
       /\ pc[w] \in {"completing", "failing"} => /\ seenStatus[w] = "running"
                                                 /\ seenCount[w] = attempts[held[w]]
  /\ \A t \in Tasks : /\ attempts[t] <= MaxAttempts
                      /\ status[t] \in Waiting => attempts[t] < MaxAttempts

\* With one thread, what was read is what the row says.
LEMMA SerialInvStep ==
  ASSUME OneThread
  PROVE  TypeOK /\ Unclaimed /\ CountsLag /\ SerialInv /\ [Next]_vars => SerialInv'
<1> SUFFICES ASSUME TypeOK, Unclaimed, CountsLag, SerialInv, [Next]_vars PROVE SerialInv'
  OBVIOUS
<1> USE ConstantsAssumption DEF TypeOK, SerialInv, OneThread, Holding, Waiting, row, inserts, thread
<1>1. ASSUME NEW t \in Tasks, EnqueueStep(t)
      PROVE  SerialInv'
  <2>1. attempts[t] = 0 /\ \A w \in Workers : held[w] # t
    BY <1>1 DEF EnqueueStep, Stamp, Enqueue, EnqueueRaises, Unclaimed, CountsLag
  <2> QED
    BY <1>1, <2>1 DEF EnqueueStep, Stamp, Enqueue, EnqueueRaises
<1>2. ASSUME NEW w \in Workers, NEW o \in Owners \cup {AnyOwner}, ClaimRead(w, o)
      PROVE  SerialInv'
  BY <1>2 DEF ClaimRead, Claimable, ClaimStatuses, ReadRow
<1>3. ASSUME NEW w \in Workers, ClaimCommit(w)
      PROVE  SerialInv'
  BY <1>3 DEF ClaimCommit, GoTo
<1>4. ASSUME NEW w \in Workers, StartHandler(w) \/ HandlerReturns(w) \/ HandlerRaises(w) \/ Leave(w)
      PROVE  SerialInv'
  BY <1>4 DEF StartHandler, HandlerReturns, HandlerRaises, Leave, GoTo
<1>5. ASSUME NEW w \in Workers, CompleteRead(w) \/ FailRead(w)
      PROVE  SerialInv'
  BY <1>5 DEF CompleteRead, FailRead, ReadRow
<1>6. ASSUME NEW w \in Workers, CompleteCommit(w)
      PROVE  SerialInv'
  BY <1>6 DEF CompleteCommit, Flushed, Release
<1>7. ASSUME NEW w \in Workers, FailCommit(w)
      PROVE  SerialInv'
  BY <1>7 DEF FailCommit, StatusAfterFail, Flushed, Release
<1>8. ASSUME NEW w \in Workers, Fault(w)
      PROVE  SerialInv'
  BY <1>8 DEF Fault, ClaimRaises, CompleteRaises, FailRaises, GoTo, Release
<1>9. CASE Tick \/ Restart
  BY <1>9 DEF Tick, Restart
<1>10. CASE UNCHANGED vars
  BY <1>10 DEF vars
<1> QED
  BY <1>1, <1>2, <1>3, <1>4, <1>5, <1>6, <1>7, <1>8, <1>9, <1>10 DEF Next, Step

\* With one thread, a step is one of the life cycle, or none.
LEMMA SerialStepRefines ==
  TypeOK /\ Unclaimed /\ SerialInv /\ [Next]_vars => [Lifecycle!Next]_<<status, attempts>>
<1> SUFFICES ASSUME TypeOK, Unclaimed, SerialInv, [Next]_vars,
                    ~(UNCHANGED <<status, attempts>>)
             PROVE  Lifecycle!Next
  OBVIOUS
<1> USE ConstantsAssumption DEF TypeOK, SerialInv, Holding, Waiting, row, inserts, thread
<1>1. ASSUME NEW t \in Tasks, EnqueueStep(t)
      PROVE  Lifecycle!Next
  BY <1>1 DEF EnqueueStep, Stamp, Enqueue, EnqueueRaises, Unclaimed, Lifecycle!Next, Lifecycle!Submit
<1>2. ASSUME NEW w \in Workers, ClaimCommit(w)
      PROVE  Lifecycle!Next
  BY <1>2 DEF ClaimCommit, Lifecycle!Next, Lifecycle!Begin
<1>3. ASSUME NEW w \in Workers, CompleteCommit(w)
      PROVE  Lifecycle!Next
  <2>1. held[w] \in Tasks /\ status[held[w]] = "running" /\ seenStatus[w] = "running"
    BY <1>3 DEF CompleteCommit
  <2>2. Lifecycle!Succeed(held[w])
    BY <1>3, <2>1 DEF CompleteCommit, Flushed, Lifecycle!Succeed
  <2> QED
    BY <2>1, <2>2 DEF Lifecycle!Next
<1>4. ASSUME NEW w \in Workers, FailCommit(w)
      PROVE  Lifecycle!Next
  <2>1. held[w] \in Tasks /\ status[held[w]] = "running"
    BY <1>4 DEF FailCommit
  <2>2. StatusAfterFail(seenCount[w]) = IF attempts[held[w]] = MaxAttempts THEN "failed" ELSE "retry"
    BY <1>4, <2>1 DEF FailCommit, StatusAfterFail
  <2>3. Lifecycle!Fail(held[w])
    BY <1>4, <2>1, <2>2 DEF FailCommit, StatusAfterFail, Flushed, Lifecycle!Fail
  <2> QED
    BY <2>1, <2>3 DEF Lifecycle!Next
<1>5. ASSUME NEW w \in Workers, \/ \E o \in Owners \cup {AnyOwner} : ClaimRead(w, o)
                                \/ StartHandler(w) \/ HandlerReturns(w) \/ HandlerRaises(w) \/ Leave(w)
                                \/ CompleteRead(w) \/ FailRead(w) \/ Fault(w)
      PROVE  Lifecycle!Next
  BY <1>5 DEF ClaimRead, StartHandler, HandlerReturns, HandlerRaises, Leave, CompleteRead, FailRead,
              Fault, ClaimRaises, CompleteRaises, FailRaises
<1>6. CASE Tick \/ Restart \/ UNCHANGED vars
  BY <1>6 DEF Tick, Restart, vars
<1> QED
  BY <1>1, <1>2, <1>3, <1>4, <1>5, <1>6 DEF Next, Step

(* With one thread, over any errors and restarts, the queue implements the *)
(* abstract life cycle: at most MaxAttempts tries, and settled is settled. *)
THEOREM SerialRefinement ==
  ASSUME OneThread
  PROVE  Spec => ImplementsLifecycle
<1>1. Init => Lifecycle!Init /\ SerialInv
  BY ConstantsAssumption DEF Init, Lifecycle!Init, SerialInv, Holding
<1>2. QueueInv => TypeOK /\ Unclaimed /\ CountsLag
  BY DEF QueueInv
<1>3. TypeOK /\ Unclaimed /\ CountsLag /\ SerialInv /\ [Next]_vars => SerialInv'
  BY SerialInvStep
<1> QED
  BY <1>1, <1>2, <1>3, SerialStepRefines, QueueInvariant, PTL
  DEF Spec, ImplementsLifecycle, Lifecycle!Spec

=============================================================================
