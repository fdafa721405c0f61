----------------------------- MODULE TaskQueue -----------------------------
(***************************************************************************)
(* The persistent task queue (core/runtime/queue.py) and the background    *)
(* worker (core/runtime/worker.py) that POST /workers/run-once drives.     *)
(*                                                                         *)
(* A FastAPI sync handler runs in a thread pool, so several process_once   *)
(* calls are in progress at once; each member of Workers is one such       *)
(* thread.  All of them share one BackgroundWorker object and one table.   *)
(* A queue method reads its row, then commits: the SELECT runs outside any *)
(* transaction, so other threads commit in between, and the UPDATE carries *)
(* only the columns whose value differs from the row that was read.        *)
(* enqueue() likewise draws created_at before its INSERT is committed, so  *)
(* that rows do not become visible in the order of their stamps.           *)
(***************************************************************************)
EXTENDS Integers

CONSTANTS
  Tasks,        \* identities of the tasks that may be enqueued
  Workers,      \* threads that call BackgroundWorker.process_once
  Owners,       \* owners a task may have
  Priorities,   \* priorities a task may have; the smallest is the most urgent
  MaxAttempts,  \* Task.max_attempts
  MaxClock,     \* bound: the last instant of the clock
  MaxFaults,    \* bound: database errors and process crashes together
  NoTask,       \* held[w] of a thread that is not processing a task
  AnyOwner      \* process_once(None)

ASSUME ConstantsAssumption ==
  /\ MaxAttempts \in Nat \ {0}
  /\ MaxClock \in Nat
  /\ MaxFaults \in Nat
  /\ Owners # {}
  /\ Priorities # {}
  /\ \A p \in Priorities : p \in Nat
  /\ NoTask \notin Tasks
  /\ AnyOwner \notin Owners

VARIABLES
  status,     \* tasks.status; "absent" before the INSERT is committed
  attempts,   \* tasks.attempts
  outcome,    \* which of the result and error columns have been written
  request,    \* owner, priority, scheduled_for (-1: null) and created_at
  pending,    \* tasks whose created_at is drawn and whose INSERT is not committed
  pc,         \* where each thread is in process_once
  held,       \* the task of its local variable `task`
  seenStatus, \* status in the row its session last read
  seenCount,  \* attempts in that row
  workerStatus, \* BackgroundWorker.status, shared by all threads
  clock,
  faults,     \* errors and crashes so far
  claims,     \* history: committed claims of each task
  stranded,   \* history: tasks whose thread died or whose fail() raised
  overtook    \* history: tasks selected before a task became visible

row == <<status, attempts, outcome>>
inserts == <<request, pending>>
thread == <<pc, held, seenStatus, seenCount>>
vars == <<row, inserts, thread, workerStatus, clock, faults, claims, stranded, overtook>>

Waiting == {"queued", "retry"}
Statuses == Waiting \cup {"absent", "running", "completed", "failed"}
\* The stages of process_once.  A thread in Holding has claimed its task and
\* has not yet recorded the end of this try.
Holding == {"claimed", "handling", "returned", "completing", "raised", "failing"}
Stages == Holding \cup {"idle", "selected", "leaving"}
Requests == [owner : Owners, priority : Priorities, due : -1..MaxClock, created : 0..MaxClock]

TypeOK ==
  /\ status \in [Tasks -> Statuses]
  /\ attempts \in [Tasks -> Nat]
  /\ outcome \in [Tasks -> SUBSET {"result", "error"}]
  /\ request \in [Tasks -> Requests]
  /\ pc \in [Workers -> Stages]
  /\ held \in [Workers -> Tasks \cup {NoTask}]
  /\ \A w \in Workers : held[w] = NoTask <=> pc[w] \in {"idle", "leaving"}
  /\ seenStatus \in [Workers -> Statuses]
  /\ seenCount \in [Workers -> Nat]
  /\ workerStatus \in {"idle", "running"}
  /\ clock \in 0..MaxClock
  /\ faults \in 0..MaxFaults
  /\ claims \in [Tasks -> Nat]
  /\ stranded \in SUBSET Tasks
  /\ pending \in SUBSET Tasks
  /\ overtook \in [Tasks -> SUBSET Tasks]

\* A request value for tasks that do not exist yet.
SomeRequest == [owner |-> CHOOSE o \in Owners : TRUE,
                priority |-> CHOOSE p \in Priorities : TRUE, due |-> -1, created |-> 0]

Init ==
  /\ status = [t \in Tasks |-> "absent"]
  /\ attempts = [t \in Tasks |-> 0]
  /\ outcome = [t \in Tasks |-> {}]
  /\ request = [t \in Tasks |-> SomeRequest]
  /\ pc = [w \in Workers |-> "idle"]
  /\ held = [w \in Workers |-> NoTask]
  /\ seenStatus = [w \in Workers |-> "absent"]
  /\ seenCount = [w \in Workers |-> 0]
  /\ workerStatus = "idle"
  /\ clock = 0
  /\ faults = 0
  /\ claims = [t \in Tasks |-> 0]
  /\ stranded = {}
  /\ pending = {}
  /\ overtook = [t \in Tasks |-> {}]
-----------------------------------------------------------------------------
(* PersistentTaskQueue.enqueue: the flush of the INSERT evaluates the      *)
(* default of created_at.                                                  *)
Stamp(t, o, p, d) ==
  /\ status[t] = "absent" /\ t \notin pending
  /\ request' = [request EXCEPT ![t] = [owner |-> o, priority |-> p, due |-> d, created |-> clock]]
  /\ pending' = pending \cup {t}
  /\ UNCHANGED <<row, thread, workerStatus, clock, faults, claims, stranded, overtook>>

(* The commit: from here on other sessions see the row.                    *)
Enqueue(t) ==
  /\ t \in pending
  /\ status' = [status EXCEPT ![t] = "queued"]
  /\ pending' = pending \ {t}
  /\ overtook' = [overtook EXCEPT ![t] = {u \in Tasks : claims[u] > 0 \/ \E w \in Workers : held[w] = u}]
  /\ UNCHANGED <<attempts, outcome, request, thread, workerStatus, clock, faults, claims, stranded>>

(* The INSERT or its commit raises: there is no row.                       *)
EnqueueRaises(t) ==
  /\ t \in pending /\ faults < MaxFaults
  /\ faults' = faults + 1
  /\ pending' = pending \ {t}
  /\ UNCHANGED <<row, request, thread, workerStatus, clock, claims, stranded, overtook>>

\* The WHERE and ORDER BY clauses of the SELECT of claim().  An operator whose
\* name ends in "Slip" is never used: it is the definition after it with the
\* mistake one could make there, kept to show that a property notices it.
StatusSlip == Waiting \cup {"failed"}
ClaimStatuses == Waiting
UnscheduledSlip(o) == {t \in Tasks : /\ status[t] \in ClaimStatuses
                                     /\ request[t].due = -1
                                     /\ o \in {AnyOwner, request[t].owner}}
Claimable(o) == {t \in Tasks : /\ status[t] \in ClaimStatuses
                               /\ request[t].due <= clock
                               /\ o \in {AnyOwner, request[t].owner}}
NewestFirstSlip(t, u) == \/ request[t].priority < request[u].priority
                         \/ /\ request[t].priority = request[u].priority
                            /\ request[t].created >= request[u].created
Precedes(t, u) == \/ request[t].priority < request[u].priority
                  \/ /\ request[t].priority = request[u].priority
                     /\ request[t].created <= request[u].created

\* A thread moves to stage s; a session that reads task t keeps its row.
GoTo(w, s) == pc' = [pc EXCEPT ![w] = s] /\ UNCHANGED <<held, seenStatus, seenCount>>
ReadRow(w, t, s) == /\ pc' = [pc EXCEPT ![w] = s]
                    /\ held' = [held EXCEPT ![w] = t]
                    /\ seenStatus' = [seenStatus EXCEPT ![w] = status[t]]
                    /\ seenCount' = [seenCount EXCEPT ![w] = attempts[t]]
Release(w, s) == /\ pc' = [pc EXCEPT ![w] = s]
                 /\ held' = [held EXCEPT ![w] = NoTask]
                 /\ seenStatus' = [seenStatus EXCEPT ![w] = "absent"]
                 /\ seenCount' = [seenCount EXCEPT ![w] = 0]

(* claim(): the SELECT.  With no row it returns None and nothing changes.  *)
ClaimRead(w, o) ==
  /\ pc[w] = "idle"
  /\ \E t \in Claimable(o) : /\ \A u \in Claimable(o) : Precedes(t, u)
                             /\ ReadRow(w, t, "selected")
  /\ UNCHANGED <<row, inserts, workerStatus, clock, faults, claims, stranded, overtook>>

(* claim(): the UPDATE of status and attempts, computed from the row read, *)
(* and its commit.                                                         *)
ClaimCommit(w) ==
  /\ pc[w] = "selected"
  /\ status' = [status EXCEPT ![held[w]] = "running"]
  /\ attempts' = [attempts EXCEPT ![held[w]] = seenCount[w] + 1]
  /\ claims' = [claims EXCEPT ![held[w]] = @ + 1]
  /\ GoTo(w, "claimed")
  /\ UNCHANGED <<outcome, inserts, workerStatus, clock, faults, stranded, overtook>>

\* A selection that came to nothing has overtaken nobody: only claimed tasks
\* and those that the threads in rest still hold have.
Undone(rest) ==
  [t \in Tasks |-> {u \in overtook[t] : claims[u] > 0 \/ \E v \in rest : held[v] = u}]

(* claim() raises, before the try: the request ends with no effect.        *)
ClaimRaises(w) ==
  /\ pc[w] = "selected" /\ faults < MaxFaults
  /\ faults' = faults + 1
  /\ Release(w, "idle")
  /\ overtook' = Undone({v \in Workers : v # w /\ held[v] # NoTask})
  /\ UNCHANGED <<row, inserts, workerStatus, clock, claims, stranded>>

StartHandler(w) ==
  /\ pc[w] = "claimed"
  /\ workerStatus' = "running"
  /\ GoTo(w, "handling")
  /\ UNCHANGED <<row, inserts, clock, faults, claims, stranded, overtook>>

HandlerReturns(w) ==
  /\ pc[w] = "handling"
  /\ GoTo(w, "returned")
  /\ UNCHANGED <<row, inserts, workerStatus, clock, faults, claims, stranded, overtook>>

UncaughtSlip(w) ==
  /\ pc[w] = "handling"
  /\ Release(w, "leaving")
  /\ UNCHANGED <<row, inserts, workerStatus, clock, faults, claims, stranded, overtook>>
HandlerRaises(w) ==
  /\ pc[w] = "handling"
  /\ GoTo(w, "raised")
  /\ UNCHANGED <<row, inserts, workerStatus, clock, faults, claims, stranded, overtook>>

\* The flush omits the status column when it equals the row that was read.
Flushed(w, new) == [status EXCEPT ![held[w]] = IF seenStatus[w] = new THEN @ ELSE new]

(* complete(): session.get, then the UPDATE and its commit.                *)
CompleteRead(w) ==
  /\ pc[w] = "returned"
  /\ ReadRow(w, held[w], "completing")
  /\ UNCHANGED <<row, inserts, workerStatus, clock, faults, claims, stranded, overtook>>

NoResultSlip(w) ==
  /\ pc[w] = "completing"
  /\ status' = Flushed(w, "completed")
  /\ Release(w, "leaving")
  /\ UNCHANGED <<outcome, attempts, inserts, workerStatus, clock, faults, claims, stranded, overtook>>
CompleteCommit(w) ==
  /\ pc[w] = "completing"
  /\ status' = Flushed(w, "completed")
  /\ outcome' = [outcome EXCEPT ![held[w]] = @ \cup {"result"}]
  /\ Release(w, "leaving")
  /\ UNCHANGED <<attempts, inserts, workerStatus, clock, faults, claims, stranded, overtook>>

(* complete() raises inside the try: process_once goes on to fail(),       *)
(* although the handler has run to its end.                                *)
CompleteRaises(w) ==
  /\ pc[w] \in {"returned", "completing"} /\ faults < MaxFaults
  /\ faults' = faults + 1
  /\ GoTo(w, "raised")
  /\ UNCHANGED <<row, inserts, workerStatus, clock, claims, stranded, overtook>>

(* fail(): session.get, then the UPDATE and its commit.                    *)
FailRead(w) ==
  /\ pc[w] = "raised"
  /\ ReadRow(w, held[w], "failing")
  /\ UNCHANGED <<row, inserts, workerStatus, clock, faults, claims, stranded, overtook>>

TypoSlip(count) == IF count < MaxAttempts THEN "retrying" ELSE "failed"
EarlySlip(count) == IF count + 1 < MaxAttempts THEN "retry" ELSE "failed"
StatusAfterFail(count) == IF count < MaxAttempts THEN "retry" ELSE "failed"

FailCommit(w) ==
  /\ pc[w] = "failing"
  /\ status' = Flushed(w, StatusAfterFail(seenCount[w]))
  /\ outcome' = [outcome EXCEPT ![held[w]] = @ \cup {"error"}]
  /\ Release(w, "leaving")
  /\ UNCHANGED <<attempts, inserts, workerStatus, clock, faults, claims, stranded, overtook>>

(* fail() itself raises: the row keeps what the claim wrote.               *)
FailRaises(w) ==
  /\ pc[w] \in {"raised", "failing"} /\ faults < MaxFaults
  /\ faults' = faults + 1
  /\ stranded' = stranded \cup {held[w]}
  /\ Release(w, "leaving")
  /\ UNCHANGED <<row, inserts, workerStatus, clock, claims, overtook>>

(* The finally clause of process_once.                                     *)
StillBusySlip(w) ==
  /\ pc[w] = "leaving"
  /\ GoTo(w, "idle")
  /\ UNCHANGED <<row, inserts, workerStatus, clock, faults, claims, stranded, overtook>>
Leave(w) ==
  /\ pc[w] = "leaving"
  /\ workerStatus' = "idle"
  /\ GoTo(w, "idle")
  /\ UNCHANGED <<row, inserts, clock, faults, claims, stranded, overtook>>

Tick ==
  /\ clock < MaxClock
  /\ clock' = clock + 1
  /\ UNCHANGED <<row, inserts, thread, workerStatus, faults, claims, stranded, overtook>>

(* The process stops and starts again on the same database: its threads    *)
(* are gone, create_app() builds a new BackgroundWorker and nothing looks  *)
(* at the rows a dead thread left behind.                                  *)
Restart ==
  /\ faults < MaxFaults
  /\ faults' = faults + 1
  /\ stranded' = stranded \cup {held[w] : w \in {v \in Workers : pc[v] \in Holding}}
  /\ pending' = {}
  /\ pc' = [w \in Workers |-> "idle"]
  /\ held' = [w \in Workers |-> NoTask]
  /\ seenStatus' = [w \in Workers |-> "absent"]
  /\ seenCount' = [w \in Workers |-> 0]
  /\ workerStatus' = "idle"
  /\ overtook' = Undone({})
  /\ UNCHANGED <<row, request, clock, claims>>

EnqueueStep(t) ==
  \/ \E o \in Owners, p \in Priorities, d \in -1..MaxClock : Stamp(t, o, p, d)
  \/ Enqueue(t) \/ EnqueueRaises(t)
Step(w) ==
  \/ ClaimCommit(w) \/ StartHandler(w) \/ HandlerReturns(w) \/ HandlerRaises(w)
  \/ CompleteRead(w) \/ CompleteCommit(w) \/ FailRead(w) \/ FailCommit(w) \/ Leave(w)
Fault(w) == ClaimRaises(w) \/ CompleteRaises(w) \/ FailRaises(w)

Next ==
  \/ \E t \in Tasks : EnqueueStep(t)
  \/ \E w \in Workers : (\E o \in Owners \cup {AnyOwner} : ClaimRead(w, o)) \/ Step(w) \/ Fault(w)
  \/ Tick
  \/ Restart

Spec == Init /\ [][Next]_vars

(* The caller of /workers/run-once keeps calling without an owner filter,  *)
(* each thread keeps being scheduled, and time passes.  Nobody has to      *)
(* enqueue, and neither faults nor crashes have to happen.                 *)
Fairness == /\ \A w \in Workers : WF_vars(ClaimRead(w, AnyOwner)) /\ WF_vars(Step(w))
            /\ WF_vars(Tick)
FairSpec == Spec /\ Fairness
-----------------------------------------------------------------------------
Settled == {"completed", "failed"}
Holds(w, t) == held[w] = t /\ pc[w] \in Holding

(* A row says "running" only while a thread of process_once is still       *)
(* working on the task, or after a thread was lost to a crash or to an     *)
(* error in fail(): stale claims and omitted status columns never leave a  *)
(* row running that no thread will settle.                                 *)
RunningIsHeld ==
  \A t \in Tasks : status[t] = "running" => t \in stranded \/ \E w \in Workers : Holds(w, t)

(* fail() gives a task up only after max_attempts claims of it, however    *)
(* many of their increments of attempts were lost.                         *)
NoPrematureFailure ==
  \A t \in Tasks : status[t] = "failed" => claims[t] >= MaxAttempts

(* A row that says "completed" carries the result of a handler run, even   *)
(* when two threads completed it and one wrote no status.                  *)
CompletedHasResult ==
  \A t \in Tasks : status[t] = "completed" => "result" \in outcome[t] /\ claims[t] > 0

(* The monitor's worker entry says "running" only while some thread is     *)
(* inside the try of process_once, although all threads write that field.  *)
BusyReportIsTrue ==
  workerStatus = "running" => \E w \in Workers : pc[w] \in Holding \cup {"leaving"}

Earlier(t, u) ==
  /\ status[t] # "absent"
  /\ request[t].owner = request[u].owner
  /\ request[t].created < request[u].created
  /\ request[t].priority <= request[u].priority
  /\ request[t].due <= request[u].due

(* An earlier task of the same owner that is no less urgent and no later   *)
(* due is claimed before a later one, whatever threads, owner filters,     *)
(* retries, errors and restarts come between: unless a thread had selected *)
(* the later one before the earlier one's INSERT was committed.            *)
FirstComeFirstServed ==
  \A t, u \in Tasks : Earlier(t, u) /\ claims[u] > 0 => claims[t] > 0 \/ u \in overtook[t]

(* A task that has completed, or failed for good, is not run again.        *)
SettledIsFinal == [][\A t \in Tasks : status[t] \in Settled => status'[t] = status[t]]_vars

(* With one thread the queue is what TaskLifecycle describes: at most      *)
(* max_attempts tries, and settled tasks stay settled, also over crashes.  *)
Lifecycle == INSTANCE TaskLifecycle WITH state <- status, tries <- attempts
ImplementsLifecycle == Lifecycle!Spec

(* Without faults, every queued task completes or fails for good.          *)
EventuallySettled == \A t \in Tasks : status[t] = "queued" ~> [](status[t] \in Settled)

(* RuntimeScheduler.due: the scheduled tasks it reports are picked up.     *)
Due == {t \in Tasks : status[t] = "queued" /\ request[t].due \in 0..clock}
DueIsPickedUp == \A t \in Tasks : t \in Due ~> t \notin Due
=============================================================================
