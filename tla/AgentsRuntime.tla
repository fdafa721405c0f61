---------------------------- MODULE AgentsRuntime ----------------------------
(***************************************************************************)
(* The core API (core/api.py): Ju and Michelle of one process over one     *)
(* MessageBus, their state in lists and dicts that the handlers of the     *)
(* thread pool change without a lock.  A step here is an operation the     *)
(* interpreter does not interrupt.  Names of agents are looked up in lower *)
(* case, but a queue of the bus is found under the name as it was written. *)
(***************************************************************************)
EXTENDS Naturals, Sequences, FiniteSetsExt

CONSTANTS
  Clients,     \* threads that serve a request
  Names,       \* names of recipients, as requests write them
  Registered,  \* those whose lower case is a registered agent
  Urgencies,   \* priorities a request may give
  MaxItems     \* bound: messages, tasks and delegations asked for

ASSUME RuntimeAssumption ==
  /\ MaxItems \in Nat /\ Registered \subseteq Names
  /\ \A u \in Urgencies : u \in 1 .. 10

VARIABLES
  queues,       \* MessageBus._queues: entries of the heap of each name
  sequence,     \* MessageBus._sequence
  items,        \* requests so far: [kind, to, priority, blank], places are ids
  attached,     \* tasks in the task_ids of a project
  delegations,  \* OrchestrationEngine.delegations
  remembered,   \* delegations in ju.memory
  escalated,    \* tasks Michelle notified ju of
  work,         \* the request of each thread
  delivered,    \* history: ids in the order receivers got them
  before,       \* history: for each id, those queued before its sequence was drawn
  starved       \* history: receivers whose pop raised, and had no rival

runtimeVars == <<queues, sequence, items, attached, delegations, remembered, escalated,
                 work, delivered, before, starved>>
busVars == <<queues, sequence, delivered, before, starved>>
agentVars == <<attached, delegations, remembered, escalated>>

ItemIds == 1 .. Len(items)
Queued == {e.id : e \in UNION {queues[n] : n \in Names}}
NoWork == [at |-> "none"]

AgentsTypeOK ==
  /\ queues \in [Names -> SUBSET [id : ItemIds, priority : Urgencies, number : Nat]]
  /\ attached \cup delegations \cup remembered \cup escalated \cup Queued \subseteq ItemIds
  /\ remembered \subseteq delegations
  /\ sequence <= MaxItems

AgentsInit ==
  /\ queues = [n \in Names |-> {}] /\ sequence = 0
  /\ items = << >>
  /\ attached = {} /\ delegations = {} /\ remembered = {} /\ escalated = {}
  /\ work = [c \in Clients |-> NoWork]
  /\ delivered = << >> /\ before = << >> /\ starved = FALSE
-----------------------------------------------------------------------------
Goes(c, at) == work' = [work EXCEPT ![c].at = at]
Ends(c) == work' = [work EXCEPT ![c] = NoWork]

\* A request that makes item id, and its first step.
Begin(c, item, at) ==
  /\ work[c] = NoWork /\ Len(items) < MaxItems
  /\ items' = Append(items, item)
  /\ before' = Append(before, {})
  /\ work' = [work EXCEPT ![c] = [at |-> at, id |-> Len(items) + 1]]
  /\ UNCHANGED <<queues, sequence, delivered, starved>>

TellFirstSlip == "draw"
AfterCreate == "attach"

\* MichelleRuntime.create_task: the owner is registered, in whatever case, and
\* TaskManager has stored the task.
CreateTask(c, to, u, blank) ==
  /\ Begin(c, [kind |-> "task", to |-> to, priority |-> u, blank |-> blank], AfterCreate)
  /\ UNCHANGED agentVars

\* ProjectTracker.attach_task: a blank name raises, though TaskManager stored
\* the task under "general".
AttachTask(c) ==
  /\ work[c].at = "attach"
  /\ IF items[work[c].id].blank
     THEN Ends(c) /\ UNCHANGED attached
     ELSE Goes(c, "draw") /\ attached' = attached \cup {work[c].id}
  /\ UNCHANGED <<items, delegations, remembered, escalated, busVars>>

\* JuRuntime.delegate, OrchestrationEngine.delegate: the router names a
\* registered agent; the delegation is stored before it is sent.
Delegate(c, a, u) ==
  /\ Begin(c, [kind |-> "delegation", to |-> a, priority |-> u, blank |-> FALSE], "draw")
  /\ delegations' = delegations \cup {Len(items')}
  /\ UNCHANGED <<attached, remembered, escalated>>

\* POST /messages names any recipient.
Send(c, to, u) ==
  /\ Begin(c, [kind |-> "message", to |-> to, priority |-> u, blank |-> FALSE], "draw")
  /\ UNCHANGED agentVars

\* send_message: the entry with its number is made, and pushed by the next step.
DrawNumber(c) ==
  /\ work[c].at = "draw"
  /\ sequence' = sequence + 1
  /\ work' = [work EXCEPT ![c] = [at |-> "push", id |-> work[c].id, number |-> sequence]]
  /\ before' = [before EXCEPT ![work[c].id] = Queued]
  /\ UNCHANGED <<items, agentVars, queues, delivered, starved>>

PushMessage(c) ==
  LET i == work[c].id
      entry == [id |-> i, priority |-> items[i].priority, number |-> work[c].number] IN
  /\ work[c].at = "push"
  /\ queues' = [queues EXCEPT ![items[i].to] = @ \cup {entry}]
  /\ IF items[i].kind = "delegation" THEN Goes(c, "remember")
     ELSE IF items[i].kind = "task" /\ items[i].priority <= 2 THEN Goes(c, "escalate")
     ELSE Ends(c)
  /\ UNCHANGED <<items, agentVars, sequence, delivered, before, starved>>

\* The last call of each: ju.memory.remember, NotificationCenter.escalate.
Remember(c) ==
  /\ work[c].at = "remember" /\ remembered' = remembered \cup {work[c].id} /\ Ends(c)
  /\ UNCHANGED <<items, attached, delegations, escalated, busVars>>
Escalate(c) ==
  /\ work[c].at = "escalate" /\ escalated' = escalated \cup {work[c].id} /\ Ends(c)
  /\ UNCHANGED <<items, attached, delegations, remembered, busVars>>

\* receive_message finds the queue not empty; an empty one is answered with null.
LookInQueue(c, n) ==
  /\ work[c] = NoWork /\ queues[n] # {}
  /\ work' = [w \in Clients |->
       IF w = c THEN [at |-> "pop", name |-> n, rival |-> \E d \in Clients : work[d].at = "pop" /\ work[d].name = n]
       ELSE IF work[w].at = "pop" /\ work[w].name = n THEN [work[w] EXCEPT !.rival = TRUE] ELSE work[w]]
  /\ UNCHANGED <<items, agentVars, busVars>>

PriorityOnlySlip(e, f) == e.priority <= f.priority
\* The order of the heap.
Precedes(e, f) == e.priority < f.priority \/ (e.priority = f.priority /\ e.number <= f.number)

\* heappop; on a queue that another receiver emptied it raises IndexError.
PopMessage(c) ==
  LET n == work[c].name IN
  /\ work[c].at = "pop"
  /\ \/ /\ queues[n] = {}
        /\ starved' = (starved \/ ~work[c].rival)
        /\ UNCHANGED <<queues, delivered>>
     \/ \E e \in queues[n] :
          /\ \A f \in queues[n] : Precedes(e, f)
          /\ queues' = [queues EXCEPT ![n] = @ \ {e}]
          /\ delivered' = Append(delivered, e.id)
          /\ UNCHANGED starved
  /\ Ends(c)
  /\ UNCHANGED <<items, agentVars, sequence, before>>

\* OrchestrationEngine.report fills its parts in this order.
ReportOrder == <<"by_agent", "total", "items">>

StartReport(c) ==
  /\ work[c] = NoWork
  /\ work' = [work EXCEPT ![c] = [at |-> "report", parts |-> << >>, size |-> Cardinality(delegations)]]
  /\ UNCHANGED <<items, agentVars, busVars>>
\* The next part; a loop over the dict raises when a delegation was added meanwhile.
ReportPart(c) ==
  /\ work[c].at = "report" /\ Len(work[c].parts) < 3
  /\ LET now == Cardinality(delegations) IN
     \/ work' = [work EXCEPT ![c].parts = Append(@, now), ![c].size = now]
     \/ /\ now > work[c].size /\ ReportOrder[Len(work[c].parts) + 1] # "total"
        /\ Ends(c)
  /\ UNCHANGED <<items, agentVars, busVars>>
EndReport(c) ==
  /\ work[c].at = "report" /\ Len(work[c].parts) = 3 /\ Ends(c)
  /\ UNCHANGED <<items, agentVars, busVars>>

AgentsNext ==
  \E c \in Clients :
    \/ AttachTask(c) \/ DrawNumber(c) \/ PushMessage(c) \/ Remember(c) \/ Escalate(c)
    \/ PopMessage(c) \/ StartReport(c) \/ ReportPart(c) \/ EndReport(c)
    \/ \E u \in Urgencies :
         \/ \E n \in Names : Send(c, n, u)
         \/ \E a \in Registered : Delegate(c, a, u) \/ \E b \in BOOLEAN : CreateTask(c, a, u, b)
    \/ \E n \in Names : LookInQueue(c, n)

AgentsSpec == AgentsInit /\ [][AgentsNext]_runtimeVars
-----------------------------------------------------------------------------
Working(i) == \E c \in Clients : "id" \in DOMAIN work[c] /\ work[c].id = i
Sent == Queued \cup {delivered[k] : k \in DOMAIN delivered}

(* Whoever is told of a task finds it in a project, and a task nobody is   *)
(* told of was refused for a blank project.                                *)
ToldTasksAreTracked ==
  \A i \in ItemIds : items[i].kind = "task" =>
    /\ i \in Sent \cup escalated => i \in attached
    /\ ~Working(i) => (i \in Sent <=> ~items[i].blank)

(* Receivers in several threads never get a message twice, and one that    *)
(* was sent is in its queue until somebody got it.                         *)
DeliveredOnce ==
  /\ \A j, k \in DOMAIN delivered : delivered[j] = delivered[k] => j = k
  /\ \A k \in DOMAIN delivered : delivered[k] \notin Queued

(* A message that was in the queue before another of its recipient was     *)
(* numbered, and is no less urgent, is received first.                     *)
NoOvertaking ==
  \A k \in DOMAIN delivered : \A i \in before[delivered[k]] :
    items[i].to = items[delivered[k]].to /\ items[i].priority <= items[delivered[k]].priority
      => \E j \in 1 .. k : delivered[j] = i

(* A receiver fails on an empty queue only when another one was between    *)
(* its look and its pop.                                                   *)
StarvedOnlyByRival == ~starved
(* A report that is returned counts no delegation of an agent that is not  *)
(* in its total, nor one in its total that is not listed.                  *)
ReportPartsNest ==
  \A c \in Clients : work[c].at = "report" /\ Len(work[c].parts) = 3 =>
    LET part(p) == work[c].parts[CHOOSE i \in 1 .. 3 : ReportOrder[i] = p]
    IN part("by_agent") <= part("total") /\ part("total") <= part("items")

(* The bus delivers what was sent, once and in order.                      *)
MailInOrder == DeliveredOnce /\ NoOvertaking /\ StarvedOnlyByRival

(* What Michelle tells of tasks, and Ju of delegations, is in their lists. *)
TalesAreTrue == ToldTasksAreTracked /\ ReportPartsNest
=============================================================================
