-------------------------------- MODULE MCLive --------------------------------
(* The task queue and the connections of the database, whose tasks and     *)
(* requests must end: a behaviour is of one of them, so that their states  *)
(* add up and do not multiply.  The queue itself is met twice: two threads *)
(* over one task, and one thread over two tasks.                           *)
EXTENDS TaskQueue, ConnectionPool

CONSTANTS OneTask, OneThread  \* the task and the thread of these instances

VARIABLE part

MCInit == part \in {"threads", "tasks", "pool"} /\ Init /\ PoolInit

\* In part "threads" no other task is enqueued, in part "tasks" no other
\* thread calls process_once.
Serves(w) == part = "threads" \/ (part = "tasks" /\ w = OneThread)
InPart ==
  \/ part = "threads" /\ pending' \subseteq {OneTask}
  \/ part = "tasks" /\ \A w \in Workers : Serves(w) \/ UNCHANGED pc[w]

MCNext ==
  /\ UNCHANGED part
  /\ \/ Next /\ InPart /\ UNCHANGED poolVars
     \/ part = "pool" /\ PoolNext /\ UNCHANGED vars

\* The fairness of TaskQueue and ConnectionPool, each in its own part.
MCFairness ==
  /\ \A w \in Workers : /\ WF_vars(Serves(w) /\ ClaimRead(w, AnyOwner))
                        /\ WF_vars(Serves(w) /\ Step(w))
  /\ WF_vars(part # "pool" /\ Tick)
  /\ PoolFairness

MCSpec == MCInit /\ [][MCNext]_<<part, vars, poolVars>> /\ MCFairness
=============================================================================
