--------------------------- MODULE TaskLifecycle ---------------------------
(***************************************************************************)
(* What the persistent task queue promises of each task, without threads,  *)
(* sessions or rows: a task is tried at most MaxAttempts times, goes back  *)
(* to the queue after a failed try while tries are left, and never leaves  *)
(* "completed" or "failed" once it is there.                               *)
(***************************************************************************)
EXTENDS Naturals

CONSTANTS Tasks, MaxAttempts

VARIABLES state, tries

Init == /\ state = [t \in Tasks |-> "absent"]
        /\ tries = [t \in Tasks |-> 0]

Submit(t) == /\ state[t] = "absent"
             /\ state' = [state EXCEPT ![t] = "queued"]
             /\ UNCHANGED tries

Begin(t) == /\ state[t] \in {"queued", "retry"}
            /\ tries[t] < MaxAttempts
            /\ state' = [state EXCEPT ![t] = "running"]
            /\ tries' = [tries EXCEPT ![t] = @ + 1]

Succeed(t) == /\ state[t] = "running"
              /\ state' = [state EXCEPT ![t] = "completed"]
              /\ UNCHANGED tries

Fail(t) == /\ state[t] = "running"
           /\ state' = [state EXCEPT
                          ![t] = IF tries[t] = MaxAttempts THEN "failed" ELSE "retry"]
           /\ UNCHANGED tries

Next == \E t \in Tasks : Submit(t) \/ Begin(t) \/ Succeed(t) \/ Fail(t)

Spec == Init /\ [][Next]_<<state, tries>>
=============================================================================
