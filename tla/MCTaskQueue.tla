---------------------------- MODULE MCTaskQueue ----------------------------
(* Small instances of TaskQueue for TLC.                                   *)
EXTENDS TaskQueue, TLC

\* Threads and tasks are interchangeable: no property or action names one.
Symmetry == Permutations(Workers) \cup Permutations(Tasks)
=============================================================================
