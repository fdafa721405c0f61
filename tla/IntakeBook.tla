----------------------------- MODULE IntakeBook -----------------------------
(***************************************************************************)
(* What the Jesse intake store promises while one service owns its file: a *)
(* book of intakes with a status each.  A write that succeeds is in the    *)
(* book.  A write that fails is not, but it may still show up together     *)
(* with the next write that succeeds, and not after that.                  *)
(***************************************************************************)
CONSTANTS Ids, Statuses, Absent

VARIABLES
  book,    \* the status of each intake in the file, or Absent
  unsaved  \* the statuses failed writes may still give an intake

Init ==
  /\ book \in [Ids -> Statuses \cup {Absent}]
  /\ unsaved = [i \in Ids |-> {}]

Succeed(i, s) ==
  /\ book' \in [Ids -> Statuses \cup {Absent}]
  /\ book'[i] = s
  /\ \A j \in Ids \ {i} : book'[j] \in {book[j]} \cup unsaved[j]
  /\ unsaved' = [j \in Ids |-> {}]

Fail(i, s) ==
  /\ unsaved' = [unsaved EXCEPT ![i] = @ \cup {s}]
  /\ UNCHANGED book

\* A restart forgets the failed writes.
Forget ==
  /\ unsaved' = [j \in Ids |-> {}]
  /\ UNCHANGED book

Next ==
  \/ \E i \in Ids, s \in Statuses : Succeed(i, s) \/ Fail(i, s)
  \/ Forget

Spec == Init /\ [][Next]_<<book, unsaved>>
=============================================================================
