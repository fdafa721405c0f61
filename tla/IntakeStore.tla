----------------------------- MODULE IntakeStore -----------------------------
(***************************************************************************)
(* IntakeService over LocalJSONStorage (agents/jessie/src).  The service   *)
(* and its storage each keep a list of the records; the storage rewrites   *)
(* the whole file, through a temporary file that replaces it in one step.  *)
(* load_records hands out the storage's own dicts, so a status set through *)
(* the service changes the storage too, until write_records copies them.   *)
(* The handlers of the intake API are coroutines without an await, so each *)
(* call of a service is one step; several services may have the file: the  *)
(* API, and each run of the command line.                                  *)
(***************************************************************************)
EXTENDS Naturals

CONSTANTS
  Services,  \* IntakeService objects on the one file
  Ids,       \* identities an intake may get
  Statuses,  \* statuses a request may set
  New,       \* the status of a created intake
  Absent     \* not a status: no such record

ASSUME IntakeAssumption == New \in Statuses /\ Absent \notin Statuses

VARIABLES
  disk,     \* the file: the status of each record in it
  up,       \* services that run
  records,  \* IntakeService._records
  store,    \* LocalJSONStorage._records
  shared,   \* the two lists hold the same dicts
  acked,    \* history: intakes whose creation was answered with success
  unsaved   \* history: statuses set by writes that failed since the last success

memory == <<records, store, shared>>
vars == <<disk, up, memory, acked, unsaved>>

Lists == [Ids -> Statuses \cup {Absent}]

TypeOK ==
  /\ disk \in Lists
  /\ up \in SUBSET Services
  /\ records \in [Services -> Lists] /\ store \in [Services -> Lists]
  /\ shared \in [Services -> BOOLEAN]
  /\ acked \in SUBSET Ids
  /\ unsaved \in [Ids -> SUBSET Statuses]

Init ==
  /\ disk = [i \in Ids |-> Absent]
  /\ up = {}
  /\ records = [p \in Services |-> disk] /\ store = [p \in Services |-> disk]
  /\ shared = [p \in Services |-> TRUE]
  /\ acked = {}
  /\ unsaved = [i \in Ids |-> {}]
-----------------------------------------------------------------------------
(* IntakeService.__init__: the storage loads the file.  A file with broken *)
(* JSON is refused; os.replace never leaves one.                           *)
Start(p) ==
  /\ p \notin up
  /\ up' = up \cup {p}
  /\ records' = [records EXCEPT ![p] = disk]
  /\ store' = [store EXCEPT ![p] = disk]
  /\ shared' = [shared EXCEPT ![p] = TRUE]
  /\ UNCHANGED <<disk, acked, unsaved>>

Stop(p) ==
  /\ p \in up
  /\ up' = up \ {p}
  /\ unsaved' = [i \in Ids |-> {}]
  /\ UNCHANGED <<disk, memory, acked>>

\* The list after create_record or update_status of record i.
With(list, i, s) == [list EXCEPT ![i] = s]

\* _write_atomic came to its os.replace.
Written(list) ==
  /\ disk' = list
  /\ unsaved' = [j \in Ids |-> {}]
TruncatedSlip(i, s) ==
  /\ disk' = [j \in Ids |-> Absent]
  /\ unsaved' = [unsaved EXCEPT ![i] = @ \cup {s}]
  /\ UNCHANGED acked
\* It raised before: the copy to .bak or the temporary file failed.
NotWritten(i, s) ==
  /\ unsaved' = [unsaved EXCEPT ![i] = @ \cup {s}]
  /\ UNCHANGED <<disk, acked>>

\* A new uuid4 is in no list of any service and not in the file.
Fresh(i) ==
  /\ disk[i] = Absent /\ i \notin acked
  /\ \A q \in Services : records[q][i] = Absent /\ store[q][i] = Absent

OtherStatusSlip(p, i) == With(store[p], i, "open")
\* The list create_record appends to: it may hold records the service's own
\* list does not show, left by a create that failed.
Appended(p, i) == With(store[p], i, New)

(* create_intake: the storage appends and writes, then the service reloads.*)
Create(p, i) ==
  /\ p \in up
  /\ Fresh(i)
  /\ store' = [store EXCEPT ![p] = Appended(p, i)]
  /\ records' = [records EXCEPT ![p] = Appended(p, i)]
  /\ shared' = [shared EXCEPT ![p] = TRUE]
  /\ Written(Appended(p, i))
  /\ acked' = acked \cup {i}
  /\ UNCHANGED up
CreateFails(p, i) ==
  /\ p \in up
  /\ Fresh(i)
  /\ store' = [store EXCEPT ![p] = Appended(p, i)]
  /\ NotWritten(i, New)
  /\ UNCHANGED <<up, records, shared>>

OneRecordSlip(p, i, s) == [j \in Ids |-> IF j = i THEN s ELSE Absent]
StaleWriteSlip(p, i, s) == store[p]
\* The list update_status writes.
Updated(p, i, s) == With(records[p], i, s)

(* update_status: the dict is changed, then the service's list is written  *)
(* and the storage keeps copies of it.                                     *)
Update(p, i, s) ==
  /\ p \in up /\ records[p][i] # Absent
  /\ records' = [records EXCEPT ![p] = With(@, i, s)]
  /\ store' = [store EXCEPT ![p] = Updated(p, i, s)]
  /\ shared' = [shared EXCEPT ![p] = FALSE]
  /\ Written(Updated(p, i, s))
  /\ UNCHANGED <<up, acked>>
UpdateFails(p, i, s) ==
  /\ p \in up /\ records[p][i] # Absent
  /\ records' = [records EXCEPT ![p] = With(@, i, s)]
  /\ store' = IF shared[p] THEN [store EXCEPT ![p] = With(@, i, s)] ELSE store
  /\ NotWritten(i, s)
  /\ UNCHANGED <<up, shared>>

Next ==
  \E p \in Services :
    \/ Start(p) \/ Stop(p)
    \/ \E i \in Ids : \/ Create(p, i) \/ CreateFails(p, i)
                      \/ \E s \in Statuses : Update(p, i, s) \/ UpdateFails(p, i, s)

Spec == Init /\ [][Next]_vars
-----------------------------------------------------------------------------
(* An intake whose creation was confirmed stays in the file, through       *)
(* failing writes and restarts.                                            *)
AckedIsKept == \A i \in acked : disk[i] # Absent

(* What a running service shows is what a restart would show, except for   *)
(* writes that failed since the last one that succeeded.                   *)
ViewIsSaved ==
  \A p \in up, i \in Ids : records[p][i] \in {disk[i]} \cup unsaved[i]

Book == INSTANCE IntakeBook WITH book <- disk
(* The store of one service is an intake book: a failed write shows up     *)
(* with the next successful one or never.                                  *)
ImplementsBook == Book!Spec
=============================================================================
