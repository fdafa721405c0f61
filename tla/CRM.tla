---------------------------------- MODULE CRM ----------------------------------
(***************************************************************************)
(* CRMService (crm/service.py): parties with a status, its history, and    *)
(* the rows that hang on a party.  A handler reads the party, and commits  *)
(* later in one transaction; threads interleave between the two.  The ORM  *)
(* writes only the columns whose value changed against what was read: an   *)
(* UPDATE of a row that is gone raises, a DELETE of one only warns.  SQLite*)
(* enforces no foreign key here.  A task may name any party, or none, and  *)
(* create_task looks none up: it is left out.                              *)
(***************************************************************************)
EXTENDS Naturals, Sequences

CONSTANTS
  Parties,      \* ids parties get
  PartyStatus,  \* values of status
  CrmThreads,   \* threads with a request on a party
  MaxHistory,   \* bound: rows of the history of one party
  MaxExtra      \* bound: rows of activities, notes and documents of one party

CONSTANTS NotYet, Gone  \* a party not created yet, and one deleted

ASSUME CrmAssumption ==
  /\ MaxHistory \in Nat /\ MaxExtra \in Nat
  /\ NotYet \notin PartyStatus /\ Gone \notin PartyStatus /\ NotYet # Gone

VARIABLES
  status,   \* status of the row in crm_parties, Gone when it is deleted
  history,  \* rows of crm_status_history: [old, new, known]
  extra,    \* number of rows of the other tables that refer to the party
  busy      \* the request of each thread, after its read

crmVars == <<status, history, extra, busy>>

Nothing == [at |-> "none"]
Stored(p) == status[p] \notin {NotYet, Gone}
History == Seq([old : PartyStatus \cup {NotYet}, new : PartyStatus, known : Nat])

CrmTypeOK ==
  /\ status \in [Parties -> PartyStatus \cup {NotYet, Gone}]
  /\ history \in [Parties -> History]
  /\ extra \in [Parties -> Nat]
  /\ \A c \in CrmThreads :
       \/ busy[c] = Nothing
       \/ /\ busy[c].at \in {"update", "delete", "add"}
          /\ busy[c].party \in Parties /\ busy[c].old \in PartyStatus
          /\ busy[c].new \in PartyStatus /\ busy[c].known \in Nat

CrmInit ==
  /\ status = [p \in Parties |-> NotYet]
  /\ history = [p \in Parties |-> << >>]
  /\ extra = [p \in Parties |-> 0]
  /\ busy = [c \in CrmThreads |-> Nothing]
-----------------------------------------------------------------------------
More(p) == extra' = [extra EXCEPT ![p] = IF @ < MaxExtra THEN @ + 1 ELSE @]
Done(c) == busy' = [busy EXCEPT ![c] = Nothing]

(* create_party, import_jessie_intake: the party, its activity and its     *)
(* first history row in one commit; a blank name is refused before.        *)
CreateParty(p, s) ==
  /\ status[p] = NotYet
  /\ status' = [status EXCEPT ![p] = s]
  /\ history' = [history EXCEPT ![p] = <<[old |-> NotYet, new |-> s, known |-> 0]>>]
  /\ More(p)
  /\ UNCHANGED busy

\* session.get finds the row; otherwise the answer is 404.
Found(p) == Stored(p)

Read(c, p, at, s) ==
  /\ busy[c] = Nothing /\ Found(p)
  /\ busy' = [busy EXCEPT ![c] = [at |-> at, party |-> p, old |-> status[p], new |-> s,
                                  known |-> Len(history[p])]]
  /\ UNCHANGED <<status, history, extra>>

\* PATCH: a request without a status keeps the one it read.
UpdateRead(c, p, s) == Read(c, p, "update", s)
DeleteRead(c, p) == Read(c, p, "delete", status[p])
\* add_note, add_document.
AddRead(c, p) == Read(c, p, "add", status[p])

\* The ORM finds a changed status; other columns alone leave the history.
StatusChanged(c) == busy[c].old # busy[c].new

LenientSlip(p) == TRUE
\* An UPDATE that matches no row raises StaleDataError.
RowThere(p) == Stored(p)

WholeRowSlip(c) == busy[c].new
\* What the UPDATE leaves in the status column.
StatusAfter(c) == IF StatusChanged(c) THEN busy[c].new ELSE status[busy[c].party]

HistoryRow(c) == [old |-> busy[c].old, new |-> busy[c].new, known |-> busy[c].known]

(* update_party's commit: the UPDATE of the status with its history row    *)
(* and the activity, or the UPDATE of other columns with the activity.     *)
UpdateCommit(c) ==
  LET p == busy[c].party IN
  /\ busy[c].at = "update" /\ RowThere(p)
  /\ StatusChanged(c) => Len(history[p]) < MaxHistory
  /\ status' = [status EXCEPT ![p] = StatusAfter(c)]
  /\ history' = IF StatusChanged(c)
                THEN [history EXCEPT ![p] = Append(@, HistoryRow(c))] ELSE history
  /\ More(p) /\ Done(c)
\* A PATCH that changes no column has no UPDATE: its activity is inserted
\* whether the party is there or not.
UpdateNothing(c) ==
  /\ busy[c].at = "update" /\ ~StatusChanged(c)
  /\ More(busy[c].party) /\ Done(c)
  /\ UNCHANGED <<status, history>>
\* The UPDATE raises, or the commit does: the transaction is rolled back.
UpdateFails(c) ==
  /\ busy[c].at # "none"
  /\ Done(c)
  /\ UNCHANGED <<status, history, extra>>

\* Of two deletions in progress both succeed.
DeleteCommit(c) ==
  /\ busy[c].at = "delete"
  /\ status' = [status EXCEPT ![busy[c].party] = Gone]
  /\ Done(c)
  /\ UNCHANGED <<history, extra>>

\* The row and its activity; nothing asks again for the party.
AddCommit(c) ==
  /\ busy[c].at = "add"
  /\ More(busy[c].party) /\ Done(c)
  /\ UNCHANGED <<status, history>>

CrmNext ==
  \/ \E p \in Parties, s \in PartyStatus : CreateParty(p, s)
  \/ \E c \in CrmThreads :
       \/ UpdateCommit(c) \/ UpdateNothing(c) \/ UpdateFails(c)
       \/ DeleteCommit(c) \/ AddCommit(c)
       \/ \E p \in Parties : \/ DeleteRead(c, p) \/ AddRead(c, p)
                             \/ \E s \in PartyStatus : UpdateRead(c, p, s)

CrmSpec == CrmInit /\ [][CrmNext]_crmVars
-----------------------------------------------------------------------------
(* The last row of a party's history is its status, however the updates of *)
(* several threads interleave.                                             *)
HistoryEndsInStatus ==
  \A p \in Parties :
    Stored(p) => history[p] # << >> /\ history[p][Len(history[p])].new = status[p]

(* The history is a chain, each row starting where the last one ended,     *)
(* except where a row was written by a request that had read the party     *)
(* before the row in front of it was written.                              *)
ChainBrokenOnlyByOverlap ==
  \A p \in Parties : \A i \in 2 .. Len(history[p]) :
    history[p][i].old # history[p][i - 1].new => history[p][i].known < i - 1

(* The history of a party is the chain of its states, up to its status,   *)
(* as far as requests do not overlap.                                      *)
HistoryIsChain == HistoryEndsInStatus /\ ChainBrokenOnlyByOverlap

(* A deleted party is closed: its history never grows, and once no request *)
(* that found it is left, nothing else is added to it.                     *)
DeletedPartyIsClosed ==
  [][\A p \in Parties : status[p] = Gone =>
       /\ status'[p] = Gone /\ history'[p] = history[p]
       /\ \/ extra'[p] = extra[p]
          \/ \E c \in CrmThreads : busy[c] # Nothing /\ busy[c].party = p]_crmVars
=============================================================================
