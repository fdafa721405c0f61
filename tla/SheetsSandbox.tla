--------------------------- MODULE SheetsSandbox ---------------------------
(***************************************************************************)
(* GoogleSheetsSandboxService (integrations/google_sheets_sandbox) with    *)
(* the retries of GoogleSheetsAdapter.append_row, called by the manual     *)
(* write routes from the thread pool.  A request looks for a ledger row,   *)
(* appends a row to the Sheet, inserts the ledger row, and for a CRM lead  *)
(* adds an activity event, each in a step of its own; the Sheet is outside *)
(* the database's transactions and an append may happen unanswered.        *)
(***************************************************************************)
EXTENDS Naturals

CONSTANTS
  Records,     \* CRM leads and Jesse intakes that exist and fit a SandboxRow
  Leads,       \* those that are CRM leads
  Calls,       \* threads that serve a write request
  Modes,       \* GOOGLE_SHEETS_MODE and _ENABLED a process may start with
  MaxRetries,  \* GoogleSheetsAdapter.max_retries
  MaxRows,     \* bound: no request starts for a record with more Sheet rows
  MaxEvents    \* bound: or with more activity events

ASSUME SheetsAssumption ==
  /\ Leads \subseteq Records
  /\ Modes \subseteq {"disabled", "mock", "sandbox"} /\ Modes # {}
  /\ MaxRetries \in Nat /\ MaxRows \in Nat /\ MaxEvents \in Nat

VARIABLES
  mode,      \* of the running process
  ledger,    \* google_sheets_sandbox_writes: the one row of each record
  rows,      \* rows of the record in the Google Sheet
  events,    \* CRMActivity rows "google_sheets_sandbox_written"
  stage,     \* what each thread does next; "idle" between requests
  target,    \* the record it writes
  attempts,  \* transport calls made by append_row
  outcome,   \* the status it is about to record
  answer,    \* its last HTTP answer
  granted,   \* history: successful answers per record
  excused    \* history: records whose Sheet row may have been written twice

database == <<ledger, events>>
request == <<target, attempts, outcome>>
vars == <<mode, database, rows, stage, request, answer, granted, excused>>

Statuses == {"absent", "mock", "written", "failed"}

TypeOK ==
  /\ mode \in Modes
  /\ ledger \in [Records -> Statuses]
  /\ rows \in [Records -> Nat] /\ events \in [Records -> Nat] /\ granted \in [Records -> Nat]
  /\ stage \in [Calls -> {"idle", "append", "record", "note"}]
  /\ target \in [Calls -> Records]
  /\ attempts \in [Calls -> 0 .. MaxRetries]
  /\ outcome \in [Calls -> Statuses \cup {"disabled"}]
  /\ answer \in [Calls -> {"none", "ok", "disabled", "duplicate", "rejected", "failed", "error"}]
  /\ excused \in SUBSET Records
  /\ \A c \in Calls : stage[c] = "record" => outcome[c] \in Statuses \ {"absent"}

Init ==
  /\ mode \in Modes
  /\ ledger = [r \in Records |-> "absent"]
  /\ rows = [r \in Records |-> 0] /\ events = [r \in Records |-> 0]
  /\ stage = [c \in Calls |-> "idle"]
  /\ target \in [Calls -> Records]
  /\ attempts = [c \in Calls |-> 0]
  /\ outcome = [c \in Calls |-> "absent"]
  /\ answer = [c \in Calls |-> "none"]
  /\ granted = [r \in Records |-> 0]
  /\ excused = {}
-----------------------------------------------------------------------------
Writing(d, r) == stage[d] \in {"append", "record"} /\ target[d] = r

Succeeded(s) == s \in {"mock", "written"}

\* A request that ends before its row is in the ledger leaves it in the Sheet.
Loses(c) == Writing(c, target[c]) /\ ledger[target[c]] = "absent" /\ rows[target[c]] > 0

\* The end of a request with HTTP answer a.
Reply(c, a) ==
  /\ stage' = [stage EXCEPT ![c] = "idle"]
  /\ attempts' = [attempts EXCEPT ![c] = 0]
  /\ outcome' = [outcome EXCEPT ![c] = "absent"]
  /\ answer' = [answer EXCEPT ![c] = a]
  /\ UNCHANGED target
Grant(r) == granted' = [granted EXCEPT ![r] = @ + 1]

WrittenOnlySlip(r) == ledger[r] = "written"
AlreadyWritten(r) == ledger[r] # "absent"

(* write_intake, write_lead: _already_written, then the record is read.    *)
Start(c, r) ==
  /\ stage[c] = "idle" /\ ~AlreadyWritten(r)
  /\ rows[r] <= MaxRows /\ events[r] <= MaxEvents
  /\ stage' = [stage EXCEPT ![c] = "append"]
  /\ target' = [target EXCEPT ![c] = r]
  /\ answer' = [answer EXCEPT ![c] = "none"]
  /\ excused' = IF \E d \in Calls : Writing(d, r) THEN excused \cup {r} ELSE excused
  /\ UNCHANGED <<mode, database, rows, attempts, outcome, granted>>
RefuseDuplicate(c, r) ==
  /\ stage[c] = "idle" /\ AlreadyWritten(r)
  /\ target' = [target EXCEPT ![c] = r]
  /\ answer' = [answer EXCEPT ![c] = "duplicate"]
  /\ UNCHANGED <<mode, database, rows, stage, attempts, outcome, granted, excused>>

(* append_row of a disabled adapter: nothing is recorded, but write_lead   *)
(* goes on to its activity event.                                          *)
AppendDisabled(c) ==
  /\ stage[c] = "append" /\ mode = "disabled"
  /\ IF target[c] \in Leads
       THEN /\ stage' = [stage EXCEPT ![c] = "note"]
            /\ outcome' = [outcome EXCEPT ![c] = "disabled"]
            /\ UNCHANGED <<target, attempts, answer>>
       ELSE Reply(c, "disabled")
  /\ UNCHANGED <<mode, database, rows, granted, excused>>

\* append_row returned status s, or raised after its last attempt.
Appended(c, s) ==
  /\ stage' = [stage EXCEPT ![c] = "record"]
  /\ outcome' = [outcome EXCEPT ![c] = s]
  /\ attempts' = [attempts EXCEPT ![c] = 0]
  /\ UNCHANGED <<mode, database, target, answer, granted>>
AppendMock(c) ==
  /\ stage[c] = "append" /\ mode = "mock"
  /\ Appended(c, "mock")
  /\ UNCHANGED <<rows, excused>>
AppendWritten(c) ==
  /\ stage[c] = "append" /\ mode = "sandbox"
  /\ rows' = [rows EXCEPT ![target[c]] = @ + 1]
  /\ Appended(c, "written")
  /\ UNCHANGED excused

StartOverSlip(n) == (n + 1) % MaxRetries
NextAttempt(n) == n + 1
SwallowedErrorSlip == "written"
AfterLastAttempt == "failed"
(* The transport raises: refused, or the answer lost after the append.     *)
AppendRaises(c, lost) ==
  LET r == target[c] IN
  /\ stage[c] = "append" /\ mode = "sandbox"
  /\ rows' = IF lost THEN [rows EXCEPT ![r] = @ + 1] ELSE rows
  /\ excused' = IF lost THEN excused \cup {r} ELSE excused
  /\ IF attempts[c] = MaxRetries
       THEN Appended(c, AfterLastAttempt)
       ELSE /\ attempts' = [attempts EXCEPT ![c] = NextAttempt(@)]
            /\ UNCHANGED <<mode, database, stage, target, outcome, answer, granted>>

(* append_row refuses the row or the configuration before any attempt.     *)
AppendRejected(c) ==
  /\ stage[c] = "append" /\ attempts[c] = 0
  /\ Reply(c, "rejected")
  /\ UNCHANGED <<mode, database, rows, granted, excused>>

NoConstraintSlip(r) == TRUE
\* UniqueConstraint("source", "record_id") lets the INSERT of r commit.
MayInsert(r) == ledger[r] = "absent"

(* _record_write commits, or the constraint refuses the row.               *)
Record(c) ==
  LET r == target[c] IN
  /\ stage[c] = "record" /\ MayInsert(r)
  /\ ledger' = [ledger EXCEPT ![r] = outcome[c]]
  /\ IF Succeeded(outcome[c]) /\ r \in Leads
       THEN /\ stage' = [stage EXCEPT ![c] = "note"]
            /\ UNCHANGED <<request, answer, granted>>
       ELSE IF Succeeded(outcome[c])
              THEN Reply(c, "ok") /\ Grant(r)
              ELSE Reply(c, "failed") /\ UNCHANGED granted
  /\ UNCHANGED <<mode, rows, events, excused>>
RecordRefused(c) ==
  /\ stage[c] = "record" /\ ~MayInsert(target[c])
  /\ Reply(c, "duplicate")
  /\ UNCHANGED <<mode, database, rows, granted, excused>>

(* Any other error of the commit: _write's except Exception records        *)
(* "failed" for a successful append, and an error there ends the request.  *)
RecordRaises(c) ==
  /\ stage[c] = "record"
  /\ IF Succeeded(outcome[c])
       THEN /\ outcome' = [outcome EXCEPT ![c] = "failed"]
            /\ UNCHANGED <<stage, target, attempts, answer, excused>>
       ELSE /\ Reply(c, "error")
            /\ excused' = IF Loses(c) THEN excused \cup {target[c]} ELSE excused
  /\ UNCHANGED <<mode, database, rows, granted>>

(* write_lead: the activity event, whatever _write returned.               *)
Note(c) ==
  /\ stage[c] = "note"
  /\ events' = [events EXCEPT ![target[c]] = @ + 1]
  /\ IF outcome[c] = "disabled" THEN Reply(c, "disabled") /\ UNCHANGED granted
                                ELSE Reply(c, "ok") /\ Grant(target[c])
  /\ UNCHANGED <<mode, ledger, rows, excused>>
NoteRaises(c) ==
  /\ stage[c] = "note"
  /\ Reply(c, "error")
  /\ UNCHANGED <<mode, database, rows, granted, excused>>

(* The process stops and another starts, perhaps in another mode.          *)
Restart ==
  /\ mode' \in Modes
  /\ stage' = [c \in Calls |-> "idle"] /\ answer' = [c \in Calls |-> "none"]
  /\ attempts' = [c \in Calls |-> 0] /\ outcome' = [c \in Calls |-> "absent"]
  /\ excused' = excused \cup {target[c] : c \in {d \in Calls : Loses(d)}}
  /\ UNCHANGED <<database, rows, target, granted>>

Step(c) ==
  \/ AppendDisabled(c) \/ AppendMock(c) \/ AppendWritten(c)
  \/ AppendRaises(c, TRUE) \/ AppendRaises(c, FALSE) \/ AppendRejected(c)
  \/ Record(c) \/ RecordRefused(c) \/ RecordRaises(c)
  \/ Note(c) \/ NoteRaises(c)

Next ==
  \/ \E c \in Calls : Step(c) \/ \E r \in Records : Start(c, r) \/ RefuseDuplicate(c, r)
  \/ Restart

Spec == Init /\ [][Next]_vars
\* A thread of the pool keeps running the request it was given.
FairSpec == Spec /\ \A c \in Calls : WF_vars(Step(c))
-----------------------------------------------------------------------------
(* However requests, lost answers, failed commits and restarts interleave, *)
(* at most one request per record is answered with success, and then the   *)
(* ledger says so.                                                         *)
GrantedOnce == \A r \in Records : /\ granted[r] <= 1
                                  /\ granted[r] = 1 => Succeeded(ledger[r])

(* A "written" ledger row has its Sheet row, and a Sheet row without one   *)
(* is still being written or was left by a failure the ledger cannot see.  *)
SheetMatchesLedger ==
  \A r \in Records :
    /\ ledger[r] = "written" => rows[r] > 0
    /\ rows[r] > 0 /\ ledger[r] = "absent" => r \in excused \/ \E c \in Calls : Writing(c, r)

(* The Sheet holds a record twice only after two requests for it were in   *)
(* progress at once, an answer of the transport was lost, or a request     *)
(* ended between the append and the ledger.                                *)
DuplicateRowIsExcused == \A r \in Records : rows[r] > 1 => r \in excused

(* docs/integrations/google-sheets-sandbox.md:21 says that successful CRM  *)
(* writes create the activity event: an event tells of a recorded success. *)
EventTellsOfSuccess == \A r \in Leads : events[r] > 0 => Succeeded(ledger[r])

(* What a request was answered stays true of the ledger: a success is      *)
(* recorded as one, a failed write as failed, and a 409 has its row.       *)
AnswerAgreesWithLedger ==
  \A c \in Calls :
    /\ answer[c] = "ok" => Succeeded(ledger[target[c]])
    /\ answer[c] = "failed" => ledger[target[c]] = "failed"
    /\ answer[c] = "duplicate" => ledger[target[c]] # "absent"

(* Every request is answered, however often the transport fails.           *)
EveryRequestEnds == \A c \in Calls : stage[c] # "idle" ~> stage[c] = "idle"
=============================================================================
