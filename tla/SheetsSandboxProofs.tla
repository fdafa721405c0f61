------------------------ MODULE SheetsSandboxProofs ------------------------
(***************************************************************************)
(* Theorems about SheetsSandbox for any number of threads and records, any *)
(* modes and any retry limit.                                              *)
(***************************************************************************)
EXTENDS SheetsSandbox, TLAPS

\* Every step of a write keeps the types.
LEMMA TypeStep == TypeOK /\ [Next]_vars => TypeOK'
<1> SUFFICES ASSUME TypeOK, [Next]_vars PROVE TypeOK'
  OBVIOUS
<1> USE SheetsAssumption DEF TypeOK, database, request, Statuses
<1>1. ASSUME NEW c \in Calls, AppendDisabled(c) \/ AppendMock(c) \/ AppendWritten(c) \/ AppendRejected(c)
      PROVE  TypeOK'
  BY <1>1 DEF AppendDisabled, AppendMock, AppendWritten, AppendRejected, Appended, Reply
<1>2. ASSUME NEW c \in Calls, NEW lost \in BOOLEAN, AppendRaises(c, lost)
      PROVE  TypeOK'
  <2>1. CASE attempts[c] = MaxRetries
    BY <1>2, <2>1 DEF AppendRaises, Appended, AfterLastAttempt
  <2>2. CASE attempts[c] # MaxRetries
    <3>1. attempts' = [attempts EXCEPT ![c] = attempts[c] + 1] /\ attempts[c] + 1 \in 0 .. MaxRetries
      BY <1>2, <2>2 DEF AppendRaises, NextAttempt
    <3> QED
      BY <1>2, <2>2, <3>1 DEF AppendRaises
  <2> QED
    BY <2>1, <2>2
<1>3. ASSUME NEW c \in Calls, Record(c)
      PROVE  TypeOK'
  BY <1>3 DEF Record, Reply, Grant, Succeeded
<1>4. ASSUME NEW c \in Calls, RecordRefused(c) \/ RecordRaises(c)
      PROVE  TypeOK'
  BY <1>4 DEF RecordRefused, RecordRaises, Reply
<1>5. ASSUME NEW c \in Calls, Note(c) \/ NoteRaises(c)
      PROVE  TypeOK'
  BY <1>5 DEF Note, NoteRaises, Reply, Grant
<1>6. ASSUME NEW c \in Calls, NEW r \in Records, Start(c, r) \/ RefuseDuplicate(c, r)
      PROVE  TypeOK'
  BY <1>6 DEF Start, RefuseDuplicate
<1>7. CASE Restart
  BY <1>7 DEF Restart
<1>8. CASE UNCHANGED vars
  BY <1>8 DEF vars
<1> QED
  BY <1>1, <1>2, <1>3, <1>4, <1>5, <1>6, <1>7, <1>8 DEF Next, Step

Noting(c, r) == stage[c] = "note" /\ target[c] = r /\ outcome[c] # "disabled"

\* A thread about to note a success is the only one for its record, has
\* recorded the success, and has not answered yet.
GrantInv ==
  \A r \in Records :
    /\ granted[r] \in {0, 1}
    /\ granted[r] = 1 => Succeeded(ledger[r])
    /\ \A c \in Calls : Noting(c, r) =>
         /\ granted[r] = 0 /\ Succeeded(ledger[r])
         /\ \A d \in Calls : Noting(d, r) => d = c

\* Only the thread whose INSERT the constraint let through may be granted its success.
LEMMA GrantStep == TypeOK /\ GrantInv /\ [Next]_vars => GrantInv'
<1> SUFFICES ASSUME TypeOK, GrantInv, [Next]_vars PROVE GrantInv'
  OBVIOUS
<1> USE DEF TypeOK, GrantInv, Noting, Succeeded, database, request
<1>1. ASSUME NEW c \in Calls, Record(c)
      PROVE  GrantInv'
  <2>1. PICK r \in Records : r = target[c]
    OBVIOUS
  <2>2. ledger[r] = "absent" /\ ledger' = [ledger EXCEPT ![r] = outcome[c]]
    BY <1>1, <2>1 DEF Record, MayInsert
  <2>3. granted[r] = 0 /\ \A d \in Calls : ~Noting(d, r)
    BY <2>2
  <2>4. CASE Succeeded(outcome[c]) /\ r \in Leads
    BY <1>1, <2>1, <2>2, <2>3, <2>4 DEF Record
  <2>5. CASE Succeeded(outcome[c]) /\ r \notin Leads
    BY <1>1, <2>1, <2>2, <2>3, <2>5 DEF Record, Reply, Grant
  <2>6. CASE ~Succeeded(outcome[c])
    BY <1>1, <2>1, <2>2, <2>3, <2>6 DEF Record, Reply
  <2> QED
    BY <2>4, <2>5, <2>6
<1>2. ASSUME NEW c \in Calls, Note(c) \/ NoteRaises(c)
      PROVE  GrantInv'
  <2>1. PICK r \in Records : r = target[c]
    OBVIOUS
  <2>2. CASE granted' = granted
    <3>1. /\ ledger' = ledger /\ target' = target
          /\ \A d \in Calls : stage'[d] = "note" => stage[d] = "note" /\ outcome'[d] = outcome[d]
      BY <1>2 DEF Note, NoteRaises, Reply
    <3> QED
      BY <2>2, <3>1
  <2>3. CASE granted' # granted
    <3>1. /\ Noting(c, r) /\ ledger' = ledger /\ target' = target
          /\ granted' = [granted EXCEPT ![r] = granted[r] + 1]
          /\ stage' = [stage EXCEPT ![c] = "idle"]
          /\ outcome' = [outcome EXCEPT ![c] = "absent"]
      BY <1>2, <2>1, <2>3 DEF Note, NoteRaises, Reply, Grant
    <3>2. granted[r] = 0 /\ Succeeded(ledger[r]) /\ \A d \in Calls : Noting(d, r) => d = c
      BY <3>1
    <3>3. granted'[r] = 1 /\ \A q \in Records : q # r => granted'[q] = granted[q]
      BY <3>1, <3>2
    <3>4. \A d \in Calls : stage'[d] = "note" => d # c /\ stage[d] = "note" /\ outcome'[d] = outcome[d]
      BY <3>1
    <3> QED
      BY <3>1, <3>2, <3>3, <3>4
  <2> QED
    BY <2>2, <2>3
<1>3. ASSUME NEW c \in Calls, \/ AppendDisabled(c) \/ AppendMock(c) \/ AppendWritten(c) \/ AppendRejected(c)
                              \/ RecordRefused(c) \/ RecordRaises(c)
      PROVE  GrantInv'
  BY <1>3 DEF AppendDisabled, AppendMock, AppendWritten, AppendRejected, RecordRefused, RecordRaises,
              Appended, Reply
<1>4. ASSUME NEW c \in Calls, NEW lost \in BOOLEAN, AppendRaises(c, lost)
      PROVE  GrantInv'
  BY <1>4 DEF AppendRaises, Appended
<1>5. ASSUME NEW c \in Calls, NEW r \in Records, Start(c, r) \/ RefuseDuplicate(c, r)
      PROVE  GrantInv'
  BY <1>5 DEF Start, RefuseDuplicate
<1>6. CASE Restart \/ UNCHANGED vars
  BY <1>6 DEF Restart, vars
<1> QED
  BY <1>1, <1>2, <1>3, <1>4, <1>5, <1>6 DEF Next, Step

(* At most one request per record is answered with success, and then the   *)
(* ledger says so, for any number of threads, failures and restarts.       *)
THEOREM SuccessIsGrantedOnce == Spec => [](TypeOK /\ GrantedOnce)
<1>1. Init => TypeOK /\ GrantInv
  BY SheetsAssumption DEF Init, TypeOK, Statuses, GrantInv, Noting
<1>2. TypeOK /\ GrantInv => GrantedOnce
  <2> SUFFICES ASSUME GrantInv, NEW r \in Records
               PROVE  granted[r] <= 1 /\ (granted[r] = 1 => Succeeded(ledger[r]))
    BY DEF GrantedOnce
  <2>1. granted[r] \in {0, 1} /\ (granted[r] = 1 => Succeeded(ledger[r]))
    BY DEF GrantInv
  <2> QED
    BY <2>1
<1> QED
  BY <1>1, <1>2, TypeStep, GrantStep, PTL DEF Spec

\* What a request was answered stays true of the ledger.
LEMMA AnswerStep ==
  TypeOK /\ GrantInv /\ AnswerAgreesWithLedger /\ [Next]_vars => AnswerAgreesWithLedger'
<1> SUFFICES ASSUME TypeOK, GrantInv, AnswerAgreesWithLedger, [Next]_vars
             PROVE  AnswerAgreesWithLedger'
  OBVIOUS
<1> USE DEF TypeOK, AnswerAgreesWithLedger, Succeeded, database, request
<1>1. ASSUME NEW c \in Calls, Record(c)
      PROVE  AnswerAgreesWithLedger'
  <2>1. PICK r \in Records : r = target[c]
    OBVIOUS
  <2>2. ledger[r] = "absent" /\ ledger' = [ledger EXCEPT ![r] = outcome[c]] /\ target' = target
    BY <1>1, <2>1 DEF Record, MayInsert, Reply
  <2>3. outcome[c] \in {"mock", "written", "failed"}
    BY <1>1 DEF Record, Statuses
  <2>4. \/ answer' = answer
        \/ Succeeded(outcome[c]) /\ answer' = [answer EXCEPT ![c] = "ok"]
        \/ outcome[c] = "failed" /\ answer' = [answer EXCEPT ![c] = "failed"]
    BY <1>1, <2>3 DEF Record, Reply
  <2> QED
    BY <2>1, <2>2, <2>3, <2>4
<1>2. ASSUME NEW c \in Calls, Note(c) \/ NoteRaises(c)
      PROVE  AnswerAgreesWithLedger'
  <2>1. ledger' = ledger /\ target' = target
    BY <1>2 DEF Note, NoteRaises, Reply
  <2>2. \/ answer' = [answer EXCEPT ![c] = "disabled"]
        \/ answer' = [answer EXCEPT ![c] = "error"]
        \/ Noting(c, target[c]) /\ answer' = [answer EXCEPT ![c] = "ok"]
    BY <1>2 DEF Note, NoteRaises, Reply, Noting
  <2> QED
    BY <2>1, <2>2 DEF GrantInv
<1>3. ASSUME NEW c \in Calls, \/ AppendDisabled(c) \/ AppendMock(c) \/ AppendWritten(c) \/ AppendRejected(c)
                              \/ RecordRefused(c) \/ RecordRaises(c)
      PROVE  AnswerAgreesWithLedger'
  BY <1>3 DEF AppendDisabled, AppendMock, AppendWritten, AppendRejected, RecordRefused, RecordRaises,
              Appended, Reply, MayInsert
<1>4. ASSUME NEW c \in Calls, NEW lost \in BOOLEAN, AppendRaises(c, lost)
      PROVE  AnswerAgreesWithLedger'
  BY <1>4 DEF AppendRaises, Appended
<1>5. ASSUME NEW c \in Calls, NEW r \in Records, Start(c, r) \/ RefuseDuplicate(c, r)
      PROVE  AnswerAgreesWithLedger'
  BY <1>5 DEF Start, RefuseDuplicate, AlreadyWritten
<1>6. CASE Restart \/ UNCHANGED vars
  BY <1>6 DEF Restart, vars
<1> QED
  BY <1>1, <1>2, <1>3, <1>4, <1>5, <1>6 DEF Next, Step

(* What a request was answered stays true of the ledger, whatever other    *)
(* requests, failures and restarts do afterwards.                          *)
THEOREM AnswersStayTrue == Spec => []AnswerAgreesWithLedger
<1>1. Init => TypeOK /\ GrantInv /\ AnswerAgreesWithLedger
  BY SheetsAssumption DEF Init, TypeOK, Statuses, GrantInv, Noting, AnswerAgreesWithLedger
<1> QED
  BY <1>1, TypeStep, GrantStep, AnswerStep, PTL DEF Spec

\* While a record is unexcused at most one thread writes it, the row it
\* appended is the only one, and it is still to go into the ledger.
UnexcusedInv ==
  \A r \in Records \ excused :
    /\ rows[r] <= 1
    /\ rows[r] > 0 /\ ledger[r] = "absent" => \E c \in Calls : Writing(c, r)
    /\ \A c \in Calls : Writing(c, r) =>
         /\ ledger[r] = "absent"
         /\ stage[c] = "append" => rows[r] = 0
         /\ \A d \in Calls : Writing(d, r) => d = c
WrittenInv ==
  /\ \A r \in Records : ledger[r] = "written" => rows[r] > 0
  /\ \A c \in Calls : stage[c] = "record" /\ outcome[c] = "written" => rows[target[c]] > 0

\* What the ledger calls written is in the Sheet.
LEMMA WrittenStep == TypeOK /\ WrittenInv /\ [Next]_vars => WrittenInv'
<1> SUFFICES ASSUME TypeOK, WrittenInv, [Next]_vars PROVE WrittenInv'
  OBVIOUS
<1> USE DEF TypeOK, WrittenInv, database, request
<1>1. ASSUME NEW c \in Calls, AppendWritten(c)
      PROVE  WrittenInv'
  BY <1>1 DEF AppendWritten, Appended
<1>2. ASSUME NEW c \in Calls, NEW lost \in BOOLEAN, AppendRaises(c, lost)
      PROVE  WrittenInv'
  BY <1>2 DEF AppendRaises, Appended, AfterLastAttempt
<1>3. ASSUME NEW c \in Calls, Record(c)
      PROVE  WrittenInv'
  BY <1>3 DEF Record, Reply
<1>4. ASSUME NEW c \in Calls, \/ AppendDisabled(c) \/ AppendMock(c) \/ AppendRejected(c)
                              \/ RecordRefused(c) \/ RecordRaises(c) \/ Note(c) \/ NoteRaises(c)
      PROVE  WrittenInv'
  BY <1>4 DEF AppendDisabled, AppendMock, AppendRejected, RecordRefused, RecordRaises, Note, NoteRaises,
              Appended, Reply
<1>5. ASSUME NEW c \in Calls, NEW r \in Records, Start(c, r) \/ RefuseDuplicate(c, r)
      PROVE  WrittenInv'
  BY <1>5 DEF Start, RefuseDuplicate
<1>6. CASE Restart \/ UNCHANGED vars
  BY <1>6 DEF Restart, vars
<1> QED
  BY <1>1, <1>2, <1>3, <1>4, <1>5, <1>6 DEF Next, Step

\* A record without an excuse has one writer and one row.
LEMMA UnexcusedStep == TypeOK /\ UnexcusedInv /\ [Next]_vars => UnexcusedInv'
<1> SUFFICES ASSUME TypeOK, UnexcusedInv, [Next]_vars PROVE UnexcusedInv'
  OBVIOUS
<1> USE DEF TypeOK, UnexcusedInv, Writing, database, request
<1>1. ASSUME NEW c \in Calls, AppendWritten(c)
      PROVE  UnexcusedInv'
  BY <1>1 DEF AppendWritten, Appended
<1>2. ASSUME NEW c \in Calls, NEW lost \in BOOLEAN, AppendRaises(c, lost)
      PROVE  UnexcusedInv'
  BY <1>2 DEF AppendRaises, Appended
<1>3. ASSUME NEW c \in Calls, Record(c)
      PROVE  UnexcusedInv'
  BY <1>3 DEF Record, Reply, MayInsert
<1>4. ASSUME NEW c \in Calls, AppendDisabled(c) \/ AppendMock(c) \/ AppendRejected(c)
      PROVE  UnexcusedInv'
  BY <1>4 DEF AppendDisabled, AppendMock, AppendRejected, Appended, Reply
<1>5. ASSUME NEW c \in Calls, RecordRefused(c) \/ Note(c) \/ NoteRaises(c)
      PROVE  UnexcusedInv'
  BY <1>5 DEF RecordRefused, Note, NoteRaises, Reply, MayInsert
<1>6. ASSUME NEW c \in Calls, RecordRaises(c)
      PROVE  UnexcusedInv'
  BY <1>6 DEF RecordRaises, Reply, Loses
<1>7. ASSUME NEW c \in Calls, NEW r \in Records, Start(c, r) \/ RefuseDuplicate(c, r)
      PROVE  UnexcusedInv'
  BY <1>7 DEF Start, RefuseDuplicate, AlreadyWritten
<1>8. CASE Restart
  BY <1>8 DEF Restart, Loses
<1>9. CASE UNCHANGED vars
  BY <1>9 DEF vars
<1> QED
  BY <1>1, <1>2, <1>3, <1>4, <1>5, <1>6, <1>7, <1>8, <1>9 DEF Next, Step

\* The invariants about the Sheet hold together.
LEMMA RowsInvariant == Spec => [](TypeOK /\ WrittenInv /\ UnexcusedInv)
<1>1. Init => TypeOK /\ WrittenInv /\ UnexcusedInv
  BY SheetsAssumption DEF Init, TypeOK, Statuses, WrittenInv, UnexcusedInv, Writing
<1> QED
  BY <1>1, TypeStep, WrittenStep, UnexcusedStep, PTL DEF Spec

(* A record is in the Sheet twice only after a race, a lost answer or a    *)
(* request cut short between the Sheet and the ledger.                     *)
THEOREM DuplicatesAreExcused == Spec => []DuplicateRowIsExcused
<1>1. TypeOK /\ WrittenInv /\ UnexcusedInv => DuplicateRowIsExcused
  BY DEF TypeOK, WrittenInv, UnexcusedInv, DuplicateRowIsExcused
<1> QED
  BY <1>1, RowsInvariant, PTL

(* A record the ledger calls written has its row in the Sheet, and a row   *)
(* the ledger does not know of is being written or was left by a failure.  *)
THEOREM LedgerIsBackedBySheet == Spec => []SheetMatchesLedger
<1>1. TypeOK /\ WrittenInv /\ UnexcusedInv => SheetMatchesLedger
  BY DEF TypeOK, WrittenInv, UnexcusedInv, SheetMatchesLedger
<1> QED
  BY <1>1, RowsInvariant, PTL
=============================================================================
