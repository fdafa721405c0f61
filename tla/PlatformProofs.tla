----------------------------- MODULE PlatformProofs -----------------------------
(***************************************************************************)
(* What the services of the platform that keep records keep for any number *)
(* of records, threads and processes: the history of a party is a chain    *)
(* that ends in its status; a call and its timeline disagree only after    *)
(* two updates crossed, and its analytics add up; the starts of the        *)
(* process leave one administrator and the tables; what a reader of a      *)
(* conversation was answered stands; and a refresh token has one successor *)
(* unless two rotations overlapped.  One part per component; last, that a  *)
(* behaviour of MCPlatform is one of each component.                       *)
(***************************************************************************)
EXTENDS MCPlatform, AppointmentsProofs, ProvidersProofs, TLAPS, FiniteSetTheorems,
        SequenceTheorems, WellFoundedInduction

-----------------------------------------------------------------------------
(* CRMService: the history of a party is a chain that ends in its status,   *)
(* and a party that was deleted stays closed.                              *)

Request == [at : {"update", "delete", "add"}, party : Parties, old : PartyStatus,
             new : PartyStatus, known : Nat]

\* The types of CrmTypeOK, with busy a function on the threads.
TypeInv == CrmTypeOK /\ busy \in [CrmThreads -> Request \cup {Nothing}]

\* Before a party is created it has no history, so nobody can have read one.
NewIsEmpty == \A p \in Parties : status[p] = NotYet => history[p] = << >>

\* What a request read is the row of the history that was the last one then.
ReadIsARow ==
  \A c \in CrmThreads : busy[c] # Nothing =>
    /\ busy[c].known \in 1 .. Len(history[busy[c].party])
    /\ history[busy[c].party][busy[c].known].new = busy[c].old

CrmInv == TypeInv /\ NewIsEmpty /\ ReadIsARow /\ HistoryIsChain

\* A request is not Nothing, whatever it is.
LEMMA RequestIsSomething == \A r \in Request : r # Nothing
  BY DEF Request, Nothing

\* Nobody has anything to read before the first party is created.
LEMMA CrmInitInv == CrmInit => CrmInv
<1> SUFFICES ASSUME CrmInit PROVE CrmInv
  OBVIOUS
<1> USE CrmAssumption DEF CrmInit
<1>1. TypeInv
  BY DEF TypeInv, CrmTypeOK, History, Nothing
<1>2. NewIsEmpty /\ ReadIsARow /\ HistoryIsChain
  BY DEF NewIsEmpty, ReadIsARow, HistoryIsChain, HistoryEndsInStatus, ChainBrokenOnlyByOverlap, Stored
<1> QED
  BY <1>1, <1>2 DEF CrmInv

\* A thread that reads a party takes its last row with it.
LEMMA ReadKeeps ==
  ASSUME CrmInv, NEW c \in CrmThreads, NEW p \in Parties,
         NEW at \in {"update", "delete", "add"}, NEW s \in PartyStatus, Read(c, p, at, s)
  PROVE  CrmInv'
<1> USE DEF CrmInv, TypeInv, CrmTypeOK
<1>1. /\ status[p] \in PartyStatus /\ Len(history[p]) \in Nat \ {0}
      /\ history[p][Len(history[p])].new = status[p]
  BY EmptySeq DEF Read, Found, Stored, HistoryIsChain, HistoryEndsInStatus, History
<1>2. busy' = [busy EXCEPT ![c] = [at |-> at, party |-> p, old |-> status[p], new |-> s,
                                   known |-> Len(history[p])]]
  BY DEF Read
<1> DEFINE r == [at |-> at, party |-> p, old |-> status[p], new |-> s, known |-> Len(history[p])]
<1>3. r \in Request
  BY <1>1 DEF Request
<1>4. busy' \in [CrmThreads -> Request \cup {Nothing}]
  BY <1>2, <1>3
<1>5. UNCHANGED <<status, history, extra>>
  BY DEF Read
<1>6. TypeInv'
  BY <1>4, <1>5 DEF Request
<1>7. ReadIsARow'
  BY <1>1, <1>2, <1>5 DEF ReadIsARow
<1>8. NewIsEmpty' /\ HistoryIsChain'
  BY <1>5 DEF NewIsEmpty, HistoryIsChain, HistoryEndsInStatus, ChainBrokenOnlyByOverlap, Stored
<1> QED
  BY <1>6, <1>7, <1>8

\* The last element of a sequence that was appended to is the new one.
LEMMA AppendedRow ==
  ASSUME NEW S, NEW rows \in Seq(S), NEW r \in S
  PROVE  /\ Append(rows, r) \in Seq(S)
         /\ Len(Append(rows, r)) = Len(rows) + 1
         /\ Append(rows, r)[Len(rows) + 1] = r
         /\ \A i \in 1 .. Len(rows) : Append(rows, r)[i] = rows[i]
OBVIOUS

\* A party that is created has one row, and nobody read it before.
LEMMA CreateKeeps ==
  ASSUME CrmInv, NEW p \in Parties, NEW s \in PartyStatus, CreateParty(p, s)
  PROVE  CrmInv'
<1> USE CrmAssumption DEF CrmInv, TypeInv, CrmTypeOK, CreateParty
<1> DEFINE row == [old |-> NotYet, new |-> s, known |-> 0]
<1>1. <<row>> \in History /\ Len(<<row>>) = 1 /\ <<row>>[1].new = s /\ <<row>> # << >>
  BY DEF History
<1>2. TypeInv'
  <2>1. extra' \in [Parties -> Nat] /\ UNCHANGED busy
    BY DEF More
  <2>2. status' \in [Parties -> PartyStatus \cup {NotYet, Gone}] /\ history' \in [Parties -> History]
    BY <1>1
  <2> QED
    BY <2>1, <2>2
<1>3. NewIsEmpty'
  BY DEF NewIsEmpty
<1>4. ReadIsARow'
  <2> SUFFICES ASSUME NEW c \in CrmThreads, busy[c] # Nothing
               PROVE  /\ busy[c].known \in 1 .. Len(history'[busy[c].party])
                      /\ history'[busy[c].party][busy[c].known].new = busy[c].old
    BY DEF ReadIsARow
  <2>1. busy[c].party # p
    BY EmptySeq DEF NewIsEmpty, ReadIsARow
  <2> QED
    BY <2>1 DEF ReadIsARow, Request
<1>5. HistoryIsChain'
  <2>1. HistoryEndsInStatus'
    BY <1>1 DEF HistoryIsChain, HistoryEndsInStatus, Stored
  <2>2. ChainBrokenOnlyByOverlap'
    BY <1>1 DEF HistoryIsChain, ChainBrokenOnlyByOverlap
  <2> QED
    BY <2>1, <2>2 DEF HistoryIsChain
<1> QED
  BY <1>2, <1>3, <1>4, <1>5

\* The commit of a changed status appends the row that tells of it; if its
\* request read the last row, it starts where that one ended.
LEMMA StatusCommitKeeps ==
  ASSUME CrmInv, NEW c \in CrmThreads, UpdateCommit(c), StatusChanged(c)
  PROVE  CrmInv'
<1> USE CrmAssumption DEF CrmInv, TypeInv, CrmTypeOK
<1> DEFINE p == busy[c].party
           row == HistoryRow(c)
           before == history[p]
<1>1. /\ busy[c] # Nothing /\ busy[c] \in Request /\ p \in Parties
      /\ row \in [old : PartyStatus \cup {NotYet}, new : PartyStatus, known : Nat]
      /\ row.new = busy[c].new /\ row.old = busy[c].old /\ row.known = busy[c].known
      /\ status[p] \notin {NotYet, Gone}
  BY DEF UpdateCommit, Nothing, Request, HistoryRow, RowThere, Stored
<1>2. /\ status' = [status EXCEPT ![p] = busy[c].new]
      /\ history' = [history EXCEPT ![p] = Append(before, row)]
      /\ busy' = [busy EXCEPT ![c] = Nothing]
  BY DEF UpdateCommit, StatusAfter, Done
<1>3. /\ before \in History /\ Append(before, row) \in History
      /\ Len(Append(before, row)) = Len(before) + 1
      /\ Append(before, row)[Len(before) + 1] = row
      /\ \A i \in 1 .. Len(before) : Append(before, row)[i] = before[i]
  <2> DEFINE HistoryRows == [old : PartyStatus \cup {NotYet}, new : PartyStatus, known : Nat]
  <2>1. History = Seq(HistoryRows)
    BY DEF History
  <2>2. before \in Seq(HistoryRows) /\ row \in HistoryRows
    BY <1>1, <2>1
  <2> HIDE DEF HistoryRows, row, before
  <2>3. /\ Append(before, row) \in Seq(HistoryRows)
        /\ Len(Append(before, row)) = Len(before) + 1
        /\ Append(before, row)[Len(before) + 1] = row
        /\ \A i \in 1 .. Len(before) : Append(before, row)[i] = before[i]
    BY <2>2, AppendedRow
  <2> QED
    BY <2>1, <2>2, <2>3
<1>4. Len(before) \in Nat /\ busy[c].new \in PartyStatus
  BY <1>1, <1>3 DEF Request, History
<1>5. TypeInv'
  BY <1>1, <1>2, <1>3, <1>4 DEF UpdateCommit, More, Request
<1>6. NewIsEmpty'
  BY <1>1, <1>2, <1>4 DEF NewIsEmpty
<1>7. ReadIsARow'
  <2> SUFFICES ASSUME NEW d \in CrmThreads, busy'[d] # Nothing
               PROVE  /\ busy'[d].known \in 1 .. Len(history'[busy'[d].party])
                      /\ history'[busy'[d].party][busy'[d].known].new = busy'[d].old
    BY DEF ReadIsARow
  <2>1. d # c /\ busy'[d] = busy[d] /\ busy[d].party \in Parties
    BY <1>2 DEF Request
  <2>2. /\ busy[d].known \in 1 .. Len(history[busy[d].party])
        /\ history[busy[d].party][busy[d].known].new = busy[d].old
    BY <2>1 DEF ReadIsARow
  <2> QED
    BY <1>2, <1>3, <1>4, <2>1, <2>2
<1>8. HistoryEndsInStatus'
  BY <1>1, <1>2, <1>3, <1>4, EmptySeq DEF HistoryIsChain, HistoryEndsInStatus, Stored, History
<1>9. ChainBrokenOnlyByOverlap'
  <2> SUFFICES ASSUME NEW q \in Parties, NEW i \in 2 .. Len(history'[q]),
                      history'[q][i].old # history'[q][i - 1].new
               PROVE  history'[q][i].known < i - 1
    BY DEF ChainBrokenOnlyByOverlap
  <2>1. CASE q # p \/ i <= Len(before)
    BY <1>2, <1>3, <1>4, <2>1 DEF HistoryIsChain, ChainBrokenOnlyByOverlap
  <2>2. CASE q = p /\ i > Len(before)
    <3>1. i = Len(before) + 1 /\ history'[q][i] = row /\ history'[q][i - 1] = before[Len(before)]
      BY <1>1, <1>2, <1>3, <1>4, <2>2
    <3>2. busy[c].known \in 1 .. Len(before) /\ before[busy[c].known].new = busy[c].old
      BY <1>1 DEF ReadIsARow
    <3>3. busy[c].known # Len(before)
      BY <1>1, <3>1, <3>2
    <3> QED
      BY <1>1, <1>4, <3>1, <3>2, <3>3
  <2> QED
    BY <1>3, <1>4, <2>1, <2>2
<1> QED
  BY <1>5, <1>6, <1>7, <1>8, <1>9 DEF HistoryIsChain

\* What ends a request and leaves the history: any other commit, or none.
LEMMA EndKeeps ==
  ASSUME CrmInv, NEW c \in CrmThreads, busy[c] # Nothing, Done(c), UNCHANGED history,
         NEW p \in Parties, NEW s \in {status[p], Gone}, status[p] # NotYet,
         status' = [status EXCEPT ![p] = s], extra' \in [Parties -> Nat]
  PROVE  CrmInv'
<1> USE CrmAssumption DEF CrmInv, TypeInv, CrmTypeOK, Done
<1>1. TypeInv'
  BY DEF Request
<1>2. NewIsEmpty' /\ ReadIsARow'
  BY DEF NewIsEmpty, ReadIsARow
<1>3. HistoryIsChain'
  BY DEF HistoryIsChain, HistoryEndsInStatus, ChainBrokenOnlyByOverlap, Stored
<1> QED
  BY <1>1, <1>2, <1>3

\* One step per request: what it reads, and what it commits.
LEMMA CrmStep == CrmInv /\ [CrmNext]_crmVars => CrmInv'
<1> SUFFICES ASSUME CrmInv, [CrmNext]_crmVars PROVE CrmInv'
  OBVIOUS
<1> USE DEF CrmInv, TypeInv, CrmTypeOK
<1>1. ASSUME NEW p \in Parties, NEW s \in PartyStatus, CreateParty(p, s)
      PROVE  CrmInv'
  BY <1>1, CreateKeeps
<1>2. ASSUME NEW c \in CrmThreads, NEW p \in Parties, NEW s \in PartyStatus, UpdateRead(c, p, s)
      PROVE  CrmInv'
  BY <1>2, ReadKeeps DEF UpdateRead
<1>3. ASSUME NEW c \in CrmThreads, NEW p \in Parties, DeleteRead(c, p) \/ AddRead(c, p)
      PROVE  CrmInv'
  <2>1. status[p] \in PartyStatus
    BY <1>3 DEF DeleteRead, AddRead, Read, Found, Stored
  <2> QED
    BY <1>3, <2>1, ReadKeeps DEF DeleteRead, AddRead
<1>4. ASSUME NEW c \in CrmThreads, busy[c] # Nothing
      PROVE  /\ busy[c].party \in Parties /\ busy[c] \in Request
             /\ status[busy[c].party] # NotYet /\ status = [status EXCEPT ![busy[c].party] = @]
             /\ More(busy[c].party) => extra' \in [Parties -> Nat]
  BY <1>4, EmptySeq, CrmAssumption DEF Request, NewIsEmpty, ReadIsARow, More
<1>5. ASSUME NEW c \in CrmThreads, UpdateCommit(c) \/ UpdateNothing(c)
      PROVE  CrmInv'
  <2>1. CASE UpdateCommit(c) /\ StatusChanged(c)
    BY <2>1, StatusCommitKeeps
  <2>2. CASE (UpdateCommit(c) /\ ~StatusChanged(c)) \/ UpdateNothing(c)
    <3>1. /\ busy[c] # Nothing /\ More(busy[c].party) /\ Done(c) /\ UNCHANGED history
          /\ status' = [status EXCEPT ![busy[c].party] = @]
      BY <2>2, <1>4 DEF UpdateCommit, UpdateNothing, StatusAfter, Nothing
    <3> QED
      BY <1>4, <3>1, EndKeeps
  <2> QED
    BY <1>5, <2>1, <2>2
<1>6. ASSUME NEW c \in CrmThreads, UpdateFails(c) \/ AddCommit(c)
      PROVE  CrmInv'
  <2>1. /\ busy[c] # Nothing /\ Done(c) /\ UNCHANGED history /\ extra' \in [Parties -> Nat]
        /\ status' = [status EXCEPT ![busy[c].party] = @]
    BY <1>4, <1>6 DEF UpdateFails, AddCommit, Nothing
  <2> QED
    BY <1>4, <2>1, EndKeeps
<1>7. ASSUME NEW c \in CrmThreads, DeleteCommit(c)
      PROVE  CrmInv'
  <2>1. busy[c] # Nothing
    BY <1>7 DEF DeleteCommit, Nothing
  <2> QED
    BY <1>4, <1>7, <2>1, EndKeeps DEF DeleteCommit
<1>8. CASE UNCHANGED crmVars
  BY <1>8 DEF crmVars, NewIsEmpty, ReadIsARow, HistoryIsChain, HistoryEndsInStatus, ChainBrokenOnlyByOverlap, Stored
<1> QED
  BY <1>1, <1>2, <1>3, <1>5, <1>6, <1>7, <1>8 DEF CrmNext

\* CRMService: the types of parties, histories and requests.
THEOREM CrmTypeCorrect == CrmSpec => []CrmTypeOK
<1>1. CrmInv => CrmTypeOK
  BY DEF CrmInv, TypeInv
<1> QED
  BY CrmInitInv, CrmStep, <1>1, PTL DEF CrmSpec

\* crm/service.py: however the requests of any number of threads interleave,
\* the history of a party ends in its status, and its rows are a chain except
\* where two requests overlapped.
THEOREM HistoryIsAlwaysChain == CrmSpec => []HistoryIsChain
<1>1. CrmInv => HistoryIsChain
  BY DEF CrmInv
<1> QED
  BY CrmInitInv, CrmStep, <1>1, PTL DEF CrmSpec

\* crm/service.py: a deleted party stays deleted, its history stays what it
\* was, and what is added to it comes from requests that had found it.
THEOREM DeletedPartiesStayClosed == CrmSpec => DeletedPartyIsClosed
<1> DEFINE Closed == \A p \in Parties : status[p] = Gone =>
       /\ status'[p] = Gone /\ history'[p] = history[p]
       /\ \/ extra'[p] = extra[p]
          \/ \E c \in CrmThreads : busy[c] # Nothing /\ busy[c].party = p
<1>1. CrmInv /\ [CrmNext]_crmVars => [Closed]_crmVars
  <2> SUFFICES ASSUME CrmInv, CrmNext, NEW p \in Parties, status[p] = Gone
               PROVE  /\ status'[p] = Gone /\ history'[p] = history[p]
                      /\ \/ extra'[p] = extra[p]
                         \/ \E c \in CrmThreads : busy[c] # Nothing /\ busy[c].party = p
    OBVIOUS
  <2> USE CrmAssumption DEF CrmInv, TypeInv, CrmTypeOK, More
  <2>1. ASSUME NEW q \in Parties, NEW s \in PartyStatus, CreateParty(q, s)
        PROVE  UNCHANGED <<status[p], history[p], extra[p]>>
    BY <2>1 DEF CreateParty
  <2>2. ASSUME NEW c \in CrmThreads, NEW q \in Parties,
               DeleteRead(c, q) \/ AddRead(c, q) \/ \E s \in PartyStatus : UpdateRead(c, q, s)
        PROVE  UNCHANGED <<status[p], history[p], extra[p]>>
    BY <2>2 DEF DeleteRead, AddRead, UpdateRead, Read
  <2>3. ASSUME NEW c \in CrmThreads,
               UpdateCommit(c) \/ UpdateNothing(c) \/ UpdateFails(c) \/ DeleteCommit(c) \/ AddCommit(c)
        PROVE  /\ status'[p] = Gone /\ history'[p] = history[p]
               /\ busy[c] # Nothing /\ (extra'[p] = extra[p] \/ busy[c].party = p)
    <3>1. busy[c] # Nothing
      BY <2>3 DEF UpdateCommit, UpdateNothing, UpdateFails, DeleteCommit, AddCommit, Nothing
    <3>2. busy[c] \in Request /\ busy[c].party \in Parties
      BY <3>1 DEF Request
    <3>3. CASE UpdateCommit(c)
      BY <3>1, <3>2, <3>3 DEF UpdateCommit, RowThere, Stored
    <3>4. CASE UpdateNothing(c) \/ UpdateFails(c) \/ DeleteCommit(c) \/ AddCommit(c)
      BY <3>1, <3>2, <3>4 DEF UpdateNothing, UpdateFails, DeleteCommit, AddCommit
    <3> QED
      BY <2>3, <3>3, <3>4
  <2> QED
    BY <2>1, <2>2, <2>3 DEF CrmNext
<1> QED
  BY CrmInitInv, CrmStep, <1>1, PTL DEF CrmSpec, DeletedPartyIsClosed

-----------------------------------------------------------------------------
(* The call log: a call and its timeline disagree, or the timeline lacks an *)
(* event, only after two updates of that call crossed.  The argument is     *)
(* optimistic concurrency without the check: an update that finds the count *)
(* of commits where its read left it works on the row as it is.             *)

LogTypes ==
  /\ DOMAIN calls = PhoneCalls /\ DOMAIN updates = CallThreads
  /\ writes \in [PhoneCalls -> Nat]
  /\ crossed \in [PhoneCalls -> [ever : BOOLEAN, last : BOOLEAN]]

\* A row, its timeline and the commits on it.
RowAgrees(c) ==
  /\ ~There(c) => writes[c] = 0
  /\ There(c) => /\ calls[c].events \in Nat
                 /\ crossed[c].ever \/ calls[c].events = writes[c] + 1
                 /\ crossed[c].last \/ Event(calls[c].state, calls[c].outcome) = calls[c].last

\* What an update read is the row as it is, or a commit came since.
ReadAgrees(t) ==
  updates[t] # NoUpdate =>
    /\ updates[t].call \in PhoneCalls /\ There(updates[t].call)
    /\ updates[t].at \in Nat /\ updates[t].at <= writes[updates[t].call]
    /\ updates[t].read.events \in Nat
    /\ \E s, o : updates[t].event = Event(s, o)
    /\ updates[t].at = writes[updates[t].call] => updates[t].read = calls[updates[t].call]

CallInv ==
  /\ LogTypes
  /\ \A c \in PhoneCalls : RowAgrees(c)
  /\ \A t \in CallThreads : ReadAgrees(t)

\* Before the first call there is no row and nobody has read one.
LEMMA CallInitInv == CallsInit => CallInv
BY DEF CallsInit, CallInv, LogTypes, RowAgrees, ReadAgrees, There

\* A new call: no update can have read it.
LEMMA ReceiveKeeps ==
  ASSUME CallInv, NEW c \in PhoneCalls, ReceiveMockCall(c)
  PROVE  CallInv'
<1> DEFINE row == [state |-> "incoming", outcome |-> "none", events |-> 1,
                   last |-> Event("incoming", "none")]
<1>1. /\ ~There(c) /\ calls' = [calls EXCEPT ![c] = row]
      /\ UNCHANGED <<updates, writes, crossed>>
  BY DEF ReceiveMockCall
<1>2. row # Absent /\ row.events = 1 /\ Event(row.state, row.outcome) = row.last
  BY DEF Absent, Event
<1> HIDE DEF row
<1>3. /\ calls'[c] = row /\ \A d \in PhoneCalls : d # c => calls'[d] = calls[d]
      /\ DOMAIN calls' = PhoneCalls
  BY <1>1 DEF CallInv, LogTypes
<1>4. LogTypes'
  BY <1>1, <1>3 DEF CallInv, LogTypes
<1>5. ASSUME NEW d \in PhoneCalls PROVE RowAgrees(d)'
  <2>1. CASE d = c
    BY <1>1, <1>2, <1>3, <2>1 DEF CallInv, RowAgrees, There
  <2>2. CASE d # c
    BY <1>1, <1>3, <2>2 DEF CallInv, RowAgrees, There
  <2> QED
    BY <2>1, <2>2
<1>6. ASSUME NEW t \in CallThreads PROVE ReadAgrees(t)'
  BY <1>1, <1>3 DEF CallInv, ReadAgrees, There
<1> QED
  BY <1>4, <1>5, <1>6 DEF CallInv

\* A read.
LEMMA UpdateReadKeeps ==
  ASSUME CallInv, NEW t \in CallThreads, NEW c \in PhoneCalls, NEW s, NEW o,
         UpdateCallRead(t, c, s, o)
  PROVE  CallInv'
<1> DEFINE u == [call |-> c, read |-> calls[c], at |-> writes[c], event |-> Event(s, o)]
<1>1. /\ There(c) /\ updates' = [updates EXCEPT ![t] = u]
      /\ UNCHANGED <<calls, writes, crossed>>
  BY DEF UpdateCallRead
<1>2. u.call = c /\ u.read = calls[c] /\ u.at = writes[c] /\ u.event = Event(s, o)
  OBVIOUS
<1> HIDE DEF u
<1>3. /\ updates'[t] = u /\ \A r \in CallThreads : r # t => updates'[r] = updates[r]
      /\ DOMAIN updates' = CallThreads
  BY <1>1 DEF CallInv, LogTypes
<1>4. LogTypes' /\ \A d \in PhoneCalls : RowAgrees(d)'
  BY <1>1, <1>3 DEF CallInv, LogTypes, RowAgrees, There
<1>5. writes[c] \in Nat /\ calls[c].events \in Nat
  BY <1>1 DEF CallInv, LogTypes, RowAgrees
<1>6. ASSUME NEW r \in CallThreads PROVE ReadAgrees(r)'
  <2>1. CASE r = t
    BY <1>1, <1>2, <1>3, <1>5, <2>1 DEF ReadAgrees, There
  <2>2. CASE r # t
    BY <1>1, <1>3, <2>2 DEF CallInv, ReadAgrees, There
  <2> QED
    BY <2>1, <2>2
<1> QED
  BY <1>4, <1>6 DEF CallInv

\* A commit: the row it leaves, and the other updates of that call, which are
\* behind from now on.
LEMMA UpdateCommitKeeps ==
  ASSUME CallInv, NEW t \in CallThreads, UpdateCallCommit(t)
  PROVE  CallInv'
<1> DEFINE u == updates[t]
           c == u.call
           row == UpdatedRow(t, calls[c])
           meanwhile == u.at < writes[c]
<1>1. /\ c \in PhoneCalls /\ There(c) /\ u.at \in Nat /\ u.at <= writes[c] /\ u.read.events \in Nat
      /\ u.at = writes[c] => u.read = calls[c]
      /\ \E s, o : u.event = Event(s, o)
  BY DEF CallInv, ReadAgrees, UpdateCallCommit
<1>2. /\ calls' = [calls EXCEPT ![c] = row]
      /\ writes' = [writes EXCEPT ![c] = @ + 1]
      /\ crossed' = [crossed EXCEPT ![c] = [ever |-> @.ever \/ meanwhile, last |-> meanwhile]]
      /\ updates' = [updates EXCEPT ![t] = NoUpdate]
  BY DEF UpdateCallCommit
<1>3. row # Absent /\ row.events = u.read.events + 1 /\ row.last = u.event
  BY DEF UpdatedRow, Absent
<1>4. ~meanwhile => row.events = calls[c].events + 1 /\ Event(row.state, row.outcome) = row.last
  <2> SUFFICES ASSUME ~meanwhile
               PROVE  row.events = calls[c].events + 1 /\ Event(row.state, row.outcome) = row.last
    OBVIOUS
  <2>1. u.read = calls[c]
    BY <1>1 DEF CallInv, LogTypes
  <2>2. row.state = u.event.state /\ row.outcome = u.event.outcome
    BY <2>1 DEF UpdatedRow
  <2>3. u.event = Event(u.event.state, u.event.outcome)
    BY <1>1 DEF Event
  <2> QED
    BY <1>3, <2>1, <2>2, <2>3
<1>5. /\ DOMAIN calls' = PhoneCalls /\ DOMAIN updates' = CallThreads
      /\ calls'[c] = row /\ updates'[t] = NoUpdate
      /\ \A d \in PhoneCalls : d # c => calls'[d] = calls[d]
      /\ \A r \in CallThreads : r # t => updates'[r] = updates[r]
  BY <1>1, <1>2 DEF CallInv, LogTypes
<1>6. /\ writes' \in [PhoneCalls -> Nat] /\ writes[c] \in Nat /\ writes'[c] = writes[c] + 1
      /\ \A d \in PhoneCalls : d # c => writes'[d] = writes[d]
  BY <1>1, <1>2 DEF CallInv, LogTypes
<1> DEFINE mark == [ever |-> crossed[c].ever \/ meanwhile, last |-> meanwhile]
<1>7. /\ mark \in [ever : BOOLEAN, last : BOOLEAN]
      /\ mark.ever <=> (crossed[c].ever \/ meanwhile)
      /\ mark.last <=> meanwhile
  <2>1. (crossed[c].ever \/ meanwhile) \in BOOLEAN /\ meanwhile \in BOOLEAN
    OBVIOUS
  <2> HIDE DEF meanwhile, c, u
  <2>2. mark.ever = (crossed[c].ever \/ meanwhile) /\ mark.last = meanwhile
    OBVIOUS
  <2> QED
    BY <2>1, <2>2
<1>8. /\ crossed' = [crossed EXCEPT ![c] = mark]
      /\ crossed \in [PhoneCalls -> [ever : BOOLEAN, last : BOOLEAN]]
  BY <1>1, <1>2 DEF CallInv, LogTypes
<1> HIDE DEF u, c, row, meanwhile, mark
<1>9. /\ crossed' \in [PhoneCalls -> [ever : BOOLEAN, last : BOOLEAN]] /\ crossed'[c] = mark
      /\ \A d \in PhoneCalls : d # c => crossed'[d] = crossed[d]
  BY <1>1, <1>7, <1>8
<1>10. LogTypes'
  BY <1>5, <1>6, <1>9 DEF LogTypes
<1>11. ASSUME NEW d \in PhoneCalls PROVE RowAgrees(d)'
  <2>1. CASE d = c
    <3>1. There(d)' /\ calls'[d].events \in Nat
      BY <1>1, <1>3, <1>5, <2>1 DEF There
    <3>2. crossed'[d].ever \/ calls'[d].events = writes'[d] + 1
      BY <1>1, <1>4, <1>5, <1>6, <1>7, <1>9, <2>1 DEF CallInv, RowAgrees
    <3>3. crossed'[d].last \/ Event(calls'[d].state, calls'[d].outcome) = calls'[d].last
      BY <1>4, <1>5, <1>7, <1>9, <2>1
    <3> QED
      BY <3>1, <3>2, <3>3 DEF RowAgrees
  <2>2. CASE d # c
    BY <1>5, <1>6, <1>9, <2>2 DEF CallInv, RowAgrees, There
  <2> QED
    BY <2>1, <2>2
<1>12. ASSUME NEW r \in CallThreads PROVE ReadAgrees(r)'
  <2>1. CASE r = t
    BY <1>5, <2>1 DEF ReadAgrees, NoUpdate
  <2>2. CASE r # t /\ updates[r].call = c
    BY <1>1, <1>3, <1>5, <1>6, <2>2 DEF CallInv, ReadAgrees, There
  <2>3. CASE r # t /\ updates[r].call # c
    BY <1>5, <1>6, <2>3 DEF CallInv, ReadAgrees, There
  <2> QED
    BY <2>1, <2>2, <2>3
<1> QED
  BY <1>10, <1>11, <1>12 DEF CallInv

\* One step per request on a call.
LEMMA CallStep == CallInv /\ [CallsNext]_callVars => CallInv'
<1> SUFFICES ASSUME CallInv, [CallsNext]_callVars PROVE CallInv'
  OBVIOUS
<1>1. CASE CountNext \/ AnalyticsAnswer \/ UNCHANGED callVars
  BY <1>1 DEF CallInv, LogTypes, RowAgrees, ReadAgrees, There, CountNext, AnalyticsAnswer, callVars
<1>2. CASE \E c \in PhoneCalls : ReceiveMockCall(c)
  BY <1>2, ReceiveKeeps
<1>3. CASE \E t \in CallThreads, c \in PhoneCalls, s \in CallStates, o \in CallOutcomes :
             UpdateCallRead(t, c, s, o)
  BY <1>3, UpdateReadKeeps
<1>4. CASE \E t \in CallThreads : UpdateCallCommit(t)
  BY <1>4, UpdateCommitKeeps
<1> QED
  BY <1>1, <1>2, <1>3, <1>4 DEF CallsNext

(* update_call writes back a timeline it read before: a call's state and   *)
(* outcome are those of its newest event, and no event of an update is     *)
(* missing, unless two updates of that call crossed.                       *)
THEOREM CallsKeepTheirTimeline == CallsSpec => []CallDamagedOnlyByOverlap
<1>1. CallInv => CallDamagedOnlyByOverlap
  BY DEF CallInv, LogTypes, RowAgrees, CallDamagedOnlyByOverlap, TornCallOnlyByOverlap, EventLostOnlyByOverlap
<1> QED
  BY <1>1, CallInitInv, CallStep, PTL DEF CallsSpec

-----------------------------------------------------------------------------
(* The analytics of the call center.                                       *)

Received == {c \in PhoneCalls : There(c)}
Matching(i) == {c \in PhoneCalls : There(c) /\ Counted(Counts[i], c)}

\* What was counted is what is there, while no call changed.
TallyInv ==
  /\ IsFiniteSet(Received)
  /\ tally \in Seq(Nat) /\ Len(tally) <= Len(Counts)
  /\ quiet => \A i \in 1 .. Len(tally) : tally[i] = Cardinality(Matching(i))

\* Two sets without a common element count together what they count alone.
LEMMA DisjointAddUp ==
  ASSUME NEW U, IsFiniteSet(U), NEW S \in SUBSET U, NEW T \in SUBSET U, S \cap T = {}
  PROVE  /\ Cardinality(S \cup T) = Cardinality(S) + Cardinality(T)
         /\ Cardinality(S) \in Nat /\ Cardinality(T) \in Nat /\ Cardinality(U) \in Nat
         /\ Cardinality(S) + Cardinality(T) <= Cardinality(U)
<1>1. IsFiniteSet(S) /\ IsFiniteSet(T)
  BY FS_Subset
<1>2. Cardinality(S \cap T) = 0
  BY FS_EmptySet
<1>3. Cardinality(S) \in Nat /\ Cardinality(T) \in Nat /\ Cardinality(U) \in Nat
  BY <1>1, FS_CardinalityType
<1>4. Cardinality(S \cup T) = Cardinality(S) + Cardinality(T) - Cardinality(S \cap T)
  BY <1>1, FS_Union
<1>5. Cardinality(S \cup T) <= Cardinality(U)
  <2>1. S \cup T \in SUBSET U
    OBVIOUS
  <2> QED
    BY <2>1, FS_Subset
<1> QED
  BY <1>2, <1>3, <1>4, <1>5

\* The seven counts, and their conditions.
LEMMA CountsAre ==
  /\ Len(Counts) = 7
  /\ Counts[1] = "total" /\ Counts[2] = "missed" /\ Counts[3] = "active" /\ Counts[4] = "callback"
  /\ Counts[6] = "failed" /\ Counts[7] = "successful"
  BY DEF Counts

\* The rows counted one query after another, while no call changed, add up.
LEMMA CountsAddUp ==
  ASSUME TallyInv, quiet, Len(tally) = Len(Counts)
  PROVE  /\ tally[6] + tally[7] <= tally[1] /\ tally[2] <= tally[6]
         /\ tally[2] + tally[3] + tally[4] + tally[7] <= tally[1]
<1>1. \A i \in 1 .. 7 : tally[i] = Cardinality(Matching(i))
  BY CountsAre DEF TallyInv
<1>2. Matching(1) = Received /\ IsFiniteSet(Received)
  BY CountsAre DEF Matching, Received, Counted, TallyInv
<1>3. /\ Matching(2) \subseteq Matching(6)
      /\ \A i \in 1 .. 7 : Matching(i) \in SUBSET Received
  BY CountsAre DEF Matching, Received, Counted
<1>4. Matching(6) \cap Matching(7) = {}
  BY CountsAre DEF Matching, Counted
<1>5. /\ Matching(2) \cap Matching(3) = {}
      /\ (Matching(2) \cup Matching(3)) \cap Matching(4) = {}
      /\ ((Matching(2) \cup Matching(3)) \cup Matching(4)) \cap Matching(7) = {}
  BY CountsAre DEF Matching, Counted
<1> DEFINE a == Matching(2)
           b == Matching(3)
           c == Matching(4)
           f == Matching(6)
           s == Matching(7)
<1>6. a \in SUBSET Received /\ b \in SUBSET Received /\ c \in SUBSET Received /\ f \in SUBSET Received /\ s \in SUBSET Received
  BY <1>3
<1>7. /\ tally[1] = Cardinality(Received) /\ tally[2] = Cardinality(a) /\ tally[3] = Cardinality(b)
      /\ tally[4] = Cardinality(c) /\ tally[6] = Cardinality(f) /\ tally[7] = Cardinality(s)
  BY <1>1, <1>2
<1>8. a \subseteq f /\ f \cap s = {} /\ a \cap b = {} /\ (a \cup b) \cap c = {} /\ ((a \cup b) \cup c) \cap s = {}
  BY <1>3, <1>4, <1>5
<1> DEFINE ab == a \cup b
           abc == ab \cup c
<1>9. /\ a \subseteq f /\ f \cap s = {} /\ a \cap b = {} /\ ab \cap c = {} /\ abc \cap s = {}
      /\ ab \in SUBSET Received /\ abc \in SUBSET Received
  BY <1>6, <1>8
<1> USE <1>2
<1>10. Cardinality(a \cup b) = Cardinality(a) + Cardinality(b)
  <2> HIDE DEF a, b
  <2> QED
    BY <1>6, <1>9, DisjointAddUp
<1>11. Cardinality(ab \cup c) = Cardinality(ab) + Cardinality(c)
  <2> HIDE DEF ab, c
  <2> QED
    BY <1>6, <1>9, DisjointAddUp
<1>12. Cardinality(abc) + Cardinality(s) <= Cardinality(Received)
  <2> HIDE DEF abc, s
  <2> QED
    BY <1>6, <1>9, DisjointAddUp
<1> HIDE DEF a, b, c, f, s
<1>13. /\ Cardinality(f) + Cardinality(s) <= Cardinality(Received)
       /\ Cardinality(a) \in Nat /\ Cardinality(b) \in Nat /\ Cardinality(c) \in Nat
       /\ Cardinality(f) \in Nat /\ Cardinality(s) \in Nat
  <2>1. Cardinality(f) + Cardinality(s) <= Cardinality(Received)
    BY <1>6, <1>9, DisjointAddUp
  <2> QED
    BY <2>1, <1>6, FS_Subset, FS_CardinalityType
<1>14. Cardinality(a) <= Cardinality(f)
  <2>1. IsFiniteSet(f) /\ a \in SUBSET f
    BY <1>6, <1>9, FS_Subset
  <2> QED
    BY <2>1, FS_Subset
<1> QED
  BY <1>7, <1>10, <1>11, <1>12, <1>13, <1>14

\* A query counts what is there; a commit ends the quiet.
LEMMA TallyStep == CallInv /\ TallyInv /\ [CallsNext]_callVars => TallyInv'
<1> SUFFICES ASSUME CallInv, TallyInv, [CallsNext]_callVars PROVE TallyInv'
  OBVIOUS
<1>0. /\ IsFiniteSet(Received) /\ tally \in Seq(Nat) /\ Len(tally) <= Len(Counts)
      /\ DOMAIN calls = PhoneCalls
  BY DEF TallyInv, CallInv, LogTypes
<1>1. ASSUME NEW c \in PhoneCalls, ReceiveMockCall(c) PROVE TallyInv'
  <2>1. /\ calls' = [calls EXCEPT ![c] = [state |-> "incoming", outcome |-> "none", events |-> 1,
                                          last |-> Event("incoming", "none")]]
        /\ quiet' = FALSE /\ UNCHANGED tally
    BY <1>1 DEF ReceiveMockCall
  <2>2. calls'[c] # Absent /\ \A d \in PhoneCalls : d # c => calls'[d] = calls[d]
    BY <1>0, <2>1 DEF Absent
  <2>3. Received' = Received \cup {c}
    BY <2>2 DEF Received, There
  <2>4. IsFiniteSet(Received)'
    BY <1>0, <2>3, FS_AddElement
  <2> QED
    BY <1>0, <2>1, <2>4 DEF TallyInv
<1>2. ASSUME NEW t \in CallThreads, UpdateCallCommit(t) PROVE TallyInv'
  <2> DEFINE c == updates[t].call
  <2>1. c \in PhoneCalls /\ There(c)
    BY <1>2 DEF CallInv, ReadAgrees, UpdateCallCommit
  <2>2. /\ calls' = [calls EXCEPT ![c] = UpdatedRow(t, @)]
        /\ quiet' = FALSE /\ UNCHANGED tally
    BY <1>2 DEF UpdateCallCommit
  <2>3. UpdatedRow(t, calls[c]) # Absent
    BY DEF UpdatedRow, Absent
  <2>4. Received' = Received
    BY <1>0, <2>1, <2>2, <2>3 DEF Received, There
  <2> QED
    BY <1>0, <2>2, <2>4 DEF TallyInv
<1>3. ASSUME UNCHANGED calls
      PROVE  Received' = Received /\ \A i \in 1 .. 7 : Matching(i)' = Matching(i)
  BY <1>3 DEF Received, Matching, There, Counted
<1>4. CASE CountNext
  <2> DEFINE n == Len(tally) + 1
  <2>1. /\ tally' = Append(tally, Cardinality(Matching(n))) /\ n \in 1 .. 7 /\ UNCHANGED calls
        /\ quiet' = (quiet \/ tally = << >>)
    BY <1>0, <1>4, CountsAre DEF CountNext, Matching
  <2>2. Cardinality(Matching(n)) \in Nat
    <3>1. Matching(n) \in SUBSET Received
      BY DEF Matching, Received
    <3> QED
      BY <1>0, <3>1, FS_Subset, FS_CardinalityType
  <2>3. /\ tally' \in Seq(Nat) /\ Len(tally') = n /\ tally'[n] = Cardinality(Matching(n))
        /\ \A i \in 1 .. Len(tally) : tally'[i] = tally[i]
    BY <1>0, <2>1, <2>2
  <2>4. quiet' => \A i \in 1 .. n : tally'[i] = Cardinality(Matching(i))
    <3> SUFFICES ASSUME quiet', NEW i \in 1 .. n PROVE tally'[i] = Cardinality(Matching(i))
      OBVIOUS
    <3>1. CASE i = n
      BY <2>3, <3>1
    <3>2. CASE i # n
      <4>1. i \in 1 .. Len(tally) /\ tally # << >>
        BY <1>0, <3>2
      <4> QED
        BY <2>1, <2>3, <4>1 DEF TallyInv
    <3> QED
      BY <3>1, <3>2
  <2>5. IsFiniteSet(Received)' /\ \A i \in 1 .. n : Matching(i)' = Matching(i)
    <3>1. IsFiniteSet(Received) /\ \A i \in 1 .. n : i \in 1 .. 7
      BY <1>0, <2>1
    <3>2. Received' = Received /\ \A i \in 1 .. 7 : Matching(i)' = Matching(i)
      BY <1>3, <2>1
    <3> HIDE DEF n
    <3> QED
      BY <3>1, <3>2
  <2> QED
    BY <2>1, <2>3, <2>4, <2>5, CountsAre DEF TallyInv
<1>5. CASE AnalyticsAnswer
  BY <1>0, <1>3, <1>5 DEF AnalyticsAnswer, TallyInv
<1>6. CASE UNCHANGED <<calls, tally, quiet>>
  BY <1>0, <1>3, <1>6, CountsAre DEF TallyInv
<1>7. ASSUME NEW t \in CallThreads, NEW c \in PhoneCalls, NEW s \in CallStates, NEW o \in CallOutcomes,
             UpdateCallRead(t, c, s, o)
      PROVE  UNCHANGED <<calls, tally, quiet>>
  BY <1>7 DEF UpdateCallRead, analyticsVars
<1> QED
  BY <1>1, <1>2, <1>4, <1>5, <1>6, <1>7 DEF CallsNext, callVars

(* analytics of callcenter/service.py: the seven statements add up when no *)
(* call changed between them, for any number of calls.                     *)
THEOREM AnalyticsAlwaysAddUp == CallsSpec => []AnalyticsAddUp
<1>1. CallsInit => TallyInv
  <2> SUFFICES ASSUME CallsInit PROVE TallyInv
    OBVIOUS
  <2>1. Received = {}
    BY DEF CallsInit, Received, There
  <2> QED
    BY <2>1, FS_EmptySet, CountsAre DEF CallsInit, TallyInv
<1>2. TallyInv => AnalyticsAddUp
  BY CountsAddUp DEF AnalyticsAddUp
<1> QED
  BY <1>1, <1>2, CallInitInv, CallStep, TallyStep, PTL DEF CallsSpec

\* The types of the call log; an update knows of no more events than commits.
CallTypesInv ==
  /\ CallsTypeOK
  /\ DOMAIN calls = PhoneCalls /\ DOMAIN updates = CallThreads
  /\ \A c \in PhoneCalls : There(c) => calls[c].events <= writes[c] + 1
  /\ \A t \in CallThreads : updates[t] # NoUpdate =>
       LET u == updates[t] IN
       /\ u.call \in PhoneCalls /\ There(u.call)
       /\ u.read.state \in CallStates \cup {"incoming"} /\ u.read.outcome \in CallOutcomes
       /\ u.read.events \in Nat /\ u.at \in Nat /\ u.read.events <= u.at + 1 /\ u.at <= writes[u.call]
       /\ u.event.state \in CallStates /\ u.event.outcome \in CallOutcomes

\* The steps on the rows.
LEMMA CallTypesStep == CallTypesInv /\ TallyInv' /\ [CallsNext]_callVars => CallTypesInv'
<1> SUFFICES ASSUME CallTypesInv, TallyInv', [CallsNext]_callVars PROVE CallTypesInv'
  OBVIOUS
<1>0. /\ DOMAIN calls = PhoneCalls /\ DOMAIN updates = CallThreads
      /\ writes \in [PhoneCalls -> 0 .. MaxWrites] /\ MaxWrites \in Nat
      /\ crossed \in [PhoneCalls -> [ever : BOOLEAN, last : BOOLEAN]] /\ quiet \in BOOLEAN
      /\ Len(tally') <= 7
  BY CallAssumption DEF CallTypesInv, CallsTypeOK, TallyInv, Counts
<1>1. ASSUME NEW c \in PhoneCalls, ReceiveMockCall(c) PROVE CallTypesInv'
  <2> DEFINE row == [state |-> "incoming", outcome |-> "none", events |-> 1, last |-> Event("incoming", "none")]
  <2>1. /\ ~There(c) /\ calls' = [calls EXCEPT ![c] = row] /\ quiet' = FALSE
        /\ UNCHANGED <<updates, writes, crossed, tally>>
    BY <1>1 DEF ReceiveMockCall
  <2>2. /\ row # Absent /\ row.state = "incoming" /\ row.outcome = "none" /\ row.events = 1
        /\ "none" \in CallOutcomes
    BY CallAssumption DEF Absent
  <2> HIDE DEF row
  <2>3. calls'[c] = row /\ DOMAIN calls' = PhoneCalls /\ \A d \in PhoneCalls \ {c} : calls'[d] = calls[d]
    BY <1>0, <2>1
  <2>4. There(c)' /\ \A d \in PhoneCalls \ {c} : There(d)' <=> There(d)
    BY <2>2, <2>3 DEF There, Absent
  <2>5. writes[c] \in Nat
    BY <1>0
  <2>6. ASSUME NEW d \in PhoneCalls, There(d)'
        PROVE  /\ calls'[d].state \in CallStates \cup {"incoming"} /\ calls'[d].outcome \in CallOutcomes
               /\ calls'[d].events \in 1 .. MaxWrites + 1 /\ calls'[d].events <= writes[d] + 1
    <3>1. CASE d = c
      BY <1>0, <2>2, <2>3, <2>5, <3>1
    <3>2. CASE d # c
      BY <2>3, <2>4, <2>6, <3>2 DEF CallTypesInv, CallsTypeOK
    <3> QED
      BY <3>1, <3>2
  <2>7. \A t \in CallThreads : updates[t] # NoUpdate => There(updates[t].call)'
    BY <2>1, <2>4 DEF CallTypesInv
  <2> QED
    BY <1>0, <2>1, <2>3, <2>6, <2>7 DEF CallTypesInv, CallsTypeOK
<1>2. ASSUME NEW t \in CallThreads, NEW c \in PhoneCalls, NEW s \in CallStates, NEW o \in CallOutcomes,
             UpdateCallRead(t, c, s, o)
      PROVE  CallTypesInv'
  <2> DEFINE u == [call |-> c, read |-> calls[c], at |-> writes[c], event |-> Event(s, o)]
  <2>1. /\ There(c) /\ updates' = [updates EXCEPT ![t] = u] /\ UNCHANGED <<calls, writes, crossed, tally, quiet>>
    BY <1>2 DEF UpdateCallRead, analyticsVars
  <2>2. /\ u.call = c /\ u.read = calls[c] /\ u.at = writes[c] /\ u.event.state = s /\ u.event.outcome = o
        /\ writes[c] \in Nat
    BY <1>0 DEF Event
  <2>3. /\ calls[c].state \in CallStates \cup {"incoming"} /\ calls[c].outcome \in CallOutcomes
        /\ calls[c].events \in Nat /\ calls[c].events <= writes[c] + 1
    <3>1. calls[c].events \in 1 .. MaxWrites + 1
      BY <2>1 DEF CallTypesInv, CallsTypeOK
    <3> QED
      BY <1>0, <2>1, <3>1 DEF CallTypesInv, CallsTypeOK
  <2>4. writes[c] <= writes[c]
    BY <2>2
  <2> HIDE DEF u
  <2>5. updates'[t] = u /\ DOMAIN updates' = CallThreads /\ \A r \in CallThreads \ {t} : updates'[r] = updates[r]
    BY <1>0, <2>1
  <2> QED
    BY <1>0, <2>1, <2>2, <2>3, <2>4, <2>5 DEF CallTypesInv, CallsTypeOK, There
<1>3. ASSUME NEW t \in CallThreads, UpdateCallCommit(t) PROVE CallTypesInv'
  <2> DEFINE u == updates[t]
  <2>0. PICK c \in PhoneCalls : c = u.call
    BY <1>3 DEF CallTypesInv, UpdateCallCommit
  <2> DEFINE new == UpdatedRow(t, calls[c])
             mid == u.at < writes[c]
  <2>1. /\ u # NoUpdate /\ writes[c] < MaxWrites
        /\ calls' = [calls EXCEPT ![c] = UpdatedRow(t, @)]
        /\ writes' = [writes EXCEPT ![c] = @ + 1]
        /\ crossed' = [crossed EXCEPT ![c] = [ever |-> @.ever \/ mid, last |-> mid]]
        /\ updates' = [updates EXCEPT ![t] = NoUpdate] /\ quiet' = FALSE /\ UNCHANGED tally
    BY <1>3, <2>0 DEF UpdateCallCommit
  <2>2. /\ c \in PhoneCalls /\ There(c)
        /\ u.read.events \in Nat /\ u.at \in Nat /\ u.read.events <= u.at + 1 /\ u.at <= writes[c]
        /\ u.event.state \in CallStates /\ u.event.outcome \in CallOutcomes
        /\ calls[c].state \in CallStates \cup {"incoming"} /\ calls[c].outcome \in CallOutcomes
    BY <2>0, <2>1 DEF CallTypesInv, CallsTypeOK
  <2>3. /\ new.state \in CallStates \cup {"incoming"} /\ new.outcome \in CallOutcomes
        /\ new.events = u.read.events + 1 /\ new # Absent
    BY <2>0, <2>2 DEF UpdatedRow, Absent
  <2>4. /\ calls'[c] = new /\ DOMAIN calls' = PhoneCalls
        /\ \A d \in PhoneCalls \ {c} : calls'[d] = calls[d] /\ writes'[d] = writes[d]
        /\ writes'[c] = writes[c] + 1 /\ writes[c] \in 0 .. MaxWrites
    BY <1>0, <2>1, <2>2
  <2>5. writes' \in [PhoneCalls -> 0 .. MaxWrites]
    <3>1. writes[c] + 1 \in 0 .. MaxWrites
      BY <1>0, <2>1, <2>4
    <3> QED
      BY <1>0, <2>1, <2>2, <3>1
  <2>6. crossed' \in [PhoneCalls -> [ever : BOOLEAN, last : BOOLEAN]]
    <3>1. [ever |-> crossed[c].ever \/ mid, last |-> mid] \in [ever : BOOLEAN, last : BOOLEAN]
      OBVIOUS
    <3> HIDE DEF mid
    <3> QED
      BY <1>0, <2>1, <2>2, <3>1
  <2>7. There(c)' /\ \A d \in PhoneCalls : There(d)' <=> There(d)
    <3>1. calls'[c] # Absent /\ calls[c] # Absent
      BY <2>2, <2>3, <2>4 DEF There
    <3>2. \A d \in PhoneCalls \ {c} : calls'[d] = calls[d]
      BY <2>4
    <3> HIDE DEF new
    <3> QED
      BY <3>1, <3>2 DEF There
  <2>8. new.events \in 1 .. MaxWrites + 1 /\ new.events <= writes'[c] + 1
    <3> DEFINE e == u.read.events
               w == writes[c]
    <3>1. e \in Nat /\ u.at \in Nat /\ e <= u.at + 1 /\ u.at <= w /\ w < MaxWrites /\ w \in Nat
      BY <1>0, <2>1, <2>2, <2>4
    <3>2. new.events = e + 1 /\ writes'[c] = w + 1
      BY <2>3, <2>4
    <3> HIDE DEF e, w, new, u
    <3> QED
      BY <1>0, <3>1, <3>2
  <2> HIDE DEF u, new, mid
  <2>9. ASSUME NEW d \in PhoneCalls, There(d)'
        PROVE  /\ calls'[d].state \in CallStates \cup {"incoming"} /\ calls'[d].outcome \in CallOutcomes
               /\ calls'[d].events \in 1 .. MaxWrites + 1 /\ calls'[d].events <= writes'[d] + 1
    <3>1. CASE d = c
      BY <2>3, <2>4, <2>8, <3>1
    <3>2. CASE d # c
      BY <2>4, <2>7, <2>9, <3>2 DEF CallTypesInv, CallsTypeOK
    <3> QED
      BY <3>1, <3>2
  <2>10. DOMAIN updates' = CallThreads /\ updates'[t] = NoUpdate /\ \A r \in CallThreads \ {t} : updates'[r] = updates[r]
    BY <1>0, <2>1
  <2>11. ASSUME NEW d \in PhoneCalls, NEW n \in Nat, n <= writes[d] PROVE n <= writes'[d]
    <3>1. writes[d] \in Nat
      BY <1>0
    <3> QED
      BY <2>4, <2>11, <3>1
  <2>12. ASSUME NEW r \in CallThreads, updates'[r] # NoUpdate
         PROVE  LET v == updates'[r] IN
                /\ v.call \in PhoneCalls /\ calls'[v.call] # Absent
                /\ v.read.state \in CallStates \cup {"incoming"} /\ v.read.outcome \in CallOutcomes
                /\ v.read.events \in Nat /\ v.at \in Nat /\ v.read.events <= v.at + 1 /\ v.at <= writes'[v.call]
                /\ v.event.state \in CallStates /\ v.event.outcome \in CallOutcomes
    <3>1. r # t /\ updates'[r] = updates[r] /\ updates[r] # NoUpdate
      BY <2>10, <2>12
    <3>0. PICK v : v = updates[r]
      OBVIOUS
    <3>2. /\ v.call \in PhoneCalls /\ There(v.call)
          /\ v.read.state \in CallStates \cup {"incoming"} /\ v.read.outcome \in CallOutcomes
          /\ v.read.events \in Nat /\ v.at \in Nat /\ v.read.events <= v.at + 1 /\ v.at <= writes[v.call]
          /\ v.event.state \in CallStates /\ v.event.outcome \in CallOutcomes
      BY <3>0, <3>1 DEF CallTypesInv
    <3>3. v.at <= writes'[v.call] /\ There(v.call)'
      BY <2>7, <2>11, <3>2
    <3> QED
      BY <3>0, <3>1, <3>2, <3>3 DEF There
  <2>13. CallsTypeOK'
    BY <1>0, <2>1, <2>5, <2>6, <2>9 DEF CallsTypeOK
  <2>14. DOMAIN calls' = PhoneCalls /\ DOMAIN updates' = CallThreads
    BY <2>4, <2>10
  <2>15. \A d \in PhoneCalls : There(d)' => calls'[d].events <= writes'[d] + 1
    BY <2>9
  <2> QED
    BY <2>12, <2>13, <2>14, <2>15 DEF CallTypesInv, There
<1>4. CASE CountNext \/ AnalyticsAnswer \/ UNCHANGED callVars
  <2>1. UNCHANGED <<calls, updates, writes, crossed>> /\ quiet' \in BOOLEAN
    BY <1>0, <1>4 DEF CountNext, AnalyticsAnswer, callVars
  <2> QED
    BY <1>0, <2>1 DEF CallTypesInv, CallsTypeOK, There
<1> QED
  BY <1>1, <1>2, <1>3, <1>4 DEF CallsNext

(* The rows of calls keep their types, and a timeline has at most one event *)
(* more than there were commits.                                           *)
THEOREM CallsTypeCorrect == CallsSpec => []CallsTypeOK
<1>1. CallsInit => TallyInv /\ CallTypesInv
  <2> SUFFICES ASSUME CallsInit PROVE TallyInv /\ CallTypesInv
    OBVIOUS
  <2>1. Received = {} /\ Len(tally) = 0 /\ tally \in Seq(Nat)
    BY DEF CallsInit, Received, There
  <2>2. MaxWrites \in Nat /\ \A c \in PhoneCalls : ~There(c)
    BY CallAssumption DEF CallsInit, There
  <2>3. CallTypesInv
    BY <2>1, <2>2 DEF CallsInit, CallTypesInv, CallsTypeOK
  <2> QED
    BY <2>1, <2>3, FS_EmptySet DEF TallyInv, Counts
<1>2. CallTypesInv => CallsTypeOK
  BY DEF CallTypesInv
<1> QED
  BY <1>1, <1>2, CallInitInv, CallStep, TallyStep, CallTypesStep, PTL DEF CallsSpec

-----------------------------------------------------------------------------
(* The starts.  create_all of a process has one of three lists left: every *)
(* statement, those after the table of users, or the last one.             *)

All == <<"users", "username", "schema_migrations">>
AfterUsers == <<"username", "schema_migrations">>
AfterIndex == <<"schema_migrations">>

Creates(p, list) == proc[p].at = "create" /\ proc[p].todo = list

Lists == {<< >>, AfterIndex, AfterUsers, All}
Start == [at : Stages, todo : Lists, secret : Secrets, alone : BOOLEAN]
UserRows == [name : Names, posted : BOOLEAN]

StartTypes ==
  /\ schema \in SUBSET {"users", "username", "schema_migrations"}
  /\ version \in BOOLEAN /\ stops \in Nat
  /\ users \in Seq(UserRows)
  /\ proc \in [Processes -> Start]

\* Where a process is says what is there, and so does what is there.
PlaceIs(p) ==
  /\ proc[p].at = "create" => proc[p].todo # << >>
  /\ Creates(p, AfterUsers) \/ Creates(p, AfterIndex) \/ proc[p].at = "dead" => "users" \in schema
  /\ proc[p].at \in {"version", "record", "admin", "insert", "up"} => Tables \subseteq schema
  /\ proc[p].at \in {"admin", "insert", "up"} => version
  /\ proc[p].at = "up" => users # << >> \/ proc[p].secret = "unset"
  /\ proc[p].at \in {"off", "create", "version", "record", "admin"} => proc[p].secret = "unset"

StartOrder ==
  /\ {"username", "schema_migrations"} \cap schema # {} => "users" \in schema
  /\ version => Tables \subseteq schema
  /\ users # << >> => version /\ ~users[1].posted
  /\ \A p \in Processes : PlaceIs(p)

\* One that starts alone finds what it is to make missing.
AloneIsSafe ==
  \A p \in Processes : proc[p].alone =>
    /\ proc[p].at = "dead" => proc[p].secret = "short" /\ version
    /\ Starting(p) => \A q \in Processes : q # p => ~Starting(q)
    /\ Creates(p, All) => "users" \notin schema
    /\ Creates(p, AfterUsers) => "username" \notin schema /\ "schema_migrations" \notin schema
    /\ Creates(p, AfterIndex) => "schema_migrations" \notin schema
    /\ proc[p].at = "record" => ~version
    /\ proc[p].at = "insert" => users = << >>

\* Whoever made the last thing there is goes on: the table of users, its index,
\* the migrations, the version; and who made a user serves.
Willing == stops = 0 /\ \A p \in Processes : proc[p].secret # "short"
MakerGoesOn ==
  Willing =>
    /\ users # << >> => \E p \in Processes : proc[p].at = "up"
    /\ version /\ users = << >> => \E p \in Processes : proc[p].at \in {"admin", "insert", "up"}
    /\ ~version /\ "schema_migrations" \in schema => \E p \in Processes : proc[p].at \in {"version", "record"}
    /\ "schema_migrations" \notin schema /\ "username" \in schema => \E p \in Processes : Creates(p, AfterIndex)
    /\ schema = {"users"} => \E p \in Processes : Creates(p, AfterUsers)

\* As long as the index is missing, each user that a start made and each process
\* that may still make one is of a start of its own, next to that of the
\* table's maker.
Booted == {i \in 1 .. Len(users) : ~users[i].posted}
Launched == {p \in Processes : proc[p].at # "off"}
MayInsert == {p \in Processes : Creates(p, AfterIndex) \/ proc[p].at \in {"version", "record", "admin", "insert"}}
StartsAreCounted ==
  /\ IsFiniteSet(Launched)
  /\ "username" \in schema => ~Twins
  /\ "users" \in schema /\ "username" \notin schema =>
       /\ IsFiniteSet(Booted)
       /\ Cardinality(Booted) + Cardinality(MayInsert) + 1 <= Cardinality(Launched) + stops

StartInv == StartTypes /\ StartOrder /\ AloneIsSafe /\ MakerGoesOn /\ StartsAreCounted
\* The lists, and what is left of each after its first statement.
LEMMA ListsAre ==
  /\ Head(All) = "users" /\ Tail(All) = AfterUsers /\ Len(All) # 1
  /\ Head(AfterUsers) = "username" /\ Tail(AfterUsers) = AfterIndex /\ Len(AfterUsers) # 1
  /\ Head(AfterIndex) = "schema_migrations" /\ Tail(AfterIndex) = << >> /\ Len(AfterIndex) = 1
  /\ All # AfterUsers /\ All # AfterIndex /\ AfterUsers # AfterIndex
  /\ All # << >> /\ AfterUsers # << >> /\ AfterIndex # << >>
  BY DEF All, AfterUsers, AfterIndex

\* The list of the users before that of the migrations is the list of all.
LEMMA ListsInOrder ==
  UsersDdl \o MigrationsDdl = All /\ << >> \o MigrationsDdl = AfterIndex /\ << >> \o << >> = << >>
<1> DEFINE S == {"users", "username", "schema_migrations"}
           a == UsersDdl
           b == MigrationsDdl
           c == All
<1>1. a \in Seq(S) /\ Len(a) = 2 /\ a[1] = "users" /\ a[2] = "username"
  BY DEF UsersDdl
<1>2. b \in Seq(S) /\ Len(b) = 1 /\ b[1] = "schema_migrations" /\ b = AfterIndex
  BY DEF MigrationsDdl, AfterIndex
<1>3. c \in Seq(S) /\ Len(c) = 3 /\ c[1] = "users" /\ c[2] = "username" /\ c[3] = "schema_migrations"
  BY DEF All
<1> HIDE DEF S, a, b, c
<1>4. /\ a \o b \in Seq(S) /\ Len(a \o b) = 3
      /\ \A i \in 1 .. 3 : (a \o b)[i] = IF i <= 2 THEN a[i] ELSE b[i - 2]
  <2>1. /\ a \o b \in Seq(S) /\ Len(a \o b) = Len(a) + Len(b)
        /\ \A i \in 1 .. Len(a) + Len(b) : (a \o b)[i] = IF i <= Len(a) THEN a[i] ELSE b[i - Len(a)]
    BY <1>1, <1>2, ConcatProperties
  <2> QED
    BY <1>1, <1>2, <2>1
<1>5. \A i \in 1 .. 3 : (a \o b)[i] = c[i]
  BY <1>1, <1>2, <1>3, <1>4
<1>6. a \o b = c
  BY <1>3, <1>4, <1>5, SeqEqual
<1>7. << >> \in Seq(S)
  OBVIOUS
<1>8. << >> \o << >> = << >> /\ << >> \o b = b
  BY <1>2, <1>7, ConcatEmptySeq
<1> QED
  BY <1>2, <1>6, <1>8 DEF a, b, c

\* What create_all finds missing where what is there came in order.
LEMMA MissingIs ==
  ASSUME StartOrder, NEW p
  PROVE  Missing(p) = IF "users" \notin schema THEN All
                      ELSE IF "schema_migrations" \notin schema THEN AfterIndex ELSE << >>
  BY ListsInOrder DEF Missing, StartOrder, PlaceIs

\* The process p goes on to this place, with this list left.
GoesTo(p, at, todo) ==
  /\ proc' \in [Processes -> Start]
  /\ proc'[p].at = at /\ proc'[p].todo = todo /\ proc'[p].secret = proc[p].secret
  /\ proc'[p].alone <=> proc[p].alone
  /\ \A q \in Processes \ {p} : proc'[q] = proc[q]

\* A step that changes where a process is takes it there with its list.
LEMMA MoveGoes ==
  ASSUME StartTypes, NEW p \in Processes, NEW at \in Stages, Move(p, at)
  PROVE  GoesTo(p, at, proc[p].todo)
<1> DEFINE r == [proc[p] EXCEPT !.at = at]
<1>1. proc[p] \in Start /\ proc' = [proc EXCEPT ![p] = r] /\ proc \in [Processes -> Start]
  BY DEF StartTypes, Move
<1>2. r \in Start /\ r.at = at /\ r.todo = proc[p].todo /\ r.secret = proc[p].secret /\ (r.alone <=> proc[p].alone)
  BY <1>1 DEF Start
<1> HIDE DEF r
<1> QED
  BY <1>1, <1>2 DEF GoesTo

\* A statement of create_all: it fails, or it is one of the three.
LEMMA CreateIs ==
  ASSUME StartInv, NEW p \in Processes, CreateNext(p)
  PROVE  /\ UNCHANGED <<version, users, stops>>
         /\ \/ /\ GoesTo(p, "dead", proc[p].todo) /\ UNCHANGED schema
               /\ \/ Creates(p, All) /\ "users" \in schema
                  \/ Creates(p, AfterUsers) /\ ("username" \in schema \/ Twins)
                  \/ Creates(p, AfterIndex) /\ "schema_migrations" \in schema
            \/ /\ Creates(p, All) /\ "users" \notin schema /\ schema' = schema \cup {"users"}
               /\ GoesTo(p, "create", AfterUsers)
            \/ /\ Creates(p, AfterUsers) /\ "username" \notin schema /\ ~Twins
               /\ schema' = schema \cup {"username"} /\ GoesTo(p, "create", AfterIndex)
            \/ /\ Creates(p, AfterIndex) /\ "schema_migrations" \notin schema
               /\ schema' = schema \cup {"schema_migrations"} /\ GoesTo(p, "version", << >>)
<1>1. /\ proc \in [Processes -> Start] /\ proc[p] \in Start /\ proc[p].at = "create"
      /\ UNCHANGED <<version, users, stops>>
  BY DEF StartInv, StartTypes, CreateNext
<1>2. proc[p].todo \in {AfterIndex, AfterUsers, All}
  BY <1>1 DEF StartInv, StartOrder, PlaceIs, Start, Lists
<1> DEFINE d == Head(proc[p].todo)
           fails == d \in schema \/ (d = "username" /\ Twins)
           at == IF Len(proc[p].todo) = 1 THEN "version" ELSE "create"
           r == [proc[p] EXCEPT !.todo = Tail(@), !.at = at]
<1>3. CASE fails
  <2>1. Move(p, "dead") /\ UNCHANGED schema
    BY <1>3 DEF CreateNext
  <2>2. GoesTo(p, "dead", proc[p].todo)
    BY <2>1, MoveGoes DEF Stages, StartInv
  <2> QED
    BY <1>1, <1>2, <1>3, <2>1, <2>2, ListsAre DEF Creates
<1>4. CASE ~fails
  <2>1. schema' = schema \cup {d} /\ proc' = [proc EXCEPT ![p] = r]
    BY <1>4 DEF CreateNext
  <2>2. Tail(proc[p].todo) \in Lists /\ at \in Stages
    BY <1>2, ListsAre DEF Lists, Stages
  <2> HIDE DEF at
  <2>3. r \in Start /\ r.at = at /\ r.todo = Tail(proc[p].todo) /\ r.secret = proc[p].secret /\ (r.alone <=> proc[p].alone)
    BY <1>1, <2>2 DEF Start
  <2> HIDE DEF r
  <2>4. GoesTo(p, at, Tail(proc[p].todo))
    BY <1>1, <2>1, <2>3 DEF GoesTo
  <2> QED
    BY <1>1, <1>2, <1>4, <2>1, <2>4, ListsAre DEF Creates, at
<1> QED
  BY <1>3, <1>4

\* A start: the process, and the others, that are no longer alone.
LEMMA LaunchIs ==
  ASSUME StartInv, NEW p \in Processes, Launch(p)
  PROVE  /\ UNCHANGED <<schema, version, users, stops>> /\ proc[p].at = "off" /\ proc'[p].secret = "unset"
         /\ proc' \in [Processes -> Start]
         /\ \/ "users" \notin schema /\ Creates(p, All)'
            \/ "users" \in schema /\ "schema_migrations" \notin schema /\ Creates(p, AfterIndex)'
            \/ Tables \subseteq schema /\ proc'[p].at = "version"
         /\ proc'[p].alone <=> \A q \in Processes : ~Starting(q)
         /\ \A q \in Processes \ {p} : /\ proc'[q].at = proc[q].at /\ proc'[q].todo = proc[q].todo
                                       /\ proc'[q].secret = proc[q].secret
                                       /\ proc'[q].alone <=> (proc[q].alone /\ ~Starting(q))
<1>1. /\ proc \in [Processes -> Start] /\ proc[p].at = "off"
      /\ UNCHANGED <<schema, version, users, stops>>
  BY DEF StartInv, StartTypes, Launch
<1> DEFINE nobody == \A q \in Processes : ~Starting(q)
           at == IF Missing(p) = << >> THEN "version" ELSE "create"
           r == [at |-> at, todo |-> Missing(p), secret |-> "unset", alone |-> nobody]
           s(q) == [proc[q] EXCEPT !.alone = @ /\ ~Starting(q)]
<1>2. proc' = [q \in Processes |-> IF q = p THEN r ELSE s(q)]
  BY DEF Launch
<1>3. Missing(p) = IF "users" \notin schema THEN All
                   ELSE IF "schema_migrations" \notin schema THEN AfterIndex ELSE << >>
  BY MissingIs DEF StartInv
<1>4. Missing(p) \in Lists /\ at \in Stages /\ nobody \in BOOLEAN
  BY <1>3 DEF Lists, Stages
<1>5. at = IF Tables \subseteq schema THEN "version" ELSE "create"
  BY <1>3, ListsAre DEF Tables, StartInv, StartOrder, PlaceIs
<1> HIDE DEF at, nobody
<1>6. r \in Start /\ r.at = at /\ r.todo = Missing(p) /\ r.secret = "unset" /\ (r.alone <=> nobody)
  BY <1>4 DEF Start, Secrets
<1>7. ASSUME NEW q \in Processes
      PROVE  s(q) \in Start /\ s(q).at = proc[q].at /\ s(q).todo = proc[q].todo
             /\ s(q).secret = proc[q].secret /\ (s(q).alone <=> (proc[q].alone /\ ~Starting(q)))
  <2> DEFINE b == proc[q].alone /\ ~Starting(q)
  <2>1. proc[q] \in Start /\ b \in BOOLEAN
    BY <1>1
  <2> HIDE DEF b
  <2>2. /\ [proc[q] EXCEPT !.alone = b] \in Start
        /\ [proc[q] EXCEPT !.alone = b].at = proc[q].at
        /\ [proc[q] EXCEPT !.alone = b].todo = proc[q].todo
        /\ [proc[q] EXCEPT !.alone = b].secret = proc[q].secret
        /\ [proc[q] EXCEPT !.alone = b].alone = b
    BY <2>1 DEF Start
  <2>3. s(q) = [proc[q] EXCEPT !.alone = b]
    BY DEF b
  <2> QED
    BY <2>2, <2>3 DEF b
<1> HIDE DEF r, s
<1>8. /\ proc' \in [Processes -> Start]
      /\ proc'[p] = r /\ \A q \in Processes \ {p} : proc'[q] = s(q)
  BY <1>2, <1>6, <1>7
<1>9. \/ "users" \notin schema /\ Creates(p, All)'
      \/ "users" \in schema /\ "schema_migrations" \notin schema /\ Creates(p, AfterIndex)'
      \/ Tables \subseteq schema /\ proc'[p].at = "version"
  BY <1>3, <1>5, <1>6, <1>8 DEF Creates, Tables
<1> QED
  BY <1>1, <1>6, <1>7, <1>8, <1>9 DEF nobody

\* A process that is killed is as new.
LEMMA StopIs ==
  ASSUME StartTypes, NEW p \in Processes, StopProcess(p)
  PROVE  /\ UNCHANGED <<schema, version, users>> /\ stops' = stops + 1
         /\ proc[p].at # "off" /\ proc' \in [Processes -> Start]
         /\ proc'[p].at = "off" /\ proc'[p].secret = "unset"
         /\ \A q \in Processes \ {p} : proc'[q] = proc[q]
<1>1. /\ proc' = [proc EXCEPT ![p] = Idle] /\ proc \in [Processes -> Start]
      /\ UNCHANGED <<schema, version, users>> /\ stops' = stops + 1 /\ proc[p].at # "off"
  BY DEF StopProcess, StartTypes
<1>2. Idle.at = "off" /\ Idle.secret = "unset" /\ Idle \in Start
  BY DEF Idle, Start, Stages, Lists, Secrets
<1> QED
  BY <1>1, <1>2
\* What the other steps of a start do.
LEMMA MovesAre ==
  ASSUME StartTypes, NEW p \in Processes
  PROVE  /\ ReadVersion(p) =>
              /\ proc[p].at = "version" /\ UNCHANGED <<schema, version, users, stops>>
              /\ GoesTo(p, IF version THEN "admin" ELSE "record", proc[p].todo)
         /\ RecordVersion(p) =>
              /\ proc[p].at = "record" /\ version' /\ UNCHANGED <<schema, users, stops>>
              /\ version' \in BOOLEAN
              /\ GoesTo(p, IF version THEN "dead" ELSE "admin", proc[p].todo)
<1>1. {"admin", "record", "dead"} \subseteq Stages
  BY DEF Stages
<1>2. ASSUME ReadVersion(p)
      PROVE  /\ proc[p].at = "version" /\ UNCHANGED <<schema, version, users, stops>>
             /\ GoesTo(p, IF version THEN "admin" ELSE "record", proc[p].todo)
  BY <1>1, <1>2, MoveGoes DEF ReadVersion
<1>3. ASSUME RecordVersion(p)
      PROVE  /\ proc[p].at = "record" /\ version' /\ UNCHANGED <<schema, users, stops>>
             /\ version' \in BOOLEAN
             /\ GoesTo(p, IF version THEN "dead" ELSE "admin", proc[p].todo)
  BY <1>1, <1>3, MoveGoes DEF RecordVersion
<1> QED
  BY <1>2, <1>3

\* What the bootstrap reads.
LEMMA ReadIs ==
  ASSUME StartTypes, NEW p \in Processes, NEW w \in Secrets, ReadUsers(p, w)
  PROVE  /\ proc[p].at = "admin" /\ UNCHANGED <<schema, version, users, stops>>
         /\ proc' \in [Processes -> Start]
         /\ proc'[p].at = IF w # "unset" /\ users = << >> THEN "insert" ELSE "up"
         /\ proc'[p].secret = w /\ (proc'[p].alone <=> proc[p].alone)
         /\ \A q \in Processes \ {p} : proc'[q] = proc[q]
<1> DEFINE at == IF w # "unset" /\ users = << >> THEN "insert" ELSE "up"
           r == [proc[p] EXCEPT !.secret = w, !.at = at]
<1>1. /\ proc[p] \in Start /\ proc \in [Processes -> Start] /\ proc' = [proc EXCEPT ![p] = r]
      /\ proc[p].at = "admin" /\ UNCHANGED <<schema, version, users, stops>>
  BY DEF StartTypes, ReadUsers
<1>2. at \in Stages
  BY DEF Stages
<1> HIDE DEF at
<1>3. r \in Start /\ r.at = at /\ r.secret = w /\ (r.alone <=> proc[p].alone)
  BY <1>1, <1>2 DEF Start
<1> HIDE DEF r
<1>4. /\ proc' \in [Processes -> Start] /\ proc'[p] = r
      /\ \A q \in Processes \ {p} : proc'[q] = proc[q]
  BY <1>1, <1>3
<1> QED
  BY <1>1, <1>3, <1>4 DEF at

\* The row an admin is, and what a list of users is with one more.
LEMMA OneMoreUser ==
  ASSUME StartTypes, NEW n \in Names, NEW b \in BOOLEAN, users' = Append(users, [name |-> n, posted |-> b])
  PROVE  /\ users' \in Seq(UserRows) /\ users' # << >> /\ Len(users) \in Nat /\ Len(users') = Len(users) + 1
         /\ \A i \in 1 .. Len(users) : users'[i] = users[i]
         /\ users'[Len(users) + 1].name = n /\ users'[Len(users) + 1].posted = b
         /\ IF users = << >> THEN users'[1].posted = b ELSE users'[1] = users[1]
<1> DEFINE u == [name |-> n, posted |-> b]
<1>1. u \in UserRows /\ u.name = n /\ u.posted = b /\ users \in Seq(UserRows) /\ users' = Append(users, u)
  BY DEF UserRows, StartTypes
<1> HIDE DEF u
<1>2. /\ users' \in Seq(UserRows) /\ Len(users') = Len(users) + 1 /\ Len(users) \in Nat
      /\ users'[Len(users) + 1] = u /\ \A i \in 1 .. Len(users) : users'[i] = users[i]
  BY <1>1, AppendProperties
<1>3. users' # << >>
  BY <1>2
<1>4. users = << >> => Len(users) + 1 = 1
  OBVIOUS
<1>5. users # << >> => 1 \in 1 .. Len(users)
  <2>1. users # << >> => Len(users) # 0
    BY <1>1
  <2> QED
    BY <1>2, <2>1
<1>6. users = << >> => users'[1].posted = b
  BY <1>1, <1>2, <1>4
<1>7. users # << >> => users'[1] = users[1]
  BY <1>2, <1>5
<1> QED
  BY <1>1, <1>2, <1>3, <1>6, <1>7

\* A user is added by a process that serves, and changes no process.
LEMMA AddIs ==
  ASSUME NEW p \in Processes, NEW n \in Names, AddUser(p, n)
  PROVE  /\ proc[p].at = "up" /\ users # << >> /\ ~Refused(n) /\ UNCHANGED <<schema, version, proc, stops>>
         /\ users' = Append(users, [name |-> n, posted |-> TRUE])
  BY DEF AddUser

\* The end of a bootstrap: it fails, or there is one user more.
LEMMA InsertIs ==
  ASSUME StartTypes, NEW p \in Processes, NEW n \in Names, InsertAdmin(p, n)
  PROVE  /\ proc[p].at = "insert" /\ UNCHANGED <<schema, version, stops>>
         /\ \/ /\ proc[p].secret = "short" \/ Refused(n)
               /\ UNCHANGED users /\ GoesTo(p, "dead", proc[p].todo)
            \/ /\ ~Refused(n) /\ users' = Append(users, [name |-> n, posted |-> FALSE])
               /\ GoesTo(p, "up", proc[p].todo)
<1>1. {"dead", "up"} \subseteq Stages
  BY DEF Stages
<1> QED
  BY <1>1, MoveGoes DEF InsertAdmin

\* The name of a row, when the index has it unique.
LEMMA RefusedMeans ==
  ASSUME NEW n
  PROVE  Refused(n) => users # << >>
<1>1. users = << >> => Len(users) = 0
  OBVIOUS
<1> QED
  BY <1>1 DEF Refused

\* The parts of the invariant, one by one: the types,
LEMMA TypesStep == StartInv /\ StartupNext => StartTypes'
<1> SUFFICES ASSUME StartInv, NEW p \in Processes,
                    \/ CreateNext(p) \/ ReadVersion(p) \/ RecordVersion(p) \/ StopProcess(p) \/ Launch(p)
                    \/ \E w \in Secrets : ReadUsers(p, w)
                    \/ \E n \in Names : InsertAdmin(p, n) \/ AddUser(p, n)
             PROVE  StartTypes'
  BY DEF StartupNext
<1> USE DEF StartTypes, GoesTo
<1>0. StartTypes
  BY DEF StartInv
<1>1. CASE CreateNext(p)
  BY <1>0, <1>1, CreateIs
<1>2. CASE ReadVersion(p) \/ RecordVersion(p)
  BY <1>0, <1>2, MovesAre
<1>3. ASSUME NEW w \in Secrets, ReadUsers(p, w) PROVE StartTypes'
  BY <1>0, <1>3, ReadIs
<1>6. ASSUME NEW n \in Names, InsertAdmin(p, n) PROVE StartTypes'
  <2>1. users' \in Seq(UserRows) /\ proc' \in [Processes -> Start] /\ UNCHANGED <<schema, version, stops>>
    BY <1>0, <1>6, InsertIs, OneMoreUser
  <2> QED
    BY <1>0, <2>1
<1>7. ASSUME NEW n \in Names, AddUser(p, n) PROVE StartTypes'
  BY <1>0, <1>7, AddIs, OneMoreUser
<1>4. CASE StopProcess(p)
  <2>1. stops' = stops + 1 /\ UNCHANGED <<schema, version, users>> /\ proc' \in [Processes -> Start]
    BY <1>0, <1>4, StopIs
  <2>2. stops' \in Nat
    BY <1>0, <2>1
  <2> QED
    BY <1>0, <2>1, <2>2
<1>5. CASE Launch(p)
  BY <1>0, <1>5, LaunchIs
<1> QED
  BY <1>1, <1>2, <1>3, <1>4, <1>5, <1>6, <1>7

\* the order of what is there: a process that does not move has a place still,
LEMMA PlaceKept ==
  ASSUME NEW q \in Processes, PlaceIs(q), schema \subseteq schema', version => version',
         users # << >> => users' # << >>,
         proc'[q].at = proc[q].at, proc'[q].todo = proc[q].todo, proc'[q].secret = proc[q].secret
  PROVE  PlaceIs(q)'
  BY DEF PlaceIs, Creates

\* and every step keeps the order,
LEMMA OrderStep == StartInv /\ StartupNext => StartOrder'
<1> SUFFICES ASSUME StartInv, NEW p \in Processes,
                    \/ CreateNext(p) \/ ReadVersion(p) \/ RecordVersion(p) \/ StopProcess(p) \/ Launch(p)
                    \/ \E w \in Secrets : ReadUsers(p, w)
                    \/ \E n \in Names : InsertAdmin(p, n) \/ AddUser(p, n)
             PROVE  StartOrder'
  BY DEF StartupNext
<1> DEFINE Grows == schema \subseteq schema' /\ (version => version') /\ (users # << >> => users' # << >>)
           Others == \A q \in Processes \ {p} : /\ proc'[q].at = proc[q].at /\ proc'[q].todo = proc[q].todo
                                                /\ proc'[q].secret = proc[q].secret
           Sound == /\ {"username", "schema_migrations"} \cap schema' # {} => "users" \in schema'
                    /\ version' => Tables \subseteq schema'
                    /\ users' # << >> => version' /\ ~users'[1].posted
<1>0. /\ StartTypes /\ \A q \in Processes : PlaceIs(q)
      /\ {"username", "schema_migrations"} \cap schema # {} => "users" \in schema
      /\ version => Tables \subseteq schema
      /\ users # << >> => version /\ ~users[1].posted
  BY DEF StartInv, StartOrder
<1>a. ASSUME Grows, Others, Sound, PlaceIs(p)' PROVE StartOrder'
  <2>1. ASSUME NEW q \in Processes PROVE PlaceIs(q)'
    <3>1. CASE q = p
      BY <1>a, <3>1
    <3>2. CASE q # p
      BY <1>0, <1>a, <3>2, PlaceKept
    <3> QED
      BY <3>1, <3>2
  <2> QED
    BY <1>a, <2>1 DEF StartOrder
<1>b. ASSUME NEW at, NEW todo, GoesTo(p, at, todo) PROVE Others
  BY <1>b DEF GoesTo
<1>1. CASE CreateNext(p)
  <2>1. UNCHANGED <<version, users>> /\ proc[p].at = "create" /\ proc[p].secret = "unset"
    BY <1>0, <1>1, CreateIs DEF CreateNext, PlaceIs
  <2>2. Twins => "users" \in schema
    <3>1. users = << >> => Len(users) = 0
      OBVIOUS
    <3>2. Twins => users # << >>
      BY <3>1 DEF Twins
    <3> QED
      BY <1>0, <3>2 DEF Tables
  <2>3. CASE /\ GoesTo(p, "dead", proc[p].todo) /\ UNCHANGED schema
             /\ \/ Creates(p, All) /\ "users" \in schema
                \/ Creates(p, AfterUsers) /\ ("username" \in schema \/ Twins)
                \/ Creates(p, AfterIndex) /\ "schema_migrations" \in schema
    <3>1. "users" \in schema'
      BY <1>0, <2>2, <2>3
    <3>2. PlaceIs(p)'
      BY <2>3, <3>1 DEF GoesTo, PlaceIs, Creates
    <3> QED
      BY <1>0, <1>a, <1>b, <2>1, <2>3, <3>2
  <2>4. CASE /\ Creates(p, All) /\ "users" \notin schema /\ schema' = schema \cup {"users"}
             /\ GoesTo(p, "create", AfterUsers)
    <3>1. PlaceIs(p)'
      BY <2>1, <2>4, ListsAre DEF GoesTo, PlaceIs, Creates
    <3>2. Sound
      BY <1>0, <2>1, <2>4 DEF Tables
    <3> QED
      BY <1>a, <1>b, <2>1, <2>4, <3>1, <3>2
  <2>5. CASE /\ Creates(p, AfterUsers) /\ "username" \notin schema /\ ~Twins
             /\ schema' = schema \cup {"username"} /\ GoesTo(p, "create", AfterIndex)
    <3>1. "users" \in schema
      BY <1>0, <2>5 DEF PlaceIs
    <3>2. PlaceIs(p)'
      BY <2>1, <2>5, <3>1, ListsAre DEF GoesTo, PlaceIs, Creates
    <3>3. Sound
      BY <1>0, <2>1, <2>5, <3>1 DEF Tables
    <3> QED
      BY <1>a, <1>b, <2>1, <2>5, <3>2, <3>3
  <2>6. CASE /\ Creates(p, AfterIndex) /\ "schema_migrations" \notin schema
             /\ schema' = schema \cup {"schema_migrations"} /\ GoesTo(p, "version", << >>)
    <3>1. "users" \in schema
      BY <1>0, <2>6 DEF PlaceIs
    <3>2. PlaceIs(p)'
      BY <2>1, <2>6, <3>1, ListsAre DEF GoesTo, PlaceIs, Creates, Tables
    <3>3. Sound
      BY <1>0, <2>1, <2>6, <3>1 DEF Tables
    <3> QED
      BY <1>a, <1>b, <2>1, <2>6, <3>2, <3>3
  <2> QED
    BY <1>1, <2>3, <2>4, <2>5, <2>6, CreateIs
<1>2. CASE ReadVersion(p)
  <2>1. PlaceIs(p)'
    BY <1>0, <1>2, MovesAre DEF PlaceIs, GoesTo, Creates
  <2> QED
    BY <1>0, <1>2, <1>a, <1>b, <2>1, MovesAre
<1>3. CASE RecordVersion(p)
  <2>1. Tables \subseteq schema /\ version'
    BY <1>0, <1>3, MovesAre DEF PlaceIs
  <2>2. PlaceIs(p)'
    BY <1>0, <1>3, <2>1, MovesAre DEF PlaceIs, GoesTo, Creates, Tables
  <2> QED
    BY <1>0, <1>3, <1>a, <1>b, <2>1, <2>2, MovesAre
<1>4. ASSUME NEW w \in Secrets, ReadUsers(p, w) PROVE StartOrder'
  <2>1. PlaceIs(p)' /\ Others
    BY <1>0, <1>4, ReadIs DEF PlaceIs, Creates
  <2> QED
    BY <1>0, <1>4, <1>a, <2>1, ReadIs
<1>5. ASSUME NEW n \in Names, InsertAdmin(p, n) PROVE StartOrder'
  <2>1. proc[p].at = "insert" /\ UNCHANGED <<schema, version>> /\ version /\ Tables \subseteq schema
    BY <1>0, <1>5, InsertIs DEF PlaceIs
  <2>2. CASE UNCHANGED users /\ GoesTo(p, "dead", proc[p].todo)
    <3>1. PlaceIs(p)'
      BY <2>1, <2>2 DEF GoesTo, PlaceIs, Creates, Tables
    <3> QED
      BY <1>0, <1>a, <1>b, <2>1, <2>2, <3>1
  <2>3. CASE users' = Append(users, [name |-> n, posted |-> FALSE]) /\ GoesTo(p, "up", proc[p].todo)
    <3>1. users' # << >> /\ ~users'[1].posted
      BY <1>0, <2>3, OneMoreUser
    <3>2. PlaceIs(p)'
      BY <2>1, <2>3, <3>1 DEF GoesTo, PlaceIs, Creates, Tables
    <3> QED
      BY <1>0, <1>a, <1>b, <2>1, <2>3, <3>1, <3>2
  <2> QED
    BY <1>0, <1>5, <2>2, <2>3, InsertIs
<1>6. CASE StopProcess(p)
  <2>1. PlaceIs(p)' /\ Others
    BY <1>0, <1>6, StopIs DEF PlaceIs, Creates
  <2> QED
    BY <1>0, <1>6, <1>a, <2>1, StopIs
<1>7. CASE Launch(p)
  <2>1. UNCHANGED <<schema, version, users, stops>> /\ proc'[p].secret = "unset" /\ Others
    BY <1>7, LaunchIs
  <2>2. PlaceIs(p)'
    <3>1. \/ "users" \notin schema /\ Creates(p, All)'
          \/ "users" \in schema /\ "schema_migrations" \notin schema /\ Creates(p, AfterIndex)'
          \/ Tables \subseteq schema /\ proc'[p].at = "version"
      BY <1>7, LaunchIs
    <3> QED
      BY <2>1, <3>1, ListsAre DEF PlaceIs, Creates, Tables
  <2> QED
    BY <1>0, <1>a, <2>1, <2>2
<1>8. ASSUME NEW n \in Names, AddUser(p, n) PROVE StartOrder'
  <2>1. users' # << >> /\ users'[1] = users[1]
    BY <1>0, <1>8, AddIs, OneMoreUser
  <2>2. UNCHANGED <<schema, version, proc>> /\ users # << >>
    BY <1>8, AddIs
  <2>3. PlaceIs(p)'
    BY <1>0, <2>1, <2>2, PlaceKept
  <2> QED
    BY <1>0, <1>a, <2>1, <2>2, <2>3
<1> QED
  BY <1>1, <1>2, <1>3, <1>4, <1>5, <1>6, <1>7, <1>8

\* a start that is alone,
LEMMA AloneStep == StartInv /\ StartupNext => AloneIsSafe'
<1> SUFFICES ASSUME StartInv, NEW p \in Processes,
                    \/ CreateNext(p) \/ ReadVersion(p) \/ RecordVersion(p) \/ StopProcess(p) \/ Launch(p)
                    \/ \E w \in Secrets : ReadUsers(p, w)
                    \/ \E n \in Names : InsertAdmin(p, n) \/ AddUser(p, n)
             PROVE  AloneIsSafe'
  BY DEF StartupNext
<1>0. StartTypes /\ StartOrder /\ AloneIsSafe
  BY DEF StartInv
<1> USE DEF AloneIsSafe, GoesTo, Creates, Starting
<1>1. CASE CreateNext(p)
  <2>1. Twins => "users" \in schema /\ "schema_migrations" \in schema
    <3>1. users = << >> => Len(users) = 0
      OBVIOUS
    <3> QED
      BY <1>0, <3>1 DEF Twins, StartOrder, Tables
  <2>2. {"username", "schema_migrations"} \cap schema # {} => "users" \in schema
    BY <1>0 DEF StartOrder, PlaceIs
  <2>3. UNCHANGED <<version, users>> /\ proc[p].at = "create"
    BY <1>1, CreateIs DEF CreateNext
  <2>4. CASE /\ GoesTo(p, "dead", proc[p].todo) /\ UNCHANGED schema
             /\ \/ Creates(p, All) /\ "users" \in schema
                \/ Creates(p, AfterUsers) /\ ("username" \in schema \/ Twins)
                \/ Creates(p, AfterIndex) /\ "schema_migrations" \in schema
    <3>1. ~proc[p].alone
      BY <1>0, <2>1, <2>4
    <3> QED
      BY <1>0, <2>3, <2>4, <3>1
  <2>5. CASE /\ Creates(p, All) /\ "users" \notin schema /\ schema' = schema \cup {"users"}
             /\ GoesTo(p, "create", AfterUsers)
    BY <1>0, <2>2, <2>3, <2>5, ListsAre
  <2>6. CASE /\ Creates(p, AfterUsers) /\ "username" \notin schema /\ ~Twins
             /\ schema' = schema \cup {"username"} /\ GoesTo(p, "create", AfterIndex)
    BY <1>0, <2>3, <2>6, ListsAre
  <2>7. CASE /\ Creates(p, AfterIndex) /\ "schema_migrations" \notin schema
             /\ schema' = schema \cup {"schema_migrations"} /\ GoesTo(p, "version", << >>)
    BY <1>0, <2>3, <2>7, ListsAre
  <2> QED
    BY <1>1, <2>4, <2>5, <2>6, <2>7, CreateIs
<1>2. CASE ReadVersion(p)
  BY <1>0, <1>2, MovesAre
<1>3. CASE RecordVersion(p)
  BY <1>0, <1>3, MovesAre
<1>4. ASSUME NEW w \in Secrets, ReadUsers(p, w) PROVE AloneIsSafe'
  BY <1>0, <1>4, ReadIs
<1>5. ASSUME NEW n \in Names, InsertAdmin(p, n) PROVE AloneIsSafe'
  <2>1. (Refused(n) => users # << >>) /\ version /\ proc[p].at = "insert" /\ UNCHANGED <<schema, version>>
    BY <1>0, <1>5, RefusedMeans, InsertIs DEF StartOrder, PlaceIs
  <2>2. CASE (proc[p].secret = "short" \/ Refused(n)) /\ UNCHANGED users /\ GoesTo(p, "dead", proc[p].todo)
    BY <1>0, <2>1, <2>2
  <2>3. CASE GoesTo(p, "up", proc[p].todo)
    BY <1>0, <2>1, <2>3
  <2> QED
    BY <1>0, <1>5, <2>2, <2>3, InsertIs
<1>6. CASE StopProcess(p)
  BY <1>0, <1>6, StopIs
<1>8. ASSUME NEW n \in Names, AddUser(p, n) PROVE AloneIsSafe'
  <2>1. UNCHANGED <<schema, version, proc>> /\ users # << >>
    BY <1>8, AddIs
  <2>2. \A q \in Processes : proc[q].alone => proc[q].at # "insert"
    BY <1>0, <2>1
  <2> QED
    BY <1>0, <2>1, <2>2
<1>7. CASE Launch(p)
  <2>1. /\ UNCHANGED <<schema, version, users>> /\ proc[p].at = "off"
        /\ \/ "users" \notin schema /\ Creates(p, All)'
           \/ "users" \in schema /\ "schema_migrations" \notin schema /\ Creates(p, AfterIndex)'
           \/ Tables \subseteq schema /\ proc'[p].at = "version"
        /\ proc'[p].alone <=> \A q \in Processes : ~Starting(q)
        /\ \A q \in Processes \ {p} : /\ proc'[q].at = proc[q].at /\ proc'[q].todo = proc[q].todo
                                      /\ proc'[q].secret = proc[q].secret
                                      /\ proc'[q].alone <=> (proc[q].alone /\ ~Starting(q))
    BY <1>7, LaunchIs
  <2>2. ASSUME NEW q \in Processes, proc'[q].alone
        PROVE  /\ proc'[q].at = "dead" => proc'[q].secret = "short" /\ version'
               /\ Starting(q)' => \A r \in Processes : r # q => ~Starting(r)'
               /\ Creates(q, All)' => "users" \notin schema'
               /\ Creates(q, AfterUsers)' => "username" \notin schema' /\ "schema_migrations" \notin schema'
               /\ Creates(q, AfterIndex)' => "schema_migrations" \notin schema'
               /\ proc'[q].at = "record" => ~version'
               /\ proc'[q].at = "insert" => users' = << >>
    <3>1. CASE q = p
      <4>1. \A r \in Processes : ~Starting(r)
        BY <2>1, <2>2, <3>1
      <4>2. \A r \in Processes : r # p => ~Starting(r)'
        BY <2>1, <4>1
      <4> QED
        BY <2>1, <3>1, <4>2, ListsAre
    <3>2. CASE q # p
      <4>1. /\ proc[q].alone /\ ~Starting(q) /\ proc'[q].at = proc[q].at
            /\ proc'[q].secret = proc[q].secret /\ version' = version
        BY <2>1, <2>2, <3>2
      <4>2. ~Starting(q)' /\ (proc[q].at = "dead" => proc[q].secret = "short" /\ version)
        BY <1>0, <4>1
      <4> QED
        BY <4>1, <4>2
    <3> QED
      BY <3>1, <3>2
  <2> QED
    BY <2>2
<1> QED
  BY <1>1, <1>2, <1>3, <1>4, <1>5, <1>6, <1>7, <1>8

\* and the process that goes on with what is half made.
LEMMA MakerStep == StartInv /\ StartupNext => MakerGoesOn'
<1> SUFFICES ASSUME StartInv, NEW p \in Processes,
                    \/ CreateNext(p) \/ ReadVersion(p) \/ RecordVersion(p) \/ StopProcess(p) \/ Launch(p)
                    \/ \E w \in Secrets : ReadUsers(p, w)
                    \/ \E n \in Names : InsertAdmin(p, n) \/ AddUser(p, n),
                    Willing'
             PROVE  MakerGoesOn'
  BY DEF StartupNext, MakerGoesOn
<1>0. StartTypes /\ StartOrder /\ stops \in Nat /\ stops' = 0
      /\ \A q \in Processes : proc'[q].secret # "short"
  BY DEF StartInv, StartTypes, Willing
<1>W. MakerGoesOn /\ Willing
  <2>1. stops = 0
    <3>1. StopProcess(p) => stops' = stops + 1
      BY <1>0, StopIs
    <3>2. stops' = stops \/ StopProcess(p)
      BY DEF CreateNext, ReadVersion, RecordVersion, Launch, ReadUsers, InsertAdmin, AddUser
    <3> QED
      BY <1>0, <3>1, <3>2
  <2>2. ASSUME NEW q \in Processes PROVE proc[q].secret # "short"
    <3>1. CASE proc[q].at \in {"off", "create", "version", "record", "admin"}
      BY <1>0, <3>1 DEF StartOrder, PlaceIs
    <3>2. CASE proc[q].at \notin {"off", "create", "version", "record", "admin"}
      <4>1. CASE CreateNext(p)
        BY <1>0, <4>1, CreateIs DEF GoesTo
      <4>2. CASE ReadVersion(p) \/ RecordVersion(p)
        BY <1>0, <4>2, MovesAre DEF GoesTo
      <4>3. CASE StopProcess(p)
        BY <1>0, <2>1, <4>3, StopIs
      <4>4. CASE Launch(p)
        BY <1>0, <3>2, <4>4, LaunchIs
      <4>5. ASSUME NEW w \in Secrets, ReadUsers(p, w) PROVE proc[q].secret # "short"
        BY <1>0, <3>2, <4>5, ReadIs
      <4>6. ASSUME NEW n \in Names, InsertAdmin(p, n) PROVE proc[q].secret # "short"
        BY <1>0, <4>6, InsertIs DEF GoesTo
      <4>7. ASSUME NEW n \in Names, AddUser(p, n) PROVE proc[q].secret # "short"
        BY <1>0, <4>7, AddIs
      <4> QED
        BY <4>1, <4>2, <4>3, <4>4, <4>5, <4>6, <4>7
    <3> QED
      BY <3>1, <3>2
  <2> QED
    BY <2>1, <2>2 DEF StartInv, Willing
<1>M. /\ users # << >> => \E q \in Processes : proc[q].at = "up"
      /\ version /\ users = << >> => \E q \in Processes : proc[q].at \in {"admin", "insert", "up"}
      /\ ~version /\ "schema_migrations" \in schema => \E q \in Processes : proc[q].at \in {"version", "record"}
      /\ "schema_migrations" \notin schema /\ "username" \in schema => \E q \in Processes : Creates(q, AfterIndex)
      /\ schema = {"users"} => \E q \in Processes : Creates(q, AfterUsers)
  BY <1>W DEF MakerGoesOn
<1> SUFFICES
      /\ users' # << >> => \E q \in Processes : proc'[q].at = "up"
      /\ version' /\ users' = << >> => \E q \in Processes : proc'[q].at \in {"admin", "insert", "up"}
      /\ ~version' /\ "schema_migrations" \in schema' => \E q \in Processes : proc'[q].at \in {"version", "record"}
      /\ "schema_migrations" \notin schema' /\ "username" \in schema' => \E q \in Processes : Creates(q, AfterIndex)'
      /\ schema' = {"users"} => \E q \in Processes : Creates(q, AfterUsers)'
  BY DEF MakerGoesOn
<1> DEFINE Goal ==
      /\ users' # << >> => \E q \in Processes : proc'[q].at = "up"
      /\ version' /\ users' = << >> => \E q \in Processes : proc'[q].at \in {"admin", "insert", "up"}
      /\ ~version' /\ "schema_migrations" \in schema' => \E q \in Processes : proc'[q].at \in {"version", "record"}
      /\ "schema_migrations" \notin schema' /\ "username" \in schema' => \E q \in Processes : Creates(q, AfterIndex)'
      /\ schema' = {"users"} => \E q \in Processes : Creates(q, AfterUsers)'
<1> USE DEF GoesTo, Creates
<1>1. CASE CreateNext(p)
  <2>1. users # << >> => "schema_migrations" \in schema
    BY <1>0 DEF StartOrder, PlaceIs, Tables
  <2>2. {"username", "schema_migrations"} \cap schema # {} => "users" \in schema
    BY <1>0 DEF StartOrder, PlaceIs
  <2>3. Twins => users # << >>
    <3>1. users = << >> => Len(users) = 0
      OBVIOUS
    <3> QED
      BY <3>1 DEF Twins
  <2>4. version => "schema_migrations" \in schema
    BY <1>0 DEF StartOrder, PlaceIs, Tables
  <2>5. UNCHANGED <<version, users, stops>> /\ schema \in SUBSET {"users", "username", "schema_migrations"}
    BY <1>0, <1>1, CreateIs DEF StartTypes
  <2>6. CASE GoesTo(p, "dead", proc[p].todo) /\ UNCHANGED schema /\ Creates(p, All) /\ "users" \in schema
    <3>1. ASSUME NEW q \in Processes, ~Creates(q, All)
          PROVE  proc'[q] = proc[q]
      BY <2>6, <3>1
    <3>2. \A q \in Processes : proc[q].at # "create" => ~Creates(q, All)
      OBVIOUS
    <3>3. \A q \in Processes : Creates(q, AfterIndex) \/ Creates(q, AfterUsers) => ~Creates(q, All)
      BY ListsAre
    <3>4. schema' = schema /\ users' = users /\ version' = version
      BY <2>5, <2>6
    <3> QED
      BY <1>M, <3>1, <3>2, <3>3, <3>4
  <2>7. CASE /\ GoesTo(p, "dead", proc[p].todo) /\ UNCHANGED schema /\ Creates(p, AfterUsers)
             /\ "username" \in schema \/ Twins
    <3>1. schema # {"users"}
      BY <2>1, <2>3, <2>7
    <3> QED
      <4>1. ASSUME NEW q \in Processes, Creates(q, AfterIndex) \/ proc[q].at # "create"
            PROVE  proc'[q] = proc[q]
        BY <2>7, <4>1, ListsAre
      <4> QED
        BY <1>M, <2>5, <2>7, <3>1, <4>1
  <2>8. CASE /\ GoesTo(p, "dead", proc[p].todo) /\ UNCHANGED schema /\ Creates(p, AfterIndex)
             /\ "schema_migrations" \in schema
    <3>1. ASSUME NEW q \in Processes, Creates(q, AfterUsers) \/ proc[q].at # "create"
          PROVE  proc'[q] = proc[q]
      BY <2>8, <3>1, ListsAre
    <3>2. schema' = schema /\ version' = version /\ users' = users /\ schema # {"users"}
      BY <2>5, <2>8
    <3> QED
      BY <1>M, <2>8, <3>1, <3>2
  <2>9. CASE /\ Creates(p, All) /\ "users" \notin schema /\ schema' = schema \cup {"users"}
             /\ GoesTo(p, "create", AfterUsers)
    <3>1. "schema_migrations" \notin schema' /\ "username" \notin schema' /\ users = << >> /\ ~version
      BY <2>1, <2>2, <2>4, <2>9
    <3> QED
      BY <2>5, <2>9, <3>1
  <2>10. CASE /\ Creates(p, AfterUsers) /\ "username" \notin schema /\ ~Twins
              /\ schema' = schema \cup {"username"} /\ GoesTo(p, "create", AfterIndex)
    <3>1. schema' # {"users"} /\ proc[p].at = "create"
      BY <2>10
    <3> QED
      BY <1>M, <2>4, <2>5, <2>10, <3>1
  <2>11. CASE /\ Creates(p, AfterIndex) /\ "schema_migrations" \notin schema
              /\ schema' = schema \cup {"schema_migrations"} /\ GoesTo(p, "version", << >>)
    <3>1. users = << >> /\ ~version
      BY <2>1, <2>4, <2>11
    <3> QED
      BY <2>5, <2>11, <3>1
  <2> QED
    BY <1>1, <2>6, <2>7, <2>8, <2>9, <2>10, <2>11, CreateIs
<1>2. CASE ReadVersion(p)
  BY <1>0, <1>M, <1>2, MovesAre
<1>3. CASE RecordVersion(p)
  BY <1>0, <1>M, <1>3, MovesAre
<1>4. ASSUME NEW w \in Secrets, ReadUsers(p, w) PROVE Goal
  BY <1>0, <1>M, <1>4, ReadIs
<1>5. ASSUME NEW n \in Names, InsertAdmin(p, n) PROVE Goal
  <2>1. (Refused(n) => users # << >>) /\ proc[p].at = "insert" /\ UNCHANGED <<schema, version, stops>>
    BY <1>0, <1>5, RefusedMeans, InsertIs
  <2>2. version /\ Tables \subseteq schema
    BY <1>0, <2>1 DEF StartOrder, PlaceIs
  <2>3. CASE (proc[p].secret = "short" \/ Refused(n)) /\ UNCHANGED users /\ GoesTo(p, "dead", proc[p].todo)
    <3>1. users # << >> /\ users' = users
      BY <1>W, <2>1, <2>3 DEF Willing
    <3>2. PICK q \in Processes : proc[q].at = "up"
      BY <1>M, <3>1
    <3>3. proc'[q].at = "up"
      BY <2>1, <2>3, <3>2
    <3> QED
      BY <2>1, <2>2, <3>1, <3>3 DEF Tables
  <2>4. CASE users' = Append(users, [name |-> n, posted |-> FALSE]) /\ GoesTo(p, "up", proc[p].todo)
    <3>1. users' # << >> /\ proc'[p].at = "up"
      BY <1>0, <2>4, OneMoreUser
    <3> QED
      BY <2>1, <2>2, <3>1 DEF Tables
  <2> QED
    BY <1>0, <1>5, <2>3, <2>4, InsertIs
<1>6. CASE StopProcess(p)
  BY <1>0, <1>6, StopIs
<1>7. CASE Launch(p)
  BY <1>0, <1>M, <1>7, LaunchIs
<1>8. ASSUME NEW n \in Names, AddUser(p, n) PROVE Goal
  <2>1. users' # << >>
    BY <1>0, <1>8, AddIs, OneMoreUser
  <2> QED
    BY <1>0, <1>M, <1>8, <2>1, AddIs
<1> QED
  BY <1>1, <1>2, <1>3, <1>4, <1>5, <1>6, <1>7, <1>8

\* Every process that may insert a user was launched, after the table was made.
LEMMA MayInsertIsLaunched ==
  ASSUME StartInv
  PROVE  /\ MayInsert \subseteq Launched
         /\ IsFiniteSet(MayInsert) /\ Cardinality(MayInsert) \in Nat /\ Cardinality(Launched) \in Nat
         /\ "users" \notin schema => MayInsert = {} /\ users = << >> /\ Booted = {}
<1>1. MayInsert \subseteq Launched
  BY DEF MayInsert, Launched, Creates
<1>2. IsFiniteSet(Launched)
  BY DEF StartInv, StartsAreCounted
<1>3. IsFiniteSet(MayInsert)
  BY <1>1, <1>2, FS_Subset
<1>4. "users" \notin schema => MayInsert = {} /\ users = << >>
  BY DEF StartInv, StartOrder, PlaceIs, MayInsert, Tables, Creates
<1>5. users = << >> => Booted = {}
  <2>1. users = << >> => Len(users) = 0
    OBVIOUS
  <2> QED
    BY <2>1 DEF Booted
<1> QED
  BY <1>1, <1>2, <1>3, <1>4, <1>5, FS_CardinalityType

\* The index holds no twins: a name that it does not refuse is a new one.
LEMMA NoMoreTwins ==
  ASSUME StartTypes, "username" \in schema, ~Twins, NEW n \in Names, NEW b \in BOOLEAN, ~Refused(n),
         users' = Append(users, [name |-> n, posted |-> b])
  PROVE  ~Twins'
<1> DEFINE k == Len(users)
<1>1. /\ k \in Nat /\ Len(users') = k + 1 /\ users'[k + 1].name = n
      /\ \A i \in 1 .. k : users'[i] = users[i]
  BY OneMoreUser
<1>2. \A i \in 1 .. k : users[i].name # n
  BY DEF Refused
<1>3. \A i, j \in 1 .. k : i # j => users[i].name # users[j].name
  BY DEF Twins
<1> HIDE DEF k
<1>4. \A i \in 1 .. k + 1 : i \in 1 .. k \/ i = k + 1
  BY <1>1
<1>5. ASSUME NEW i \in 1 .. k + 1, NEW j \in 1 .. k + 1, i # j
      PROVE  users'[i].name # users'[j].name
  BY <1>1, <1>2, <1>3, <1>4, <1>5
<1> QED
  BY <1>1, <1>5 DEF Twins

\* A step of a process that goes on, makes no user, and creates none of the
\* first two things.
LEMMA SameStartsAreCounted ==
  ASSUME StartInv, Launched' = Launched, MayInsert' \subseteq MayInsert, UNCHANGED <<users, stops>>,
         "users" \in schema' <=> "users" \in schema, "username" \in schema' <=> "username" \in schema
  PROVE  StartsAreCounted'
<1>1. StartsAreCounted /\ IsFiniteSet(MayInsert) /\ Cardinality(MayInsert) \in Nat /\ Cardinality(Launched) \in Nat
  BY MayInsertIsLaunched DEF StartInv
<1>2. IsFiniteSet(MayInsert') /\ Cardinality(MayInsert') <= Cardinality(MayInsert) /\ Cardinality(MayInsert') \in Nat
  BY <1>1, FS_Subset, FS_CardinalityType
<1>3. Twins' <=> Twins
  BY DEF Twins
<1>6. Booted' = Booted
  BY DEF Booted
<1>4. stops \in Nat
  BY DEF StartInv, StartTypes
<1>5. ASSUME "users" \in schema, "username" \notin schema
      PROVE  Cardinality(Booted') + Cardinality(MayInsert') + 1 <= Cardinality(Launched') + stops'
  <2>1. /\ Cardinality(Booted) + Cardinality(MayInsert) + 1 <= Cardinality(Launched) + stops
        /\ Cardinality(Booted) \in Nat
    BY <1>1, <1>5, FS_CardinalityType DEF StartsAreCounted
  <2> QED
    BY <1>1, <1>2, <1>4, <1>6, <2>1
<1> QED
  BY <1>1, <1>3, <1>5, <1>6 DEF StartsAreCounted

\* Where a step of GoesTo leads from one place of a start to another, the
\* process stays launched.
LEMMA GoesStaysLaunched ==
  ASSUME NEW p \in Processes, NEW at, NEW todo, GoesTo(p, at, todo), at # "off", proc[p].at # "off"
  PROVE  Launched' = Launched
  BY DEF Launched, GoesTo

\* The count of the starts is kept by a statement of create_all,
LEMMA CreateKeepsCount ==
  ASSUME StartInv, NEW p \in Processes, CreateNext(p)
  PROVE  StartsAreCounted'
<1>1. proc[p].at = "create" /\ UNCHANGED <<version, users, stops>>
  BY CreateIs DEF CreateNext
<1>2. CASE GoesTo(p, "dead", proc[p].todo) /\ UNCHANGED schema
  <2>1. Launched' = Launched
    BY <1>1, <1>2, GoesStaysLaunched
  <2>2. MayInsert' \subseteq MayInsert
    BY <1>2 DEF MayInsert, GoesTo, Creates
  <2> QED
    BY <1>1, <1>2, <2>1, <2>2, SameStartsAreCounted
<1>3. CASE /\ Creates(p, All) /\ "users" \notin schema /\ schema' = schema \cup {"users"}
           /\ GoesTo(p, "create", AfterUsers)
  <2>1. Launched' = Launched /\ p \in Launched
    BY <1>1, <1>3, GoesStaysLaunched DEF Launched
  <2>2. MayInsert = {} /\ users = << >> /\ Booted = {}
    BY <1>3, MayInsertIsLaunched
  <2>3. MayInsert' = {} /\ Booted' = {}
    BY <1>1, <1>3, <2>2, ListsAre DEF MayInsert, GoesTo, Creates, Booted
  <2>4. IsFiniteSet(Launched) /\ Cardinality(Launched) \in Nat /\ Cardinality(Launched) # 0
    BY <2>1, FS_EmptySet, FS_CardinalityType DEF StartInv, StartsAreCounted
  <2>5. stops \in Nat /\ stops' = stops
    BY <1>1 DEF StartInv, StartTypes
  <2>6. Cardinality(Booted') + Cardinality(MayInsert') + 1 <= Cardinality(Launched') + stops'
    BY <2>1, <2>3, <2>4, <2>5, FS_EmptySet
  <2>7. IsFiniteSet(Booted') /\ ~Twins'
    <3>1. users' = << >> /\ Len(<< >>) = 0
      BY <1>1, <2>2
    <3> QED
      BY <2>3, <3>1, FS_EmptySet DEF Twins
  <2> QED
    BY <2>1, <2>4, <2>6, <2>7 DEF StartsAreCounted
<1>4. CASE /\ Creates(p, AfterUsers) /\ "username" \notin schema /\ ~Twins
           /\ schema' = schema \cup {"username"} /\ GoesTo(p, "create", AfterIndex)
  <2>1. Launched' = Launched
    BY <1>1, <1>4, GoesStaysLaunched
  <2>2. ~Twins'
    BY <1>1, <1>4 DEF Twins
  <2> QED
    BY <1>4, <2>1, <2>2 DEF StartInv, StartsAreCounted
<1>5. CASE /\ Creates(p, AfterIndex) /\ schema' = schema \cup {"schema_migrations"}
           /\ GoesTo(p, "version", << >>)
  <2>1. Launched' = Launched
    BY <1>1, <1>5, GoesStaysLaunched
  <2>2. MayInsert' \subseteq MayInsert
    BY <1>5 DEF MayInsert, GoesTo, Creates
  <2> QED
    BY <1>1, <1>5, <2>1, <2>2, SameStartsAreCounted
<1> QED
  BY <1>2, <1>3, <1>4, <1>5, CreateIs

\* by the reads and the record of the version,
LEMMA MovesKeepCount ==
  ASSUME StartInv, NEW p \in Processes, ReadVersion(p) \/ RecordVersion(p)
  PROVE  StartsAreCounted'
<1>1. StartTypes
  BY DEF StartInv
<1>2. PICK at \in {"admin", "record", "dead"} : GoesTo(p, at, proc[p].todo)
  BY <1>1, MovesAre
<1>3. proc[p].at \in {"version", "record"} /\ UNCHANGED <<schema, users, stops>>
  BY <1>1, MovesAre
<1>4. Launched' = Launched
  BY <1>2, <1>3, GoesStaysLaunched
<1>5. MayInsert' \subseteq MayInsert
  BY <1>2, <1>3 DEF MayInsert, GoesTo, Creates
<1> QED
  BY <1>3, <1>4, <1>5, SameStartsAreCounted

\* by what the bootstrap reads,
LEMMA ReadKeepsCount ==
  ASSUME StartInv, NEW p \in Processes, NEW w \in Secrets, ReadUsers(p, w)
  PROVE  StartsAreCounted'
<1>1. /\ proc[p].at = "admin" /\ UNCHANGED <<schema, users, stops>> /\ proc'[p].at \in {"insert", "up"}
      /\ \A q \in Processes \ {p} : proc'[q] = proc[q]
  BY ReadIs DEF StartInv
<1>2. Launched' = Launched /\ MayInsert' \subseteq MayInsert
  BY <1>1 DEF Launched, MayInsert, Creates
<1> QED
  BY <1>1, <1>2, SameStartsAreCounted

\* by the insert of the administrator,
LEMMA InsertKeepsCount ==
  ASSUME StartInv, NEW p \in Processes, NEW n \in Names, InsertAdmin(p, n)
  PROVE  StartsAreCounted'
<1>1. StartTypes /\ StartOrder /\ StartsAreCounted
  BY DEF StartInv
<1>2. /\ proc[p].at = "insert" /\ UNCHANGED <<schema, version, stops>>
      /\ \/ UNCHANGED users /\ GoesTo(p, "dead", proc[p].todo)
         \/ /\ ~Refused(n) /\ users' = Append(users, [name |-> n, posted |-> FALSE])
            /\ GoesTo(p, "up", proc[p].todo)
  BY <1>1, InsertIs
<1>3. Launched' = Launched
  BY <1>2, GoesStaysLaunched
<1>4. MayInsert' = MayInsert \ {p} /\ p \in MayInsert
  BY <1>2 DEF MayInsert, GoesTo, Creates
<1>5. CASE UNCHANGED users
  BY <1>2, <1>3, <1>4, <1>5, SameStartsAreCounted
<1>6. CASE ~Refused(n) /\ users' = Append(users, [name |-> n, posted |-> FALSE])
  <2> DEFINE k == Len(users) + 1
  <2>1. Booted' = Booted \cup {k}
    <3>1. /\ Len(users) \in Nat /\ Len(users') = Len(users) + 1 /\ ~users'[Len(users) + 1].posted
          /\ \A i \in 1 .. Len(users) : users'[i] = users[i]
      BY <1>1, <1>6, OneMoreUser
    <3>2. 1 .. Len(users') = (1 .. Len(users)) \cup {k} /\ k \notin 1 .. Len(users)
      BY <3>1
    <3> HIDE DEF k
    <3>3. ~users'[k].posted
      BY <3>1 DEF k
    <3> QED
      BY <3>1, <3>2, <3>3 DEF Booted
  <2> HIDE DEF k
  <2>2. ASSUME "username" \in schema PROVE ~Twins'
    BY <1>1, <1>6, <2>2, NoMoreTwins DEF StartsAreCounted
  <2>3. ASSUME "users" \in schema, "username" \notin schema
        PROVE  /\ IsFiniteSet(Booted')
               /\ Cardinality(Booted') + Cardinality(MayInsert') + 1 <= Cardinality(Launched') + stops'
    <3>1. /\ IsFiniteSet(Booted) /\ Cardinality(Booted) \in Nat
          /\ Cardinality(Booted) + Cardinality(MayInsert) + 1 <= Cardinality(Launched) + stops
      BY <1>1, <2>3, FS_CardinalityType DEF StartsAreCounted
    <3>2. IsFiniteSet(Booted') /\ Cardinality(Booted') <= Cardinality(Booted) + 1 /\ Cardinality(Booted') \in Nat
      <4>1. IsFiniteSet(Booted') /\ Cardinality(Booted') = IF k \in Booted THEN Cardinality(Booted) ELSE Cardinality(Booted) + 1
        BY <2>1, <3>1, FS_AddElement
      <4> QED
        BY <3>1, <4>1
    <3>3. Cardinality(MayInsert') = Cardinality(MayInsert) - 1 /\ Cardinality(MayInsert) \in Nat /\ Cardinality(Launched) \in Nat
      BY <1>4, MayInsertIsLaunched, FS_RemoveElement
    <3>4. stops \in Nat /\ stops' = stops
      BY <1>1, <1>2 DEF StartTypes
    <3>5. Cardinality(Booted') + Cardinality(MayInsert') + 1 <= Cardinality(Launched) + stops
      BY <3>1, <3>2, <3>3, <3>4
    <3> QED
      BY <1>3, <3>2, <3>4, <3>5
  <2> QED
    BY <1>1, <1>2, <1>3, <2>2, <2>3 DEF StartsAreCounted
<1> QED
  BY <1>2, <1>5, <1>6

\* by a user that an admin adds,
LEMMA AddUserKeepsCount ==
  ASSUME StartInv, NEW p \in Processes, NEW n \in Names, AddUser(p, n)
  PROVE  StartsAreCounted'
<1>1. StartTypes /\ StartsAreCounted
  BY DEF StartInv
<1>2. /\ ~Refused(n) /\ UNCHANGED <<schema, proc, stops>>
      /\ users' = Append(users, [name |-> n, posted |-> TRUE])
  BY AddIs
<1>3. Launched' = Launched /\ MayInsert' = MayInsert
  BY <1>2 DEF Launched, MayInsert, Creates
<1>4. Booted' = Booted
  <2> DEFINE k == Len(users) + 1
  <2>1. /\ Len(users) \in Nat /\ Len(users') = Len(users) + 1 /\ users'[Len(users) + 1].posted
        /\ \A i \in 1 .. Len(users) : users'[i] = users[i]
    BY <1>1, <1>2, OneMoreUser
  <2>2. 1 .. Len(users') = (1 .. Len(users)) \cup {k}
    BY <2>1
  <2> HIDE DEF k
  <2>3. users'[k].posted
    BY <2>1 DEF k
  <2> QED
    BY <2>1, <2>2, <2>3 DEF Booted
<1>5. "username" \in schema => ~Twins'
  BY <1>1, <1>2, NoMoreTwins DEF StartsAreCounted
<1> QED
  BY <1>1, <1>2, <1>3, <1>4, <1>5 DEF StartsAreCounted

\* by a stop,
LEMMA StopKeepsCount ==
  ASSUME StartInv, NEW p \in Processes, StopProcess(p)
  PROVE  StartsAreCounted'
<1>1. StartTypes /\ StartsAreCounted
  BY DEF StartInv
<1>2. /\ UNCHANGED <<schema, users>> /\ stops' = stops + 1 /\ stops \in Nat
      /\ proc[p].at # "off" /\ proc'[p].at = "off" /\ \A q \in Processes \ {p} : proc'[q] = proc[q]
  BY <1>1, StopIs DEF StartTypes
<1>3. Launched' = Launched \ {p} /\ p \in Launched /\ MayInsert' \subseteq MayInsert
  BY <1>2 DEF Launched, MayInsert, Creates
<1>4. /\ IsFiniteSet(Launched') /\ Cardinality(Launched') = Cardinality(Launched) - 1
      /\ Cardinality(Launched) \in Nat
  BY <1>1, <1>3, FS_RemoveElement, FS_CardinalityType DEF StartsAreCounted
<1>5. Cardinality(MayInsert') <= Cardinality(MayInsert) /\ Cardinality(MayInsert') \in Nat /\ Cardinality(MayInsert) \in Nat
  BY <1>3, MayInsertIsLaunched, FS_Subset, FS_CardinalityType
<1>6. Twins' <=> Twins
  BY <1>2 DEF Twins
<1>8. Booted' = Booted
  BY <1>2 DEF Booted
<1>7. ASSUME "users" \in schema, "username" \notin schema
      PROVE  Cardinality(Booted') + Cardinality(MayInsert') + 1 <= Cardinality(Launched') + stops'
  <2>1. /\ Cardinality(Booted) + Cardinality(MayInsert) + 1 <= Cardinality(Launched) + stops
        /\ Cardinality(Booted) \in Nat /\ Booted' = Booted
    BY <1>1, <1>2, <1>7, FS_CardinalityType DEF StartsAreCounted, Booted
  <2> QED
    BY <1>2, <1>4, <1>5, <2>1
<1> QED
  BY <1>1, <1>2, <1>4, <1>6, <1>7, <1>8 DEF StartsAreCounted

\* and by another start.
LEMMA LaunchKeepsCount ==
  ASSUME StartInv, NEW p \in Processes, Launch(p)
  PROVE  StartsAreCounted'
<1>1. StartTypes /\ StartsAreCounted
  BY DEF StartInv
<1>2. /\ UNCHANGED <<schema, users, stops>> /\ stops \in Nat /\ proc[p].at = "off" /\ proc'[p].at # "off"
      /\ \A q \in Processes \ {p} : proc'[q].at = proc[q].at /\ proc'[q].todo = proc[q].todo
  BY <1>1, LaunchIs DEF StartTypes, Creates
<1>3. Launched' = Launched \cup {p} /\ p \notin Launched /\ MayInsert' \subseteq MayInsert \cup {p}
  BY <1>2 DEF Launched, MayInsert, Creates
<1>4. /\ IsFiniteSet(Launched') /\ Cardinality(Launched') = Cardinality(Launched) + 1
      /\ Cardinality(Launched) \in Nat
  BY <1>1, <1>3, FS_AddElement, FS_CardinalityType DEF StartsAreCounted
<1>5. /\ Cardinality(MayInsert') <= Cardinality(MayInsert) + 1
      /\ Cardinality(MayInsert') \in Nat /\ Cardinality(MayInsert) \in Nat
  <2>1. IsFiniteSet(MayInsert) /\ Cardinality(MayInsert) \in Nat
    BY MayInsertIsLaunched
  <2>2. /\ IsFiniteSet(MayInsert \cup {p})
        /\ Cardinality(MayInsert \cup {p}) = IF p \in MayInsert THEN Cardinality(MayInsert) ELSE Cardinality(MayInsert) + 1
    BY <2>1, FS_AddElement
  <2>3. Cardinality(MayInsert') <= Cardinality(MayInsert \cup {p}) /\ Cardinality(MayInsert') \in Nat
    BY <1>3, <2>2, FS_Subset, FS_CardinalityType
  <2> QED
    BY <2>1, <2>2, <2>3
<1>6. Twins' <=> Twins
  BY <1>2 DEF Twins
<1>8. Booted' = Booted
  BY <1>2 DEF Booted
<1>7. ASSUME "users" \in schema, "username" \notin schema
      PROVE  Cardinality(Booted') + Cardinality(MayInsert') + 1 <= Cardinality(Launched') + stops'
  <2>1. /\ Cardinality(Booted) + Cardinality(MayInsert) + 1 <= Cardinality(Launched) + stops
        /\ Cardinality(Booted) \in Nat /\ Booted' = Booted /\ stops' = stops
    BY <1>1, <1>2, <1>7, FS_CardinalityType DEF StartsAreCounted, Booted
  <2> QED
    BY <1>2, <1>4, <1>5, <2>1
<1> QED
  BY <1>1, <1>2, <1>4, <1>6, <1>7, <1>8 DEF StartsAreCounted

\* Each step keeps every part.
LEMMA StartStep == StartInv /\ [StartupNext]_startVars => StartInv'
<1> SUFFICES ASSUME StartInv, [StartupNext]_startVars PROVE StartInv'
  OBVIOUS
<1>1. CASE StartupNext
  <2>1. StartsAreCounted'
    BY <1>1, CreateKeepsCount, MovesKeepCount, ReadKeepsCount, InsertKeepsCount, AddUserKeepsCount,
         StopKeepsCount, LaunchKeepsCount DEF StartupNext
  <2> QED
    BY <1>1, <2>1, TypesStep, OrderStep, AloneStep, MakerStep DEF StartInv
<1>2. CASE UNCHANGED startVars
  BY <1>2 DEF startVars, StartInv, StartTypes, StartOrder, PlaceIs, AloneIsSafe, MakerGoesOn, StartsAreCounted,
       Willing, Booted, Launched, MayInsert, Creates, Starting, Twins
<1> QED
  BY <1>1, <1>2

\* In an empty database nobody has started.
LEMMA StartInitInv == StartupInit => StartInv
<1> SUFFICES ASSUME StartupInit PROVE StartInv
  OBVIOUS
<1>1. Idle.at = "off" /\ Idle.secret = "unset" /\ Idle \in Start
  BY DEF Idle, Start, Stages, Lists, Secrets
<1>2. /\ schema = {} /\ version = FALSE /\ users = << >> /\ stops = 0 /\ Len(users) = 0
      /\ proc \in [Processes -> Start] /\ \A p \in Processes : proc[p].at = "off" /\ proc[p].secret = "unset"
  BY <1>1 DEF StartupInit
<1>3. StartTypes /\ StartOrder
  <2>1. users \in Seq(UserRows)
    BY <1>2
  <2>2. \A p \in Processes : PlaceIs(p)
    BY <1>2 DEF PlaceIs, Creates
  <2> QED
    BY <1>2, <2>1, <2>2 DEF StartTypes, StartOrder
<1>4. AloneIsSafe /\ MakerGoesOn
  BY <1>2 DEF AloneIsSafe, MakerGoesOn, Creates, Starting
<1>5. Launched = {}
  BY <1>2 DEF Launched
<1>6. StartsAreCounted
  BY <1>2, <1>5, FS_EmptySet DEF StartsAreCounted
<1> QED
  BY <1>3, <1>4, <1>6 DEF StartInv

\* Of two users of one name, two starts made both, or an admin made one.
LEMMA TwinsAreCounted == StartInv => TwinsTakeMoreStarts
<1> SUFFICES ASSUME StartInv, Twins
             PROVE  /\ "username" \notin schema /\ Cardinality(Launched) + stops >= 2
                    /\ Cardinality(Launched) + stops >= 3 \/ \E i \in 1 .. Len(users) : users[i].posted
  BY DEF TwinsTakeMoreStarts, Launched
<1>1. StartTypes /\ StartOrder /\ StartsAreCounted
  BY DEF StartInv
<1>2. "username" \notin schema
  BY <1>1 DEF StartsAreCounted
<1>3. PICK i, j \in 1 .. Len(users) : i # j
  BY DEF Twins
<1>4. users # << >> /\ 1 \in 1 .. Len(users)
  <2>1. Len(users) \in Nat /\ Len(<< >>) = 0
    BY <1>1 DEF StartTypes
  <2>2. 1 <= Len(users)
    BY <1>3, <2>1
  <2> QED
    BY <2>1, <2>2
<1>5. 1 \in Booted
  BY <1>1, <1>4 DEF Booted, StartOrder, PlaceIs
<1>6. "users" \in schema
  BY <1>4, MayInsertIsLaunched
<1>7. /\ IsFiniteSet(Booted)
      /\ Cardinality(Booted) + Cardinality(MayInsert) + 1 <= Cardinality(Launched) + stops
  BY <1>1, <1>2, <1>6 DEF StartsAreCounted
<1>8. Cardinality(Booted) \in Nat /\ Cardinality(MayInsert) \in Nat /\ Cardinality(Launched) \in Nat /\ stops \in Nat
  BY <1>1, <1>7, MayInsertIsLaunched, FS_CardinalityType DEF StartTypes
<1>9. Cardinality(Booted) >= 1
  BY <1>5, <1>7, <1>8, FS_EmptySet
<1>10. ASSUME \A k \in 1 .. Len(users) : ~users[k].posted PROVE Cardinality(Booted) >= 2
  <2>1. {i} \cup {j} \in SUBSET Booted
    BY <1>10 DEF Booted
  <2>2. IsFiniteSet({i}) /\ Cardinality({i}) = 1
    BY FS_Singleton
  <2>3. Cardinality({i} \cup {j}) = 2
    <3>1. j \notin {i}
      BY <1>3
    <3> HIDE DEF Booted
    <3>2. Cardinality({i} \cup {j}) = Cardinality({i}) + 1
      BY <2>2, <3>1, FS_AddElement
    <3> QED
      BY <2>2, <3>2
  <2> QED
    BY <1>7, <1>8, <2>1, <2>3, FS_Subset
<1>11. \A a, b, c, d \in Nat : a + b + 1 <= c + d => (a >= 1 => c + d >= 2) /\ (a >= 2 => c + d >= 3)
  OBVIOUS
<1>12. /\ Cardinality(Booted) >= 1 => Cardinality(Launched) + stops >= 2
       /\ Cardinality(Booted) >= 2 => Cardinality(Launched) + stops >= 3
  BY <1>7, <1>8, <1>11
<1> QED
  BY <1>2, <1>9, <1>10, <1>12

\* What the invariant comes to.
LEMMA StartInvIsSafe == StartInv => StartsAreSafe
<1> SUFFICES ASSUME StartInv PROVE StartsAreSafe
  OBVIOUS
<1>1. StartTypes /\ StartOrder /\ AloneIsSafe /\ MakerGoesOn
  BY DEF StartInv
<1>2. ServesOnlyWhenReady
  BY <1>1 DEF StartOrder, PlaceIs, ServesOnlyWhenReady
<1>3. FailsOnlyByRaceOrPassword
  BY <1>1 DEF AloneIsSafe, FailsOnlyByRaceOrPassword
<1>4. SomeProcessSurvives
  <2> SUFFICES ASSUME Willing, NEW d \in Processes, proc[d].at = "dead"
               PROVE  \E p \in Processes : proc[p].at \notin {"off", "dead"}
    BY DEF SomeProcessSurvives, Willing
  <2>1. "users" \in schema
    BY <1>1 DEF StartOrder, PlaceIs
  <2>2. CASE version \/ "schema_migrations" \in schema
    BY <1>1, <2>2 DEF MakerGoesOn
  <2>3. CASE "schema_migrations" \notin schema /\ "username" \in schema
    BY <1>1, <2>3 DEF MakerGoesOn, Creates
  <2>4. CASE "schema_migrations" \notin schema /\ "username" \notin schema
    <3>1. schema = {"users"}
      BY <1>1, <2>1, <2>4 DEF StartTypes
    <3> QED
      BY <1>1, <3>1 DEF MakerGoesOn, Creates
  <2> QED
    BY <2>2, <2>3, <2>4
<1> QED
  BY <1>2, <1>3, <1>4, TwinsAreCounted DEF StartsAreSafe

(* Database.migrate, the bootstrap of the admin and POST /users, for any   *)
(* number of processes, names and users: a process serves only a database  *)
(* that is ready, one that starts alone fails only for its short password, *)
(* of those that race one survives, and two users of one name take a       *)
(* missing index and a second start, and a third or an admin's call.       *)
THEOREM StartsAreAlwaysSafe == StartupSpec => []StartsAreSafe
  BY StartInitInv, StartStep, StartInvIsSafe, PTL DEF StartupSpec

(* The starts keep their types: every user has a name, every process a     *)
(* place and a password, and there are no more stops than the bound.       *)
THEOREM StartupTypeCorrect == StartupSpec => []StartupTypeOK
<1> DEFINE Bounded == stops \in 0 .. MaxStops
<1>1. StartInv /\ Bounded => StartupTypeOK
  <2> SUFFICES ASSUME StartInv, Bounded PROVE StartupTypeOK
    OBVIOUS
  <2>1. \A i \in 1 .. Len(users) : users[i] \in UserRows
    BY DEF StartInv, StartTypes
  <2>2. \A i \in 1 .. Len(users) : users[i].name \in Names
    BY <2>1 DEF UserRows
  <2>3. \A p \in Processes : proc[p].at \in Stages /\ proc[p].secret \in Secrets
    BY DEF StartInv, StartTypes, Start
  <2> QED
    BY <2>2, <2>3 DEF StartInv, StartTypes, StartupTypeOK
<1>2. StartupInit => Bounded
  BY StartupAssumption DEF StartupInit
<1>3. StartInv /\ Bounded /\ [StartupNext]_startVars => Bounded'
  <2> SUFFICES ASSUME Bounded, [StartupNext]_startVars PROVE Bounded'
    OBVIOUS
  <2>1. ASSUME NEW p \in Processes, StopProcess(p) PROVE Bounded'
    BY <2>1, StartupAssumption DEF StopProcess
  <2>2. CASE UNCHANGED stops
    BY <2>2
  <2> QED
    BY <2>1, <2>2 DEF StartupNext, CreateNext, ReadVersion, RecordVersion, ReadUsers, InsertAdmin, AddUser,
         Launch, startVars
<1> HIDE DEF Bounded
<1> QED
  BY <1>1, <1>2, <1>3, StartInitInv, StartStep, PTL DEF StartupSpec

-----------------------------------------------------------------------------
(* The conversations: what a reader was answered, and what there is now.   *)

MemoryRow == [id : Int, at : Nat]

\* Two rows in order, each at a place of its own.
ListsRows(s, S) ==
  /\ s \in Seq(S) /\ InOrder(s)
  /\ \A j, k \in 1 .. Len(s) : j # k => s[j] # s[k]

ConversationInv ==
  /\ wallClock \in Nat /\ remembering \in [Rememberers -> MemoryRow]
  /\ IsFiniteSet(memories) /\ memories \in SUBSET MemoryRow
  /\ ListsRows(heard, memories)
  /\ ~lateOrTied =>
       /\ \A m, n \in memories : m # n => m.at # n.at
       /\ \A i \in 1 .. Len(heard), n \in memories \ ToSet(heard) : heard[i].at < n.at

\* Where no two stamps are the same, the place of a row is the number of rows
\* that are not later than it.
LEMMA PlaceInOrder ==
  ASSUME NEW S \in SUBSET MemoryRow, NEW s, ListsRows(s, S), \A m, n \in S : m # n => m.at # n.at,
         NEW i \in 1 .. Len(s)
  PROVE  Cardinality({m \in ToSet(s) : m.at <= s[i].at}) = i
<1> DEFINE first == {m \in ToSet(s) : m.at <= s[i].at}
           f == [j \in 1 .. i |-> s[j]]
<1>1. s \in Seq(S) /\ DOMAIN s = 1 .. Len(s) /\ Len(s) \in Nat
  BY DEF ListsRows
<1>2. \A j \in 1 .. Len(s) : s[j] \in S /\ s[j].at \in Nat
  BY <1>1 DEF MemoryRow
<1>3. \A j \in 1 .. i : j \in 1 .. Len(s) /\ s[j].at <= s[i].at
  <2> SUFFICES ASSUME NEW j \in 1 .. i PROVE j \in 1 .. Len(s) /\ s[j].at <= s[i].at
    OBVIOUS
  <2>1. j \in 1 .. Len(s)
    BY <1>1
  <2>2. CASE j = i
    BY <1>2, <2>2
  <2>3. CASE j < i
    BY <1>1, <2>1, <2>3 DEF ListsRows, InOrder
  <2> QED
    BY <2>1, <2>2, <2>3
<1>4. \A j \in 1 .. i : s[j] \in first
  BY <1>1, <1>3 DEF ToSet
<1>5. \A m \in first : \E j \in 1 .. i : s[j] = m
  <2> SUFFICES ASSUME NEW j \in 1 .. Len(s), s[j].at <= s[i].at, j > i
               PROVE  FALSE
    BY <1>1 DEF ToSet
  <2>1. s[i].at <= s[j].at
    BY <1>1 DEF ListsRows, InOrder
  <2>2. s[i] # s[j]
    BY DEF ListsRows
  <2> QED
    BY <1>2, <2>1, <2>2
<1>6. f \in Bijection(1 .. i, first)
  <2>1. f \in [1 .. i -> first]
    BY <1>4
  <2>2. \A a, b \in 1 .. i : f[a] = f[b] => a = b
    BY <1>3 DEF ListsRows
  <2>3. \A m \in first : \E j \in 1 .. i : f[j] = m
    BY <1>5
  <2> QED
    BY <2>1, <2>2, <2>3 DEF Bijection, Injection, IsInjective, Surjection
<1>7. IsFiniteSet(1 .. i) /\ Cardinality(1 .. i) = i
  BY FS_Interval
<1>8. ExistsBijection(1 .. i, first)
  BY <1>6 DEF ExistsBijection
<1>9. Cardinality(first) = i
  BY <1>7, <1>8, FS_Bijection
<1> QED
  BY <1>9

\* An answer has every row.
LEMMA AnswerHasAll ==
  ASSUME NEW S, IsFiniteSet(S), NEW s \in SetToSeqs(S), InOrder(s)
  PROVE  ListsRows(s, S) /\ ToSet(s) = S
<1> DEFINE D == 1 .. Cardinality(S)
<1>1. s \in [D -> S] /\ \A j, k \in D : j # k => s[j] # s[k]
  BY DEF SetToSeqs
<1>2. Cardinality(S) \in Nat
  BY FS_CardinalityType
<1>3. s \in Seq(S) /\ Len(s) = Cardinality(S)
  BY <1>1, <1>2
<1>4. s \in Injection(D, S)
  BY <1>1 DEF Injection, IsInjective
<1>5. IsFiniteSet(D) /\ Cardinality(D) = Cardinality(S)
  BY <1>2, FS_Interval
<1>6. s \in Surjection(D, S)
  BY <1>4, <1>5, FS_Injection
<1>7. ToSet(s) = S
  BY <1>1, <1>6 DEF Surjection, ToSet
<1> QED
  BY <1>1, <1>3, <1>7 DEF ListsRows

\* Nothing but the end was added to what was answered.
LEMMA AnswerGoesOn ==
  ASSUME ConversationInv, ~lateOrTied, NEW s \in SetToSeqs(memories), InOrder(s)
  PROVE  IsPrefix(heard, s)
<1>1. /\ ListsRows(s, memories) /\ ToSet(s) = memories /\ ListsRows(heard, memories)
      /\ memories \in SUBSET MemoryRow /\ \A m, n \in memories : m # n => m.at # n.at
  BY AnswerHasAll DEF ConversationInv
<1>2. /\ heard \in Seq(memories) /\ s \in Seq(memories) /\ Len(heard) \in Nat /\ Len(s) \in Nat
      /\ DOMAIN heard = 1 .. Len(heard) /\ DOMAIN s = 1 .. Len(s)
  BY <1>1 DEF ListsRows
<1>3. ASSUME NEW i \in 1 .. Len(heard)
      PROVE  i \in 1 .. Len(s) /\ s[i] = heard[i]
  <2>1. heard[i] \in memories /\ heard[i].at \in Nat
    BY <1>1, <1>2 DEF MemoryRow
  <2>2. PICK k \in 1 .. Len(s) : s[k] = heard[i]
    BY <1>1, <1>2, <2>1 DEF ToSet
  <2>3. Cardinality({m \in ToSet(heard) : m.at <= heard[i].at}) = i
    BY <1>1, PlaceInOrder
  <2>4. Cardinality({m \in ToSet(s) : m.at <= s[k].at}) = k
    BY <1>1, PlaceInOrder
  <2>5. {m \in ToSet(heard) : m.at <= heard[i].at} = {m \in memories : m.at <= heard[i].at}
    <3>1. ToSet(heard) \subseteq memories
      BY <1>2 DEF ToSet
    <3>2. \A n \in memories \ ToSet(heard) : ~(n.at <= heard[i].at)
      <4> SUFFICES ASSUME NEW n \in memories \ ToSet(heard) PROVE ~(n.at <= heard[i].at)
        OBVIOUS
      <4>1. n.at \in Nat /\ heard[i].at < n.at
        BY <1>1 DEF ConversationInv, MemoryRow
      <4> QED
        BY <2>1, <4>1
    <3> QED
      BY <3>1, <3>2
  <2>6. k = i
    BY <1>1, <2>2, <2>3, <2>4, <2>5
  <2> QED
    BY <2>2, <2>6
<1>4. Len(heard) <= Len(s)
  <2>1. CASE Len(heard) = 0
    BY <1>2, <2>1
  <2>2. CASE Len(heard) # 0
    <3>1. Len(heard) \in 1 .. Len(heard)
      BY <1>2, <2>2
    <3>2. Len(heard) \in 1 .. Len(s)
      BY <1>3, <3>1
    <3> QED
      BY <1>2, <3>2
  <2> QED
    BY <2>1, <2>2
<1>5. SubSeq(heard, 1, Len(heard)) = SubSeq(s, 1, Len(heard))
  BY <1>2, <1>3, <1>4
<1> QED
  BY <1>4, <1>5 DEF IsPrefix

\* One step per answer, tick, stamp, commit and failure.
LEMMA ConversationStep == ConversationInv /\ [ConversationNext]_conversationVars => ConversationInv'
<1> SUFFICES ASSUME ConversationInv, [ConversationNext]_conversationVars PROVE ConversationInv'
  OBVIOUS
<1>0. /\ wallClock \in Nat /\ remembering \in [Rememberers -> MemoryRow]
      /\ IsFiniteSet(memories) /\ memories \in SUBSET MemoryRow /\ ListsRows(heard, memories)
  BY DEF ConversationInv
<1>1. CASE ReadConversation
  <2>1. heard' \in SetToSeqs(memories) /\ InOrder(heard') /\ UNCHANGED <<wallClock, memories, remembering, lateOrTied>>
    BY <1>1 DEF ReadConversation
  <2>2. ListsRows(heard', memories) /\ ToSet(heard') = memories
    BY <1>0, <2>1, AnswerHasAll
  <2>3. ListsRows(heard', memories') /\ memories' \ ToSet(heard') = {}
    BY <2>1, <2>2
  <2> QED
    BY <2>1, <2>3 DEF ConversationInv
<1>2. ASSUME NEW w \in Rememberers, CommitMemory(w) PROVE ConversationInv'
  <2> DEFINE r == remembering[w]
  <2>1. /\ memories' = memories \cup {r} /\ r \in MemoryRow
        /\ lateOrTied' <=> (lateOrTied \/ \E m \in memories : m.at >= r.at)
        /\ remembering' = [remembering EXCEPT ![w] = NotStamped]
        /\ UNCHANGED <<wallClock, heard>>
    BY <1>0, <1>2 DEF CommitMemory
  <2> HIDE DEF r
  <2>2. NotStamped \in MemoryRow
    BY DEF NotStamped, MemoryRow
  <2>3. /\ IsFiniteSet(memories') /\ memories' \in SUBSET MemoryRow
        /\ remembering' \in [Rememberers -> MemoryRow] /\ wallClock' \in Nat
    BY <1>0, <2>1, <2>2, FS_AddElement
  <2>4. ListsRows(heard', memories')
    <3>1. heard \in Seq(memories')
      BY <1>0, <2>1 DEF ListsRows
    <3> QED
      BY <1>0, <2>1, <3>1 DEF ListsRows, InOrder
  <2>5. ASSUME ~lateOrTied'
        PROVE  /\ \A m, n \in memories' : m # n => m.at # n.at
               /\ \A i \in 1 .. Len(heard'), n \in memories' \ ToSet(heard') : heard'[i].at < n.at
    <3>1. /\ ~lateOrTied /\ \A m \in memories : m.at < r.at
      BY <1>0, <2>1, <2>5 DEF MemoryRow
    <3>2. \A m, n \in memories' : m # n => m.at # n.at
      BY <1>0, <2>1, <3>1 DEF ConversationInv, MemoryRow
    <3>3. \A i \in 1 .. Len(heard), n \in memories' \ ToSet(heard) : heard[i].at < n.at
      <4>1. \A i \in 1 .. Len(heard) : heard[i] \in memories
        BY <1>0 DEF ListsRows
      <4> QED
        BY <2>1, <3>1, <4>1 DEF ConversationInv
    <3> QED
      BY <2>1, <3>2, <3>3
  <2> QED
    BY <2>3, <2>4, <2>5 DEF ConversationInv
<1>3. ASSUME NEW w \in Rememberers, RememberFails(w) \/ \E i \in 1 .. MaxMemories : Stamp(w, i)
      PROVE  ConversationInv'
  <2>1. NotStamped \in MemoryRow /\ \A i \in 1 .. MaxMemories : [id |-> i, at |-> wallClock] \in MemoryRow
    BY <1>0 DEF NotStamped, MemoryRow
  <2>2. remembering' \in [Rememberers -> MemoryRow] /\ UNCHANGED <<wallClock, memories, heard, lateOrTied>>
    BY <1>0, <1>3, <2>1 DEF RememberFails, Stamp
  <2> QED
    BY <2>2 DEF ConversationInv, ListsRows, InOrder
<1>4. CASE PassTime \/ UNCHANGED conversationVars
  <2>1. wallClock' \in Nat /\ UNCHANGED <<memories, remembering, heard, lateOrTied>>
    BY <1>0, <1>4 DEF PassTime, conversationVars
  <2> QED
    BY <2>1 DEF ConversationInv, ListsRows, InOrder
<1> QED
  BY <1>1, <1>2, <1>3, <1>4 DEF ConversationNext

\* Nothing was remembered yet.
LEMMA ConversationInitInv == ConversationInit => ConversationInv
<1> SUFFICES ASSUME ConversationInit PROVE ConversationInv
  OBVIOUS
<1>1. NotStamped \in MemoryRow
  BY DEF NotStamped, MemoryRow
<1>2. ListsRows(heard, memories)
  BY DEF ConversationInit, ListsRows, InOrder
<1> QED
  BY <1>1, <1>2, FS_EmptySet DEF ConversationInit, ConversationInv

(* PersistentMemoryEngine.conversation: what a reader was answered stays,  *)
(* and more comes after it, until a row is committed out of the order of   *)
(* the stamps, for any number of threads and memories.                     *)
THEOREM PastAlwaysStands == ConversationSpec => PastStands
<1>1. ConversationInv /\ [ConversationNext]_conversationVars
        => [heard = << >> \/ lateOrTied' \/ IsPrefix(heard, heard')]_conversationVars
  <2> SUFFICES ASSUME ConversationInv, ConversationNext, ~lateOrTied'
               PROVE  IsPrefix(heard, heard')
    OBVIOUS
  <2>1. CASE ReadConversation
    BY <2>1, AnswerGoesOn DEF ReadConversation
  <2>2. CASE ~ReadConversation
    <3>1. UNCHANGED heard
      BY <2>2 DEF ConversationNext, PassTime, CommitMemory, RememberFails, Stamp
    <3>2. heard \in Seq(memories)
      BY DEF ConversationInv, ListsRows
    <3>3. Len(heard) <= Len(heard)
      BY <3>2
    <3> QED
      BY <3>1, <3>3 DEF IsPrefix
  <2> QED
    BY <2>1, <2>2
<1> QED
  BY ConversationInitInv, <1>1, ConversationStep, PTL DEF ConversationSpec, PastStands

(* remember: the stamps and the rows have numbers of their own, and a      *)
(* reader was answered rows that are there.                                *)
THEOREM ConversationTypeCorrect == ConversationSpec => []ConversationTypeOK
<1> DEFINE StampsCount == \A w \in Rememberers : remembering[w] # NotStamped => remembering[w].id # 0
<1>1. ConversationInit => ConversationTypeOK /\ StampsCount
  <2> SUFFICES ASSUME ConversationInit PROVE ConversationTypeOK /\ StampsCount
    OBVIOUS
  <2>1. Known = {} /\ ToSet(heard) = {}
    BY DEF ConversationInit, Known, Stamped, NotStamped, ToSet
  <2> QED
    BY <2>1, ConversationAssumption DEF ConversationInit, ConversationTypeOK
<1>2. ConversationInv /\ StampsCount /\ [ConversationNext]_conversationVars => StampsCount'
  <2> SUFFICES ASSUME ConversationInv, StampsCount, [ConversationNext]_conversationVars PROVE StampsCount'
    OBVIOUS
  <2>0. remembering \in [Rememberers -> MemoryRow]
    BY DEF ConversationInv
  <2>1. ASSUME NEW w \in Rememberers, remembering' = [remembering EXCEPT ![w] = NotStamped]
        PROVE  StampsCount'
    BY <2>0, <2>1
  <2>2. ASSUME NEW w \in Rememberers, NEW i \in 1 .. MaxMemories, Stamp(w, i) PROVE StampsCount'
    BY <2>0, <2>2 DEF Stamp
  <2>3. ASSUME UNCHANGED remembering PROVE StampsCount'
    BY <2>3
  <2> QED
    BY <2>1, <2>2, <2>3 DEF ConversationNext, CommitMemory, RememberFails, ReadConversation, PassTime, conversationVars
<1>3. ConversationInv' /\ ConversationInv /\ ConversationTypeOK /\ StampsCount /\ [ConversationNext]_conversationVars
        => ConversationTypeOK'
  <2> SUFFICES ASSUME ConversationInv', ConversationInv, ConversationTypeOK, StampsCount,
                      [ConversationNext]_conversationVars
               PROVE  ConversationTypeOK'
    OBVIOUS
  <2>1. ToSet(heard') \subseteq memories'
    <3>1. heard' \in Seq(memories')
      BY DEF ConversationInv, ListsRows
    <3> QED
      BY <3>1 DEF ToSet
  <2>2. wallClock' \in 0 .. MaxClock
    BY ConversationAssumption DEF ConversationTypeOK, ConversationNext, ReadConversation, PassTime,
         CommitMemory, RememberFails, Stamp, conversationVars
  <2>3. Known' \subseteq 1 .. MaxMemories
    <3>0. Known \subseteq 1 .. MaxMemories /\ remembering \in [Rememberers -> MemoryRow]
      BY DEF ConversationTypeOK, ConversationInv
    <3>1. ASSUME NEW w \in Rememberers, CommitMemory(w) PROVE Known' \subseteq Known
      <4>1. memories' = memories \cup {remembering[w]} /\ remembering' = [remembering EXCEPT ![w] = NotStamped]
            /\ remembering[w] # NotStamped
        BY <3>1 DEF CommitMemory
      <4>2. remembering[w].id \in Stamped
        BY <4>1 DEF Stamped
      <4>3. Stamped' \subseteq Stamped
        BY <3>0, <4>1 DEF Stamped, NotStamped
      <4>4. {m.id : m \in memories'} \subseteq {m.id : m \in memories} \cup {remembering[w].id}
        BY <4>1
      <4> QED
        BY <4>2, <4>3, <4>4 DEF Known
    <3>2. ASSUME NEW w \in Rememberers, RememberFails(w) PROVE Known' \subseteq Known
      BY <3>0, <3>2 DEF RememberFails, Known, Stamped, NotStamped
    <3>3. ASSUME NEW w \in Rememberers, NEW i \in 1 .. MaxMemories, Stamp(w, i) PROVE Known' \subseteq Known \cup {i}
      BY <3>0, <3>3 DEF Stamp, Known, Stamped
    <3>4. CASE UNCHANGED <<memories, remembering>>
      BY <3>0, <3>4 DEF Known, Stamped
    <3> QED
      BY <3>0, <3>1, <3>2, <3>3, <3>4 DEF ConversationNext, ReadConversation, PassTime, conversationVars
  <2> QED
    BY <2>1, <2>2, <2>3 DEF ConversationTypeOK
<1> QED
  BY <1>1, <1>2, <1>3, ConversationInitInv, ConversationStep, PTL DEF ConversationSpec

-----------------------------------------------------------------------------
(* The refresh tokens: a token has two successors only when two rotations   *)
(* of it overlapped, and a rotation leaves no session without a token.  A  *)
(* fork is excluded by what the request read: its token was valid, so no   *)
(* row there had come from it.                                             *)

Token == [parent : 0 .. MaxTokens, known : 0 .. MaxTokens, revoked : BOOLEAN]

\* Where a token came from another one, that one is revoked.
ParentIsRevoked ==
  \A s \in Rows : tokens[s].parent # 0 => /\ tokens[s].parent \in Rows
                                          /\ tokens[tokens[s].parent].revoked

\* A rotation found its token valid, so no row that was there had come from it.
ReadBeforeRotation ==
  \A q \in TokenRequests :
    /\ asking[q].known <= Len(tokens)
    /\ asking[q].at \in {"rotate", "logout"} => asking[q].token \in Rows
    /\ asking[q].at = "rotate" =>
         \A s \in Rows : s <= asking[q].known => tokens[s].parent # asking[q].token
    /\ asking[q].at = "answer" => asking[q].token \in Rows

\* Whatever revoked a row, it was a logout or left a successor.
RevokedForCause ==
  \A s \in Rows : tokens[s].revoked => s \in ended \/ \E c \in Rows : tokens[c].parent = s

TokensInv ==
  TokensTypeOK /\ ParentIsRevoked /\ ReadBeforeRotation /\ RevokedForCause /\ ForkOnlyByOverlap

\* A revoked token was revoked for a cause, so a session is passed on or ended.
LEMMA InvariantPassesOn == TokensInv => SessionIsPassedOn
BY DEF TokensInv, TokensTypeOK, RevokedForCause, SessionIsPassedOn, Valid, Rows

\* At first there is no token and no request.
LEMMA TokensInitInv == TokensInit => TokensInv
BY TokensAssumption
   DEF TokensInit, TokensInv, TokensTypeOK, NoRequest, Rows,
       ParentIsRevoked, ReadBeforeRotation, RevokedForCause, ForkOnlyByOverlap

\* A row appended to the table, and what is left of the others.
LEMMA AppendedToken ==
  ASSUME NEW S, NEW rows \in Seq(S), NEW r \in S
  PROVE  /\ Append(rows, r) \in Seq(S)
         /\ Len(Append(rows, r)) = Len(rows) + 1
         /\ Append(rows, r)[Len(rows) + 1] = r
         /\ \A i \in 1 .. Len(rows) : Append(rows, r)[i] = rows[i]
OBVIOUS

\* Revoking a row changes nothing else of it.
LEMMA RevokedRows ==
  ASSUME TokensTypeOK, NEW t \in Rows
  PROVE  /\ Revoke(t) \in Seq(Token) /\ Len(Revoke(t)) = Len(tokens)
         /\ \A s \in Rows : /\ Revoke(t)[s].parent = tokens[s].parent
                            /\ Revoke(t)[s].known = tokens[s].known
                            /\ Revoke(t)[s].revoked <=> (s = t \/ tokens[s].revoked)
<1>1. tokens \in [1 .. Len(tokens) -> Token] /\ Len(tokens) \in Nat /\ tokens \in Seq(Token)
  <2>1. tokens \in Seq(Token)
    BY DEF TokensTypeOK, Token
  <2> QED
    BY <2>1, LenProperties
<1>2. \A s \in Rows : /\ tokens[s].parent \in 0 .. MaxTokens /\ tokens[s].known \in 0 .. MaxTokens
                      /\ tokens[s].revoked \in BOOLEAN
                      /\ tokens[s] = [parent |-> tokens[s].parent, known |-> tokens[s].known,
                                      revoked |-> tokens[s].revoked]
  BY <1>1 DEF Token, Rows
<1>3. Revoke(t) = [s \in 1 .. Len(tokens) |->
                     IF s = t THEN [tokens[t] EXCEPT !.revoked = TRUE] ELSE tokens[s]]
  BY <1>1 DEF Revoke
<1>4. \A s \in Rows : /\ Revoke(t)[s].parent = tokens[s].parent
                      /\ Revoke(t)[s].known = tokens[s].known
                      /\ Revoke(t)[s].revoked <=> (s = t \/ tokens[s].revoked)
                      /\ Revoke(t)[s] \in Token
  <2> SUFFICES ASSUME NEW s \in Rows
               PROVE  /\ Revoke(t)[s].parent = tokens[s].parent
                      /\ Revoke(t)[s].known = tokens[s].known
                      /\ Revoke(t)[s].revoked <=> (s = t \/ tokens[s].revoked)
                      /\ Revoke(t)[s] \in Token
    OBVIOUS
  <2>1. CASE s # t
    <3>1. Revoke(t)[s] = tokens[s] /\ tokens[s] \in Token
      BY <1>1, <1>3, <2>1 DEF Rows
    <3> QED
      BY <2>1, <3>1
  <2>2. CASE s = t
    <3>1. Revoke(t)[s] = [parent |-> tokens[s].parent, known |-> tokens[s].known, revoked |-> TRUE]
      BY <1>2, <1>3, <2>2 DEF Rows
    <3>2. /\ Revoke(t)[s].parent = tokens[s].parent /\ Revoke(t)[s].known = tokens[s].known
          /\ Revoke(t)[s].revoked
      BY <3>1
    <3>3. tokens[s].parent \in 0 .. MaxTokens /\ tokens[s].known \in 0 .. MaxTokens
      BY <1>2
    <3>4. Revoke(t)[s] \in Token
      BY <3>1, <3>3 DEF Token
    <3> QED
      BY <2>2, <3>2, <3>4
  <2> QED
    BY <2>1, <2>2
<1>5. Revoke(t) \in [1 .. Len(tokens) -> Token] /\ DOMAIN Revoke(t) = 1 .. Len(tokens)
  BY <1>3, <1>4 DEF Rows
<1>6. Revoke(t) \in Seq(Token) /\ Len(Revoke(t)) = Len(tokens)
  BY <1>1, <1>5, SeqDef, LenProperties
<1> QED
  BY <1>4, <1>6

\* A login: a row with no parent.
LEMMA LoginKeeps ==
  ASSUME TokensInv, Login
  PROVE  TokensInv'
<1> DEFINE n == Len(tokens)
           row == Row(0, 0)
<1>1. /\ tokens \in Seq(Token) /\ n \in Nat /\ n < MaxTokens /\ row \in Token
      /\ row.parent = 0 /\ row.known = 0 /\ ~row.revoked
      /\ tokens' = Append(tokens, row) /\ held' = held \cup {n'}
      /\ UNCHANGED <<expired, secret, asking, ended>>
  BY TokensAssumption DEF TokensInv, TokensTypeOK, Token, Login, Row
<1> HIDE DEF row
<1>2. /\ tokens' \in Seq(Token) /\ n' = n + 1 /\ tokens'[n + 1] = row
      /\ \A i \in 1 .. n : tokens'[i] = tokens[i]
  BY <1>1, AppendedToken
<1>3. Rows' = Rows \cup {n + 1} /\ n + 1 \notin Rows
  BY <1>1, <1>2 DEF Rows
<1>4. TokensTypeOK'
  BY <1>1, <1>2, <1>3, TokensAssumption DEF TokensInv, TokensTypeOK, Token
<1>5. ParentIsRevoked'
  BY <1>1, <1>2, <1>3 DEF TokensInv, ParentIsRevoked, Rows
<1>6. ReadBeforeRotation'
  BY <1>1, <1>2, <1>3 DEF TokensInv, ReadBeforeRotation, TokensTypeOK, Rows
<1>7. ForkOnlyByOverlap'
  BY <1>1, <1>2, <1>3 DEF TokensInv, ForkOnlyByOverlap, Rows
<1>8. RevokedForCause'
  BY <1>1, <1>2, <1>3 DEF TokensInv, RevokedForCause, Rows
<1> QED
  BY <1>4, <1>5, <1>6, <1>7, <1>8 DEF TokensInv

\* A logout: one row is revoked, for good.
LEMMA LogoutKeeps ==
  ASSUME TokensInv, NEW q \in TokenRequests, LogoutCommit(q)
  PROVE  TokensInv'
<1> DEFINE t == asking[q].token
<1>1. t \in Rows /\ tokens' = Revoke(t) /\ ended' = ended \cup {t}
      /\ asking' = [asking EXCEPT ![q] = NoRequest] /\ UNCHANGED <<expired, secret, held>>
  BY DEF TokensInv, ReadBeforeRotation, LogoutCommit
<1> HIDE DEF t
<1>2. /\ tokens' \in Seq(Token) /\ Len(tokens') = Len(tokens) /\ Rows' = Rows
      /\ \A s \in Rows : /\ tokens'[s].parent = tokens[s].parent /\ tokens'[s].known = tokens[s].known
                         /\ tokens'[s].revoked <=> (s = t \/ tokens[s].revoked)
  BY <1>1, RevokedRows DEF TokensInv, Rows
<1>3. TokensTypeOK'
  <2>1. asking' \in [TokenRequests -> [at : {"none", "rotate", "answer", "logout"},
                                       token : 0 .. MaxTokens, known : 0 .. MaxTokens]]
    BY <1>1, TokensAssumption DEF TokensInv, TokensTypeOK, NoRequest
  <2> QED
    BY <1>1, <1>2, <2>1 DEF TokensInv, TokensTypeOK, Token
<1>4. ParentIsRevoked'
  BY <1>2 DEF TokensInv, ParentIsRevoked
<1>5. ReadBeforeRotation'
  BY <1>1, <1>2 DEF TokensInv, ReadBeforeRotation, TokensTypeOK, NoRequest
<1>6. ForkOnlyByOverlap'
  BY <1>2 DEF TokensInv, ForkOnlyByOverlap
<1>7. RevokedForCause'
  BY <1>1, <1>2 DEF TokensInv, RevokedForCause
<1> QED
  BY <1>3, <1>4, <1>5, <1>6, <1>7 DEF TokensInv

\* A rotation: the row of the request is revoked and its successor inserted.
\* A row it already had is younger than the read of this request.
LEMMA RotationKeeps ==
  ASSUME TokensInv, NEW q \in TokenRequests, RefreshCommit(q)
  PROVE  TokensInv'
<1> DEFINE t == asking[q].token
           k == asking[q].known
           n == Len(tokens)
           row == Row(t, k)
           rest == Revoke(t)
<1>1. /\ t \in Rows /\ n \in Nat /\ n < MaxTokens /\ k \in 0 .. MaxTokens /\ t \in 1 .. n
      /\ \A s \in Rows : s <= k => tokens[s].parent # t
      /\ UNCHANGED <<expired, secret, held, ended>>
  BY DEF TokensInv, TokensTypeOK, ReadBeforeRotation, RefreshCommit, Rotated, Rows
<1>2. row \in Token /\ row.parent = t /\ row.known = k /\ ~row.revoked
  BY <1>1, TokensAssumption DEF Row, Token
<1>3. /\ rest \in Seq(Token) /\ Len(rest) = n
      /\ \A s \in Rows : /\ rest[s].parent = tokens[s].parent /\ rest[s].known = tokens[s].known
                         /\ rest[s].revoked <=> (s = t \/ tokens[s].revoked)
  BY <1>1, RevokedRows DEF TokensInv
<1>4. tokens' = Append(rest, row)
  BY DEF RefreshCommit, Rotated
<1>5. asking' = [asking EXCEPT ![q].at = "answer", ![q].token = Len(tokens')]
  BY DEF RefreshCommit
<1>6. Rows = 1 .. n
  BY DEF Rows
<1>7. asking \in [TokenRequests -> [at : {"none", "rotate", "answer", "logout"},
                                   token : 0 .. MaxTokens, known : 0 .. MaxTokens]]
  BY DEF TokensInv, TokensTypeOK
<1> HIDE DEF row, rest, t, k, n
<1>8. /\ Append(rest, row) \in Seq(Token) /\ Len(Append(rest, row)) = Len(rest) + 1
      /\ Append(rest, row)[Len(rest) + 1] = row
      /\ \A i \in 1 .. Len(rest) : Append(rest, row)[i] = rest[i]
  BY <1>2, <1>3, AppendedToken
<1>9. /\ tokens' \in Seq(Token) /\ Len(tokens') = n + 1 /\ tokens'[n + 1] = row
      /\ \A i \in 1 .. n : tokens'[i] = rest[i]
  BY <1>3, <1>4, <1>8
<1>10. Rows' = 1 .. n + 1
  BY <1>9 DEF Rows
<1>11. \A s \in Rows : /\ tokens'[s].parent = tokens[s].parent /\ tokens'[s].known = tokens[s].known
                       /\ tokens'[s].revoked <=> (s = t \/ tokens[s].revoked)
  <2>1. \A s \in Rows : tokens'[s] = rest[s]
    BY <1>9, <1>6
  <2> QED
    BY <1>3, <2>1
<1>12. tokens'[n + 1].parent = t /\ tokens'[n + 1].known = k /\ ~tokens'[n + 1].revoked
  BY <1>2, <1>9
<1>13. n + 1 \in Rows' /\ (\A s \in Rows : s \in Rows') /\ \A s \in Rows' : s \in Rows \/ s = n + 1
  BY <1>1, <1>6, <1>10
<1>14. \A s \in Rows : s < n + 1 /\ s \in Nat /\ s # 0
  BY <1>1, <1>6
<1>15. Len(tokens') \in 0 .. MaxTokens
  BY <1>1, <1>9, TokensAssumption
<1>16. TokensTypeOK'
  <2>1. asking' \in [TokenRequests -> [at : {"none", "rotate", "answer", "logout"},
                                       token : 0 .. MaxTokens, known : 0 .. MaxTokens]]
    BY <1>5, <1>7, <1>15
  <2>2. tokens' \in Seq([parent : 0 .. MaxTokens, known : 0 .. MaxTokens, revoked : BOOLEAN])
    BY <1>9 DEF Token
  <2>3. expired \in 0 .. n /\ secret \in BOOLEAN /\ held \subseteq Rows /\ ended \subseteq Rows
    BY DEF TokensInv, TokensTypeOK, n
  <2>4. expired' \in 0 .. Len(tokens') /\ secret' \in BOOLEAN
    BY <1>1, <1>9, <2>3
  <2>5. held' \subseteq Rows' /\ ended' \subseteq Rows'
    BY <1>1, <1>13, <2>3
  <2>6. Len(tokens') <= MaxTokens
    BY <1>15
  <2> QED
    BY <2>1, <2>2, <2>4, <2>5, <2>6 DEF TokensTypeOK
<1>17. ParentIsRevoked'
  <2> SUFFICES ASSUME NEW s \in Rows', tokens'[s].parent # 0
               PROVE  tokens'[s].parent \in Rows' /\ tokens'[tokens'[s].parent].revoked
    BY DEF ParentIsRevoked
  <2>1. CASE s \in Rows
    <3>1. tokens[s].parent \in Rows /\ tokens[tokens[s].parent].revoked
      BY <1>11, <2>1 DEF TokensInv, ParentIsRevoked
    <3> QED
      BY <1>11, <1>13, <2>1, <3>1
  <2>2. CASE s = n + 1
    <3>1. tokens'[s].parent = t /\ t \in Rows
      BY <1>1, <1>12, <2>2
    <3> QED
      BY <1>11, <1>13, <3>1
  <2> QED
    BY <1>13, <2>1, <2>2
<1>18. ReadBeforeRotation'
  <2> SUFFICES ASSUME NEW p \in TokenRequests
               PROVE  /\ asking'[p].known <= Len(tokens')
                      /\ asking'[p].at \in {"rotate", "logout"} => asking'[p].token \in Rows'
                      /\ asking'[p].at = "rotate" =>
                           \A s \in Rows' : s <= asking'[p].known => tokens'[s].parent # asking'[p].token
                      /\ asking'[p].at = "answer" => asking'[p].token \in Rows'
    BY DEF ReadBeforeRotation
  <2>1. CASE p = q
    <3>1. /\ asking'[p].at = "answer" /\ asking'[p].token = Len(tokens')
          /\ asking'[p].known = asking[p].known /\ asking[p].known \in 0 .. MaxTokens
      BY <1>5, <1>7, <2>1
    <3>2. asking[p].known <= n
      BY DEF TokensInv, ReadBeforeRotation, n
    <3>3. Len(tokens') \in Rows' /\ n < Len(tokens') /\ n \in Nat /\ Len(tokens') \in Nat
      BY <1>1, <1>9, <1>13
    <3>4. asking'[p].known <= Len(tokens')
      BY <3>1, <3>2, <3>3
    <3> QED
      BY <3>1, <3>3, <3>4
  <2>2. CASE p # q
    <3>1. asking'[p] = asking[p] /\ asking[p].known \in 0 .. MaxTokens
      BY <1>5, <1>7, <2>2
    <3>2. /\ asking[p].known <= n
          /\ asking[p].at \in {"rotate", "logout"} => asking[p].token \in Rows
          /\ asking[p].at = "rotate" =>
               \A s \in Rows : s <= asking[p].known => tokens[s].parent # asking[p].token
          /\ asking[p].at = "answer" => asking[p].token \in Rows
      BY DEF TokensInv, ReadBeforeRotation, n
    <3>3. asking[p].known <= Len(tokens') /\ ~(n + 1 <= asking[p].known)
      BY <1>1, <1>9, <3>1, <3>2
    <3>4. asking[p].at = "rotate" =>
            \A s \in Rows' : s <= asking[p].known => tokens'[s].parent # asking[p].token
      <4> SUFFICES ASSUME asking[p].at = "rotate", NEW s \in Rows', s <= asking[p].known
                   PROVE  tokens'[s].parent # asking[p].token
        OBVIOUS
      <4>1. s \in Rows
        BY <1>13, <3>3
      <4> QED
        BY <1>11, <3>2, <4>1
    <3> QED
      BY <1>13, <3>1, <3>2, <3>3, <3>4
  <2> QED
    BY <2>1, <2>2
<1>19. ForkOnlyByOverlap'
  <2> SUFFICES ASSUME NEW s \in Rows', NEW u \in Rows', s < u,
                      tokens'[s].parent = tokens'[u].parent, tokens'[u].parent # 0
               PROVE  tokens'[u].known < s
    BY DEF ForkOnlyByOverlap
  <2>1. CASE u \in Rows
    <3>1. s \in Rows
      BY <1>1, <1>13, <1>14, <2>1
    <3>2. tokens[u].known < s
      BY <1>11, <2>1, <3>1 DEF TokensInv, ForkOnlyByOverlap
    <3> QED
      BY <1>11, <2>1, <3>2
  <2>2. CASE u = n + 1
    <3>1. s \in Rows
      BY <1>1, <1>13, <2>2
    <3>2. tokens[s].parent = t /\ tokens'[u].known = k
      BY <1>11, <1>12, <2>2, <3>1
    <3>3. ~(s <= k) /\ s \in Nat
      BY <1>1, <1>14, <3>1, <3>2
    <3> QED
      BY <1>1, <3>2, <3>3
  <2> QED
    BY <1>13, <2>1, <2>2
<1>20. RevokedForCause'
  <2> SUFFICES ASSUME NEW s \in Rows', tokens'[s].revoked
               PROVE  s \in ended' \/ \E c \in Rows' : tokens'[c].parent = s
    BY DEF RevokedForCause
  <2>1. s \in Rows
    BY <1>12, <1>13
  <2>2. CASE s = t
    BY <1>12, <1>13, <2>2
  <2>3. CASE s # t
    <3>1. tokens[s].revoked
      BY <1>11, <2>1, <2>3
    <3>2. CASE s \in ended
      BY <1>1, <3>2
    <3>3. CASE \E c \in Rows : tokens[c].parent = s
      BY <1>11, <1>13, <3>3
    <3> QED
      BY <2>1, <3>1, <3>2, <3>3 DEF TokensInv, RevokedForCause
  <2> QED
    BY <2>2, <2>3
<1> QED
  BY <1>16, <1>17, <1>18, <1>19, <1>20 DEF TokensInv

\* A request reads a row: a refresh finds it valid, so nothing came from it.
LEMMA AskKeeps ==
  ASSUME TokensInv, NEW q \in TokenRequests, NEW t \in held,
         RefreshRead(q, t) \/ LogoutRead(q, t)
  PROVE  TokensInv'
<1>1. /\ t \in Rows /\ Len(tokens) \in 0 .. MaxTokens /\ t \in 0 .. MaxTokens
      /\ UNCHANGED <<tokens, expired, secret, held, ended>>
  BY TokensAssumption DEF TokensInv, TokensTypeOK, Rows, RefreshRead, LogoutRead, Take
<1>2. PICK at \in {"rotate", "logout"} :
        /\ asking' = [asking EXCEPT ![q] = [at |-> at, token |-> t, known |-> Len(tokens)]]
        /\ at = "rotate" => ~tokens[t].revoked
  BY DEF RefreshRead, LogoutRead, Take, Valid
<1>3. TokensTypeOK'
  BY <1>1, <1>2 DEF TokensInv, TokensTypeOK, Rows
<1>4. ReadBeforeRotation'
  <2> SUFFICES ASSUME NEW p \in TokenRequests
               PROVE  /\ asking'[p].known <= Len(tokens')
                      /\ asking'[p].at \in {"rotate", "logout"} => asking'[p].token \in Rows'
                      /\ asking'[p].at = "rotate" =>
                           \A s \in Rows' : s <= asking'[p].known => tokens'[s].parent # asking'[p].token
                      /\ asking'[p].at = "answer" => asking'[p].token \in Rows'
    BY DEF ReadBeforeRotation
  <2>1. CASE p = q
    <3>1. /\ asking'[p].at = "rotate" => ~tokens[t].revoked
          /\ asking'[p].token = t /\ asking'[p].known = Len(tokens) /\ asking'[p].at # "answer"
      BY <1>2, <2>1 DEF TokensInv, TokensTypeOK
    <3>2. ~tokens[t].revoked => \A s \in Rows : tokens[s].parent # t
      BY <1>1 DEF TokensInv, ParentIsRevoked, Rows
    <3> QED
      BY <1>1, <3>1, <3>2 DEF Rows
  <2>2. CASE p # q
    BY <1>1, <1>2, <2>2 DEF TokensInv, TokensTypeOK, ReadBeforeRotation, Rows
  <2> QED
    BY <2>1, <2>2
<1>5. ParentIsRevoked' /\ ForkOnlyByOverlap' /\ RevokedForCause'
  BY <1>1 DEF TokensInv, ParentIsRevoked, ForkOnlyByOverlap, RevokedForCause, Rows
<1> QED
  BY <1>3, <1>4, <1>5 DEF TokensInv

\* An answer, a refused commit and a restart leave a request at rest or drop
\* it; time only makes more rows expire.
LEMMA RestKeeps ==
  ASSUME TokensInv,
         \/ \E q \in TokenRequests : RefreshAnswer(q) \/ CommitFails(q)
         \/ Expire \/ Redeploy \/ UNCHANGED tokVars
  PROVE  TokensInv'
<1>1. /\ UNCHANGED <<tokens, ended>> /\ secret' \in BOOLEAN /\ expired' \in 0 .. Len(tokens)
      /\ Len(tokens) \in 0 .. MaxTokens
  BY TokensAssumption
     DEF TokensInv, TokensTypeOK, RefreshAnswer, CommitFails, Expire, Redeploy, tokVars
<1>2. held' \subseteq Rows
  BY DEF TokensInv, TokensTypeOK, ReadBeforeRotation, RefreshAnswer, CommitFails, Expire,
         Redeploy, tokVars
<1>3. \A q \in TokenRequests : asking'[q] \in {asking[q], NoRequest}
  BY DEF TokensInv, TokensTypeOK, RefreshAnswer, CommitFails, Expire, Redeploy, tokVars
<1>4. asking' \in [TokenRequests -> [at : {"none", "rotate", "answer", "logout"},
                                    token : 0 .. MaxTokens, known : 0 .. MaxTokens]]
  BY TokensAssumption
     DEF TokensInv, TokensTypeOK, RefreshAnswer, CommitFails, Expire, Redeploy, tokVars, NoRequest
<1>5. TokensTypeOK'
  BY <1>1, <1>2, <1>4 DEF TokensInv, TokensTypeOK, Rows
<1>6. ReadBeforeRotation'
  BY <1>1, <1>3 DEF TokensInv, ReadBeforeRotation, NoRequest, Rows
<1>7. ParentIsRevoked' /\ ForkOnlyByOverlap' /\ RevokedForCause'
  BY <1>1 DEF TokensInv, ParentIsRevoked, ForkOnlyByOverlap, RevokedForCause, Rows
<1> QED
  BY <1>5, <1>6, <1>7 DEF TokensInv

\* Every request on the table of tokens keeps the invariant.
LEMMA TokensStep == TokensInv /\ [TokensNext]_tokVars => TokensInv'
BY LoginKeeps, LogoutKeeps, RotationKeeps, AskKeeps, RestKeeps DEF TokensNext

\* The invariant of the tokens, from which their theorems follow.
LEMMA TokensInvariant == TokensSpec => []TokensInv
BY TokensInitInv, TokensStep, PTL DEF TokensSpec

(* The table of refresh tokens and the requests on it have their types,    *)
(* whatever order the threads of /refresh and /logout run in.              *)
THEOREM TokensTypeCorrect == TokensSpec => []TokensTypeOK
<1>1. TokensInv => TokensTypeOK
  BY DEF TokensInv
<1> QED
  BY <1>1, TokensInvariant, PTL

(* rotate_refresh_token gives a token two successors only when two         *)
(* rotations of it overlapped, and a token a client holds is usable,       *)
(* expired, logged out or has a successor: for any number of requests.     *)
THEOREM SessionStaysOneChain == TokensSpec => []SessionIsOneChain
<1>1. TokensInv => SessionIsOneChain
  BY InvariantPassesOn DEF TokensInv, SessionIsOneChain
<1> QED
  BY <1>1, TokensInvariant, PTL
-----------------------------------------------------------------------------
(* A behaviour of the whole is one of each part: the parts share no         *)
(* variable, and a step of one leaves the others as they are.              *)
THEOREM PlatformIsEveryPart ==
  MCSpec => /\ Spec /\ TokensSpec /\ StartupSpec /\ CrmSpec /\ CallsSpec /\ ConversationSpec
            /\ LimitSpec /\ SandboxSpec /\ ConfigSpec /\ MakeSpec
<1>1. MCInit => /\ Init /\ TokensInit /\ StartupInit /\ CrmInit /\ CallsInit /\ ConversationInit
                /\ LimitInit /\ SandboxInit /\ ConfigInit /\ MakeInit
  BY DEF MCInit
<1>2. [MCNext]_<<part, records, providers>>
        => /\ [Next]_vars /\ [TokensNext]_tokVars /\ [StartupNext]_startVars /\ [CrmNext]_crmVars
           /\ [CallsNext]_callVars /\ [ConversationNext]_conversationVars /\ [LimitNext]_limitVars
           /\ [SandboxNext]_sandboxVars /\ [ConfigNext]_configVars /\ [MakeNext]_makeVars
  BY DEF MCNext, records, providers
<1> QED
  BY <1>1, <1>2, PTL DEF MCSpec, Spec, TokensSpec, StartupSpec, CrmSpec, CallsSpec, ConversationSpec,
                         LimitSpec, SandboxSpec, ConfigSpec, MakeSpec

(* The services of the platform and its providers, next to each other,      *)
(* keep their types.                                                       *)
THEOREM PlatformKeepsItsTypes == MCSpec => []TypesOK
<1>1. TypeOK /\ TokensTypeOK /\ StartupTypeOK /\ CrmTypeOK /\ CallsTypeOK /\ ConversationTypeOK
        /\ LimitTypeOK /\ SandboxTypeOK /\ ConfigTypeOK /\ MakeTypeOK => TypesOK
  BY DEF TypesOK
<1>2. MCSpec => []TypeOK /\ []TokensTypeOK /\ []StartupTypeOK
  BY PlatformIsEveryPart, BookTypeCorrect, TokensTypeCorrect, StartupTypeCorrect, PTL
<1>3. MCSpec => []CrmTypeOK /\ []CallsTypeOK /\ []ConversationTypeOK
  BY PlatformIsEveryPart, CrmTypeCorrect, CallsTypeCorrect, ConversationTypeCorrect, PTL
<1>4. MCSpec => []LimitTypeOK /\ []SandboxTypeOK /\ []ConfigTypeOK /\ []MakeTypeOK
  BY PlatformIsEveryPart, LimitTypeCorrect, SandboxTypeCorrect, ConfigTypeCorrect, MakeTypeCorrect, PTL
<1> QED
  BY <1>1, <1>2, <1>3, <1>4, PTL
=============================================================================
