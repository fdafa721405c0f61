----------------------------- MODULE JessieProofs -----------------------------
(***************************************************************************)
(* Jessie, for any number of intakes, statuses, connections and callers.   *)
(* While one service owns the file, its store is an intake book: ListInv   *)
(* is what makes it one, each of the two lists in memory differs from the  *)
(* file only by writes that failed since the last write that succeeded.    *)
(* What the API counts adds up: CountInv is the sum, with the requests in  *)
(* progress for a term, and the poll of the dashboard next to it.  The     *)
(* rate limit counts what it admitted: WindowInv is the list of a key read *)
(* next to the history of its admissions.                                  *)
(***************************************************************************)
EXTENDS IntakeStore, JessieGate, TLAPS, FiniteSetTheorems

OneService == \A p, q \in Services : p = q

ListInv ==
  /\ \A p \in up, i \in Ids : /\ records[p][i] \in {disk[i]} \cup unsaved[i]
                              /\ store[p][i] \in {disk[i]} \cup unsaved[i]
  /\ \A i \in acked : disk[i] # Absent

\* Every operation of a service keeps the types of the file and the lists.
LEMMA TypeStep == TypeOK /\ [Next]_vars => TypeOK'
<1> SUFFICES ASSUME TypeOK, [Next]_vars PROVE TypeOK'
  OBVIOUS
<1> USE IntakeAssumption DEF TypeOK, Lists, memory, With, Written, NotWritten
<1>1. ASSUME NEW p \in Services, Start(p) \/ Stop(p)
      PROVE  TypeOK'
  <2>1. CASE Start(p)
    BY <2>1 DEF Start
  <2>2. CASE Stop(p)
    BY <2>2 DEF Stop
  <2> QED
    BY <1>1, <2>1, <2>2
<1>2. ASSUME NEW p \in Services, NEW i \in Ids, Create(p, i) \/ CreateFails(p, i)
      PROVE  TypeOK'
  <2>1. With(store[p], i, New) \in Lists
    OBVIOUS
  <2>2. CASE Create(p, i)
    <3>1. /\ disk' \in Lists
          /\ store' \in [Services -> Lists] /\ records' \in [Services -> Lists]
      BY <2>1, <2>2 DEF Create, Appended
    <3> QED
      BY <2>2, <3>1 DEF Create
  <2>3. CASE CreateFails(p, i)
    BY <2>1, <2>3 DEF CreateFails, Appended
  <2> QED
    BY <1>2, <2>2, <2>3
<1>3. ASSUME NEW p \in Services, NEW i \in Ids, NEW s \in Statuses, Update(p, i, s)
      PROVE  TypeOK'
  <2>1. With(records[p], i, s) \in Lists
    OBVIOUS
  <2>2. /\ disk' \in Lists
        /\ store' \in [Services -> Lists] /\ records' \in [Services -> Lists]
    BY <1>3, <2>1 DEF Update, Updated
  <2> QED
    BY <1>3, <2>2 DEF Update
<1>4. ASSUME NEW p \in Services, NEW i \in Ids, NEW s \in Statuses, UpdateFails(p, i, s)
      PROVE  TypeOK'
  BY <1>4 DEF UpdateFails
<1>5. CASE UNCHANGED vars
  BY <1>5 DEF vars
<1> QED
  BY <1>1, <1>2, <1>3, <1>4, <1>5 DEF Next

(* IntakeService: what the service, its file and the histories hold are    *)
(* lists of intakes, for any number of services.                           *)
THEOREM IntakeTypeCorrect == Spec => []TypeOK
<1>1. Init => TypeOK
  BY IntakeAssumption DEF Init, TypeOK, Lists
<1> QED
  BY <1>1, TypeStep, PTL DEF Spec

\* A successful write of a list that agrees with the file up to failed
\* writes, with record i set to status s, is a step of the book.
LEMMA WriteIsSucceed ==
  ASSUME TypeOK, NEW i \in Ids, NEW s \in Statuses, NEW list \in Lists,
         \A j \in Ids : list[j] \in {disk[j]} \cup unsaved[j],
         Written(With(list, i, s))
  PROVE  Book!Succeed(i, s) /\ \A j \in Ids \ {i} : disk[j] # Absent => disk'[j] # Absent
BY IntakeAssumption DEF TypeOK, Lists, Written, With, Book!Succeed

\* With one service the lists follow the file, and a step is one of the book.
LEMMA ListStep == OneService /\ TypeOK /\ ListInv /\ [Next]_vars => ListInv' /\ [Book!Next]_<<disk, unsaved>>
<1> SUFFICES ASSUME OneService, TypeOK, ListInv, [Next]_vars
             PROVE  ListInv' /\ [Book!Next]_<<disk, unsaved>>
  OBVIOUS
<1>1. ASSUME NEW p \in Services, NEW i \in Ids, Create(p, i)
      PROVE  ListInv' /\ Book!Succeed(i, New)
  <2>1. New \in Statuses /\ store[p] \in Lists /\ p \in up
    BY <1>1, IntakeAssumption DEF Create, TypeOK
  <2>2. Written(With(store[p], i, New))
    BY <1>1 DEF Create, Appended
  <2>3. Book!Succeed(i, New) /\ \A j \in Ids \ {i} : disk[j] # Absent => disk'[j] # Absent
    BY <2>1, <2>2, WriteIsSucceed DEF ListInv
  <2>4. disk' = With(store[p], i, New) /\ disk'[i] = New /\ New # Absent
    BY <2>1, <2>2, IntakeAssumption DEF Written, With, Lists
  <2>5. acked' = acked \cup {i} /\ acked \subseteq Ids
    BY <1>1 DEF Create, TypeOK
  <2>6. up \subseteq {p} /\ records'[p] = disk' /\ store'[p] = disk' /\ up' = up
    BY <1>1, <2>4 DEF Create, Appended, TypeOK, OneService
  <2> QED
    BY <2>3, <2>4, <2>5, <2>6 DEF ListInv
<1>2. ASSUME NEW p \in Services, NEW i \in Ids, NEW s \in Statuses, Update(p, i, s)
      PROVE  ListInv' /\ Book!Succeed(i, s)
  <2>1. records[p] \in Lists /\ p \in up
    BY <1>2 DEF Update, TypeOK
  <2>2. Written(With(records[p], i, s))
    BY <1>2 DEF Update, Updated
  <2>3. Book!Succeed(i, s) /\ \A j \in Ids \ {i} : disk[j] # Absent => disk'[j] # Absent
    BY <2>1, <2>2, WriteIsSucceed DEF ListInv
  <2>4. disk' = With(records[p], i, s) /\ disk'[i] = s /\ s # Absent
    BY <2>1, <2>2, IntakeAssumption DEF Written, With, Lists
  <2>5. acked' = acked /\ acked \subseteq Ids
    BY <1>2 DEF Update, TypeOK
  <2>6. up \subseteq {p} /\ records'[p] = disk' /\ store'[p] = disk' /\ up' = up
    BY <1>2, <2>4 DEF Update, Updated, TypeOK, OneService
  <2> QED
    BY <2>3, <2>4, <2>5, <2>6 DEF ListInv
<1>3. ASSUME NEW p \in Services, NEW i \in Ids, CreateFails(p, i)
      PROVE  ListInv' /\ Book!Fail(i, New)
  BY <1>3 DEF CreateFails, Appended, With, NotWritten, Book!Fail, TypeOK, Lists, ListInv
<1>4. ASSUME NEW p \in Services, NEW i \in Ids, NEW s \in Statuses, UpdateFails(p, i, s)
      PROVE  ListInv' /\ Book!Fail(i, s)
  BY <1>4 DEF UpdateFails, With, NotWritten, Book!Fail, TypeOK, Lists, ListInv
<1>5. ASSUME NEW p \in Services, Start(p)
      PROVE  ListInv' /\ UNCHANGED <<disk, unsaved>>
  BY <1>5 DEF Start, TypeOK, Lists, ListInv
<1>6. ASSUME NEW p \in Services, Stop(p)
      PROVE  ListInv' /\ Book!Forget
  BY <1>6 DEF Stop, memory, Book!Forget, TypeOK, ListInv, OneService
<1>7. ASSUME UNCHANGED vars
      PROVE  ListInv' /\ UNCHANGED <<disk, unsaved>>
  BY <1>7 DEF vars, memory, ListInv
<1> QED
  BY <1>1, <1>2, <1>3, <1>4, <1>5, <1>6, <1>7, IntakeAssumption DEF Next, Book!Next

(* The store of one service is an intake book: a failed write shows up     *)
(* with the next successful one or never.                                  *)
THEOREM StoreIsBook ==
  ASSUME OneService
  PROVE  Spec => ImplementsBook
<1>1. Init => TypeOK /\ ListInv /\ Book!Init
  BY DEF Init, TypeOK, Lists, ListInv, Book!Init
<1> QED
  BY <1>1, TypeStep, ListStep, PTL DEF Spec, ImplementsBook, Book!Spec

(* A confirmed intake stays in the file of its one service.                *)
THEOREM ConfirmedIntakesAreKept ==
  ASSUME OneService
  PROVE  Spec => [](TypeOK /\ AckedIsKept)
<1>1. Init => TypeOK /\ ListInv
  BY DEF Init, TypeOK, Lists, ListInv
<1>2. ListInv => AckedIsKept
  BY DEF ListInv, AckedIsKept
<1> QED
  BY <1>1, <1>2, TypeStep, ListStep, PTL DEF Spec

(* What the one service shows is what its file holds, but for failed       *)
(* writes.                                                                 *)
THEOREM ShownIntakesAreSaved ==
  ASSUME OneService
  PROVE  Spec => []ViewIsSaved
<1>1. Init => TypeOK /\ ListInv
  BY DEF Init, TypeOK, Lists, ListInv
<1>2. ListInv => ViewIsSaved
  BY DEF ListInv, ViewIsSaved
<1> QED
  BY <1>1, <1>2, TypeStep, ListStep, PTL DEF Spec
-----------------------------------------------------------------------------
(* The numbers of JessieGate.  A request is in progress while its          *)
(* connection is not free; there are finitely many at any moment.          *)

Flight == {c \in Conns : conns[c] # Free}
Request == [at : {"auth", "handle"}, who : Callers \cup {Nobody}, host : Hosts,
            route : Routes, polled : BOOLEAN]
Poll == [waits : {"no", "health", "healthy", "summary"}, from : Nat,
         status : {"none", "unavailable", "degraded", "ok"}, count : Nat]

\* Who asks is a caller of the tokens, or nobody.
CountTypes ==
  /\ metrics \in [Counters -> Nat] /\ answers \in [Told -> Nat] /\ intakes \in Nat
  /\ conns \in [Conns -> Request \cup {Free}]
  /\ poll \in Poll

\* A poll that goes on began with no more intakes than there are.
PollIsSound == /\ poll.waits # "no" => poll.from <= intakes
               /\ CountIsOfThePoll

CountInv == CountTypes /\ IsFiniteSet(Flight) /\ ReportsAddUp /\ PollIsSound

\* A request in progress is no free connection.
LEMMA RequestIsNotFree == \A r \in Request : r # Free
  BY DEF Request, Free

\* One more answer is one more in the total.
LEMMA TotalOfOneMore ==
  ASSUME NEW f \in [Told -> Nat], NEW kind \in Told
  PROVE  /\ Plus(f, kind) \in [Told -> Nat]
         /\ Total(Plus(f, kind)) = Total(f) + 1
         /\ \A d \in Told : Plus(f, kind)[d] = IF d = kind THEN f[d] + 1 ELSE f[d]
<1>1. \A d \in Told : f[d] \in Nat
  OBVIOUS
<1>2. Plus(f, kind) \in [Told -> Nat]
  BY DEF Plus
<1>3. \A d \in Told : Plus(f, kind)[d] = IF d = kind THEN f[d] + 1 ELSE f[d]
  BY DEF Plus
<1> QED
  BY <1>1, <1>2, <1>3 DEF Total, Told

\* A counter that is counted up stays a counter.
LEMMA PlusCounter ==
  ASSUME NEW f \in [Counters -> Nat], NEW n \in Counters
  PROVE  /\ Plus(f, n) \in [Counters -> Nat]
         /\ \A d \in Counters : Plus(f, n)[d] = IF d = n THEN f[d] + 1 ELSE f[d]
<1>1. \A d \in Counters : f[d] \in Nat
  OBVIOUS
<1> QED
  BY <1>1 DEF Plus

\* What ReportsAddUp says of the counters and the answers, read out.
LEMMA AddUpMeans ==
  ReportsAddUp <=> /\ metrics["requests"] = Total(answers) + Cardinality(Flight)
                   /\ metrics["401"] = answers["401"]
                   /\ metrics["403"] = answers["403"]
                   /\ metrics["429"] = answers["429"]
  BY DEF ReportsAddUp, SecurityReport, Flight

\* At first nothing was counted.
LEMMA GateInitInv == GateInit => CountInv
<1> SUFFICES ASSUME GateInit PROVE CountInv
  OBVIOUS
<1>1. CountTypes
  BY DEF GateInit, CountTypes, Zeros, Poll
<1>2. Flight = {}
  BY DEF GateInit, Flight
<1>3. IsFiniteSet(Flight) /\ Cardinality(Flight) = 0
  BY <1>2, FS_EmptySet
<1>4. ReportsAddUp
  BY <1>3, AddUpMeans DEF GateInit, Zeros, Counters, Told, Total
<1>5. PollIsSound
  BY DEF GateInit, PollIsSound, CountIsOfThePoll
<1> QED
  BY <1>1, <1>3, <1>4, <1>5 DEF CountInv

\* The counters and the poll are one half each: what leaves the counters, the
\* answers and which requests are in progress alone, leaves their sum alone.
LEMMA SameCounts ==
  ASSUME CountInv, UNCHANGED <<metrics, answers>>, Flight' = Flight
  PROVE  IsFiniteSet(Flight)' /\ ReportsAddUp'
  BY AddUpMeans DEF CountInv, ReportsAddUp, SecurityReport, Flight

\* A poll that does not move stays sound while intakes are added.
LEMMA SamePoll ==
  ASSUME CountInv, UNCHANGED poll, intakes' \in Nat, intakes' >= intakes
  PROVE  PollIsSound'
  BY DEF CountInv, CountTypes, Poll, PollIsSound, CountIsOfThePoll

\* What PollSays leaves behind.
LEMMA PollSaysKeeps ==
  ASSUME CountInv, intakes' \in Nat, intakes' >= intakes,
         NEW status \in {"none", "unavailable", "degraded", "ok"}, NEW count \in Nat,
         PollSays(status, count),
         status = "ok" => count = intakes' /\ poll.waits # "no"
  PROVE  poll' \in Poll /\ PollIsSound'
<1>1. poll \in Poll
  BY DEF CountInv, CountTypes
<1>2. /\ poll' \in Poll
      /\ poll'.waits = "no" /\ poll'.status = status /\ poll'.count = count /\ poll'.from = poll.from
  BY <1>1 DEF PollSays, Poll
<1>3. poll.from \in Nat /\ intakes \in Nat
  BY <1>1 DEF Poll, CountInv, CountTypes
<1>4. status = "ok" => poll.from <= intakes
  BY DEF CountInv, PollIsSound
<1> QED
  BY <1>2, <1>3, <1>4 DEF PollIsSound, CountIsOfThePoll

\* What the poll waits for next leaves it sound.
LEMMA PollMoves ==
  ASSUME CountInv, intakes' \in Nat, intakes' >= intakes, poll.waits # "no",
         NEW next \in {"healthy", "summary"}, poll' = [poll EXCEPT !.waits = next]
  PROVE  poll' \in Poll /\ PollIsSound'
<1>1. poll \in Poll /\ intakes \in Nat
  BY DEF CountInv, CountTypes
<1>2. /\ poll' \in Poll /\ poll'.from = poll.from /\ poll'.status = poll.status /\ poll'.count = poll.count
      /\ poll.from \in Nat /\ poll.count \in Nat
  BY <1>1 DEF Poll
<1>3. poll.from <= intakes /\ CountIsOfThePoll
  BY DEF CountInv, PollIsSound
<1> QED
  BY <1>1, <1>2, <1>3 DEF PollIsSound, CountIsOfThePoll

\* A request that ends: one in progress less, one answer more.
LEMMA AnswerKeeps ==
  ASSUME CountInv, NEW c \in Conns, conns[c] # Free, NEW code \in Codes,
         NEW m \in [Counters -> Nat], Answer(c, code, m),
         \A n \in {"requests", "401", "403", "429"} : m[n] = metrics[n],
         intakes' \in Nat, intakes' >= intakes
  PROVE  CountInv'
<1> DEFINE kind == IF IsCounted(code) THEN code ELSE "other"
<1>1. conns' = [conns EXCEPT ![c] = Free] /\ answers' = Plus(answers, kind)
  BY DEF Answer
<1>2. metrics' = IF IsCounted(code) THEN Plus(m, code) ELSE m
  BY DEF Answer
<1>3. /\ answers \in [Told -> Nat] /\ metrics \in [Counters -> Nat]
      /\ conns \in [Conns -> Request \cup {Free}] /\ intakes \in Nat /\ poll \in Poll
      /\ IsFiniteSet(Flight) /\ ReportsAddUp
  BY DEF CountInv, CountTypes
<1>4. /\ conns' \in [Conns -> Request \cup {Free}]
      /\ Flight' = Flight \ {c} /\ c \in Flight
  BY <1>1, <1>3 DEF Flight
<1>5. /\ IsFiniteSet(Flight') /\ Cardinality(Flight') = Cardinality(Flight) - 1
      /\ Cardinality(Flight) \in Nat
  BY <1>3, <1>4, FS_RemoveElement, FS_CardinalityType
<1>6. /\ answers' \in [Told -> Nat] /\ Total(answers') = Total(answers) + 1
      /\ \A d \in {"401", "403", "429"} : answers'[d] = IF d = code THEN answers[d] + 1 ELSE answers[d]
  <2>1. kind \in Told /\ \A d \in {"401", "403", "429"} : d \in Told /\ (d = kind <=> d = code)
    BY DEF Told, IsCounted
  <2> HIDE DEF kind
  <2> QED
    BY <1>1, <1>3, <2>1, TotalOfOneMore
<1>7. Total(answers) \in Nat
  BY <1>3 DEF Total, Told
<1>8. /\ metrics' \in [Counters -> Nat]
      /\ metrics'["requests"] = metrics["requests"]
      /\ \A d \in {"401", "403", "429"} : metrics'[d] = IF d = code THEN metrics[d] + 1 ELSE metrics[d]
  <2>1. CASE IsCounted(code)
    <3>1. code \in Counters /\ code # "requests"
      BY <2>1 DEF IsCounted, Counters
    <3>2. metrics' = Plus(m, code)
      BY <1>2, <2>1
    <3>3. /\ Plus(m, code) \in [Counters -> Nat]
          /\ \A d \in Counters : Plus(m, code)[d] = IF d = code THEN m[d] + 1 ELSE m[d]
      BY <3>1, PlusCounter
    <3>4. {"requests", "401", "403", "429"} \subseteq Counters
      BY DEF Counters
    <3> QED
      BY <3>1, <3>2, <3>3, <3>4
  <2>2. CASE ~IsCounted(code)
    BY <1>2, <2>2 DEF IsCounted
  <2> QED
    BY <2>1, <2>2
<1>9. ReportsAddUp'
  <2>1. (metrics["requests"] = Total(answers) + Cardinality(Flight)) /\ \A d \in {"401", "403", "429"} : metrics[d] = answers[d]
    BY <1>3, AddUpMeans
  <2>2. metrics'["requests"] = Total(answers') + Cardinality(Flight')
    BY <1>5, <1>6, <1>7, <1>8, <2>1
  <2>3. \A d \in {"401", "403", "429"} : metrics'[d] = answers'[d]
    BY <1>6, <1>8, <2>1
  <2> QED
    BY <2>2, <2>3 DEF ReportsAddUp, SecurityReport, Flight, Total
<1>10. poll' \in Poll /\ PollIsSound'
  <2>1. CASE conns[c].polled /\ poll.waits = conns[c].route
    <3>1. conns[c].route # "no"
      BY <1>3, <2>1 DEF Request, Routes, Free
    <3>2. CASE poll.waits = "health"
      <4>1. poll' = [poll EXCEPT !.waits = "healthy"]
        BY <2>1, <3>2 DEF Answer, PollHears
      <4> QED
        BY <3>2, <4>1, PollMoves
    <3>3. CASE poll.waits # "health" /\ code = "200"
      BY <2>1, <3>1, <3>3, PollSaysKeeps DEF Answer, PollHears
    <3>4. CASE poll.waits # "health" /\ code # "200"
      BY <2>1, <3>4, PollSaysKeeps DEF Answer, PollHears
    <3> QED
      BY <3>2, <3>3, <3>4
  <2>2. CASE ~(conns[c].polled /\ poll.waits = conns[c].route)
    BY <1>3, <2>2, SamePoll DEF Answer
  <2> QED
    BY <2>1, <2>2
<1> QED
  BY <1>3, <1>4, <1>5, <1>6, <1>8, <1>9, <1>10 DEF CountInv, CountTypes

\* A request that arrives: one in progress more, and counted.
LEMMA ArriveKeeps ==
  ASSUME CountInv, NEW c \in Conns, NEW who \in Callers \cup {Nobody}, NEW h \in Hosts, NEW r \in Routes,
         NEW polled \in BOOLEAN, Arrive(c, who, h, r, polled), UNCHANGED answers
  PROVE  /\ metrics' \in [Counters -> Nat] /\ conns' \in [Conns -> Request \cup {Free}]
         /\ IsFiniteSet(Flight)' /\ ReportsAddUp'
<1> DEFINE new == [at |-> IF r = "health" THEN "handle" ELSE "auth",
                   who |-> who, host |-> h, route |-> r, polled |-> polled]
<1>1. new \in Request /\ new # Free
  BY DEF Request, Free
<1>2. conns[c] = Free /\ metrics' = Plus(metrics, "requests") /\ conns' = [conns EXCEPT ![c] = new]
  BY DEF Arrive, CountedFirst
<1> HIDE DEF new
<1>3. /\ answers \in [Told -> Nat] /\ metrics \in [Counters -> Nat]
      /\ conns \in [Conns -> Request \cup {Free}]
      /\ IsFiniteSet(Flight) /\ ReportsAddUp
  BY DEF CountInv, CountTypes
<1>4. /\ conns' \in [Conns -> Request \cup {Free}]
      /\ Flight' = Flight \cup {c} /\ c \notin Flight
  BY <1>1, <1>2, <1>3 DEF Flight
<1>5. /\ IsFiniteSet(Flight') /\ Cardinality(Flight') = Cardinality(Flight) + 1
      /\ Cardinality(Flight) \in Nat
  BY <1>3, <1>4, FS_AddElement, FS_CardinalityType
<1>6. /\ metrics' \in [Counters -> Nat]
      /\ \A d \in Counters : metrics'[d] = IF d = "requests" THEN metrics[d] + 1 ELSE metrics[d]
  BY <1>2, <1>3, PlusCounter DEF Counters
<1>7. Total(answers) \in Nat
  BY <1>3 DEF Total, Told
<1>8. /\ metrics["requests"] = Total(answers) + Cardinality(Flight)
      /\ \A d \in {"401", "403", "429"} : metrics[d] = answers[d]
  BY <1>3, AddUpMeans
<1>9. metrics'["requests"] = Total(answers') + Cardinality(Flight')
  BY <1>5, <1>6, <1>7, <1>8 DEF Counters, Total
<1>10. \A d \in {"401", "403", "429"} : metrics'[d] = answers'[d]
  BY <1>6, <1>8 DEF Counters
<1>11. ReportsAddUp'
  BY <1>9, <1>10 DEF ReportsAddUp, SecurityReport, Flight
<1> QED
  BY <1>4, <1>5, <1>6, <1>11

\* Every step keeps the counts, the answers and the requests in progress together.
LEMMA CountStep == CountInv /\ [GateNext]_gateVars => CountInv'
<1> SUFFICES ASSUME CountInv, [GateNext]_gateVars PROVE CountInv'
  OBVIOUS
<1>0. /\ CountTypes /\ metrics \in [Counters -> Nat] /\ intakes \in Nat /\ intakes >= intakes
      /\ conns \in [Conns -> Request \cup {Free}] /\ poll \in Poll /\ answers \in [Told -> Nat]
      /\ IsFiniteSet(Flight) /\ ReportsAddUp /\ PollIsSound
  BY DEF CountInv, CountTypes
<1>1. ASSUME NEW c \in Conns, BadBody(c) \/ Unknown(c) \/ Limited(c) PROVE CountInv'
  <2>1. conns[c] # Free /\ UNCHANGED intakes
    BY <1>1 DEF BadBody, Unknown, Limited, Free
  <2>2. PICK code \in Codes : Answer(c, code, metrics)
    BY <1>1 DEF BadBody, Unknown, Limited, Codes
  <2> QED
    BY <1>0, <2>1, <2>2, AnswerKeeps
<1>2. ASSUME NEW c \in Conns, Admit(c) PROVE CountInv'
  <2>1. conns[c] # Free /\ UNCHANGED intakes /\ conns[c] \in Request
    BY <1>0, <1>2 DEF Admit, Free
  <2>2. CASE Answer(c, "403", metrics)
    BY <1>0, <2>1, <2>2, AnswerKeeps DEF Codes
  <2>3. CASE conns' = [conns EXCEPT ![c].at = "handle"] /\ UNCHANGED <<answers, metrics, poll>>
    <3>1. [conns[c] EXCEPT !.at = "handle"] \in Request
      BY <2>1 DEF Request
    <3>2. conns' \in [Conns -> Request \cup {Free}] /\ Flight' = Flight
      BY <1>0, <2>1, <2>3, <3>1, RequestIsNotFree DEF Flight
    <3>3. PollIsSound'
      BY <1>0, <2>1, <2>3, SamePoll
    <3>4. IsFiniteSet(Flight)' /\ ReportsAddUp'
      BY <2>3, <3>2, SameCounts
    <3> QED
      BY <1>0, <2>1, <2>3, <3>2, <3>3, <3>4 DEF CountInv, CountTypes
  <2> QED
    BY <1>2, <2>2, <2>3 DEF Admit
<1>3. ASSUME NEW c \in Conns, HandleHealth(c) \/ HandleIntake(c) \/ HandleSummary(c) PROVE CountInv'
  <2>1. conns[c] # Free /\ intakes' \in Nat /\ intakes' >= intakes
    BY <1>0, <1>3 DEF HandleHealth, HandleIntake, HandleSummary, Handling, Free
  <2>2. PICK code \in Codes : Answer(c, code, metrics)
    BY <1>3 DEF HandleHealth, HandleIntake, HandleSummary, Codes
  <2> QED
    BY <1>0, <2>1, <2>2, AnswerKeeps
<1>4. ASSUME NEW c \in Conns, HandleSandbox(c) PROVE CountInv'
  <2>1. PICK r \in Features :
          /\ Handling(c, r)
          /\ \/ r \notin flags /\ UNCHANGED intakes /\ Answer(c, "200", metrics)
             \/ r \in flags /\ intakes' = intakes + (IF r = "inbound" THEN 1 ELSE 0)
                /\ Answer(c, "200", Plus(metrics, CounterOf(r)))
             \/ r = "sheet" /\ r \in flags /\ UNCHANGED intakes /\ Answer(c, "200", metrics)
             \/ r \in {"inbound", "sheet"} \cap flags /\ UNCHANGED intakes /\ Answer(c, "500", metrics)
    BY <1>4 DEF HandleSandbox
  <2>2. conns[c] # Free /\ intakes' \in Nat /\ intakes' >= intakes
    BY <1>0, <2>1 DEF Handling, Free
  <2>3. CounterOf(r) \in Counters \ {"requests", "401", "403", "429"}
    BY <2>1 DEF Features, Routes, CounterOf, Counters
  <2>4. /\ Plus(metrics, CounterOf(r)) \in [Counters -> Nat]
        /\ \A n \in {"requests", "401", "403", "429"} : Plus(metrics, CounterOf(r))[n] = metrics[n]
    <3> DEFINE n == CounterOf(r)
    <3> HIDE DEF n
    <3>1. n \in Counters /\ n \notin {"requests", "401", "403", "429"}
      BY <2>3 DEF n
    <3>2. /\ Plus(metrics, n) \in [Counters -> Nat]
          /\ \A d \in Counters : Plus(metrics, n)[d] = IF d = n THEN metrics[d] + 1 ELSE metrics[d]
      BY <1>0, <3>1, PlusCounter
    <3>3. \A d \in {"requests", "401", "403", "429"} : d \in Counters /\ d # n
      BY <3>1 DEF Counters
    <3>4. Plus(metrics, n) \in [Counters -> Nat] /\ \A d \in {"requests", "401", "403", "429"} : Plus(metrics, n)[d] = metrics[d]
      BY <3>2, <3>3
    <3> QED
      BY <3>4 DEF n
  <2>5. CASE Answer(c, "200", Plus(metrics, CounterOf(r)))
    BY <2>2, <2>4, <2>5, AnswerKeeps DEF Codes
  <2>6. CASE \E code \in Codes : Answer(c, code, metrics)
    BY <1>0, <2>2, <2>6, AnswerKeeps
  <2> QED
    BY <2>1, <2>5, <2>6 DEF Codes
<1>5. ASSUME NEW c \in Conns, NEW k \in Asked, NewRequest(c, k[1], k[2], k[3]) PROVE CountInv'
  <2>1. k[1] \in Callers \cup {Nobody} /\ k[2] \in Hosts /\ k[3] \in Routes
    BY GateAssumption
  <2>2. UNCHANGED <<intakes, poll, answers>> /\ Arrive(c, k[1], k[2], k[3], FALSE)
    BY <1>5 DEF NewRequest
  <2>3. PollIsSound'
    BY <1>0, <2>2, SamePoll
  <2> QED
    BY <1>0, <2>1, <2>2, <2>3, ArriveKeeps DEF CountInv, CountTypes
<1>6. ASSUME NEW c \in Conns, PollSummary(c) PROVE CountInv'
  <2>1. PICK who \in {"dashboard", Nobody} : Arrive(c, who, PollHost, "summary", TRUE)
    BY <1>6 DEF PollSummary
  <2>2. UNCHANGED <<intakes, answers>> /\ poll.waits = "healthy" /\ poll' = [poll EXCEPT !.waits = "summary"]
    BY <1>6 DEF PollSummary
  <2>3. poll' \in Poll /\ PollIsSound'
    BY <1>0, <2>2, PollMoves
  <2>4. who \in Callers \cup {Nobody} /\ "summary" \in Routes /\ PollHost \in Hosts
    BY GateAssumption DEF Routes
  <2> QED
    BY <1>0, <2>1, <2>2, <2>3, <2>4, ArriveKeeps DEF CountInv, CountTypes
<1>7. ASSUME NEW c \in Conns, PollHealth(c) PROVE CountInv'
  <2>1. /\ Arrive(c, Nobody, PollHost, "health", TRUE) /\ UNCHANGED <<intakes, answers>>
        /\ poll' = [waits |-> "health", from |-> intakes, status |-> "none", count |-> 0]
    BY <1>7 DEF PollHealth
  <2>2. poll' \in Poll /\ PollIsSound'
    BY <1>0, <2>1 DEF Poll, PollIsSound, CountIsOfThePoll
  <2>3. Nobody \in Callers \cup {Nobody} /\ "health" \in Routes /\ PollHost \in Hosts
    BY GateAssumption DEF Routes
  <2> QED
    BY <1>0, <2>1, <2>2, <2>3, ArriveKeeps DEF CountInv, CountTypes
<1>11. CASE PollUnreached
  <2>1. UNCHANGED <<metrics, intakes, conns, answers>> /\ PollSays("unavailable", 0)
    BY <1>11 DEF PollUnreached
  <2>2. IsFiniteSet(Flight)' /\ ReportsAddUp'
    BY <2>1, SameCounts DEF Flight
  <2>3. poll' \in Poll /\ PollIsSound'
    BY <1>0, <2>1, PollSaysKeeps
  <2> QED
    BY <1>0, <2>1, <2>2, <2>3 DEF CountInv, CountTypes
<1>8. CASE PollGivesUp
  <2>1. UNCHANGED <<metrics, intakes, answers>> /\ (PollSays("unavailable", 0) \/ PollSays("degraded", 0))
    BY <1>8 DEF PollGivesUp, PollFails
  <2>2. conns' = [c \in Conns |-> IF conns[c].at = "free" THEN Free ELSE [conns[c] EXCEPT !.polled = FALSE]]
    BY <1>8 DEF PollGivesUp
  <2>3. ASSUME NEW c \in Conns
        PROVE  conns'[c] \in Request \cup {Free} /\ (conns'[c] # Free <=> conns[c] # Free)
    <3>1. CASE conns[c] = Free
      BY <2>2, <3>1 DEF Free
    <3>2. CASE conns[c] \in Request
      <4>1. conns[c].at # "free" /\ [conns[c] EXCEPT !.polled = FALSE] \in Request
        BY <3>2 DEF Request
      <4> QED
        BY <2>2, <3>2, <4>1, RequestIsNotFree
    <3> QED
      BY <1>0, <3>1, <3>2
  <2>4. conns' \in [Conns -> Request \cup {Free}] /\ Flight' = Flight
    BY <2>2, <2>3 DEF Flight
  <2>5. IsFiniteSet(Flight)' /\ ReportsAddUp'
    BY <2>1, <2>4, SameCounts
  <2>6. poll' \in Poll /\ PollIsSound'
    BY <1>0, <2>1, PollSaysKeeps
  <2> QED
    BY <1>0, <2>1, <2>4, <2>5, <2>6 DEF CountInv, CountTypes
<1>9. CASE RestartGate
  <2>1. /\ metrics' = Zeros(Counters) /\ answers' = Zeros(Told) /\ conns' = [c \in Conns |-> Free]
        /\ UNCHANGED intakes
        /\ (PollSays("unavailable", 0) \/ PollSays("degraded", 0) \/ UNCHANGED poll)
    BY <1>9 DEF RestartGate, PollFails
  <2>2. Flight' = {}
    BY <2>1 DEF Flight
  <2>3. IsFiniteSet(Flight') /\ Cardinality(Flight') = 0
    BY <2>2, FS_EmptySet
  <2>4. ReportsAddUp'
    BY <2>1, <2>3 DEF ReportsAddUp, SecurityReport, Flight, Zeros, Counters, Told, Total
  <2>5. poll' \in Poll /\ PollIsSound'
    BY <1>0, <2>1, PollSaysKeeps, SamePoll
  <2> QED
    BY <1>0, <2>1, <2>3, <2>4, <2>5 DEF CountInv, CountTypes, Zeros
<1>10. CASE PassSecond \/ UNCHANGED gateVars
  <2>1. UNCHANGED <<metrics, intakes, conns, poll, answers>>
    BY <1>10 DEF PassSecond, gateVars
  <2>2. IsFiniteSet(Flight)' /\ ReportsAddUp'
    BY <2>1, SameCounts DEF Flight
  <2>3. PollIsSound'
    BY <1>0, <2>1, SamePoll
  <2> QED
    BY <1>0, <2>1, <2>2, <2>3 DEF CountInv, CountTypes
<1> QED
  BY <1>1, <1>2, <1>3, <1>4, <1>5, <1>6, <1>7, <1>8, <1>9, <1>10, <1>11 DEF GateNext

(* agents/jessie/api/main.py: at every moment, for any number of           *)
(* connections, callers and restarts, the requests that were counted, the  *)
(* open /health among them, are those that were answered and those in      *)
(* progress, every refusal was counted once, and the number of intakes a dashboard was told lies       *)
(* between those at the begin of its poll and those at its end.            *)
THEOREM NumbersAreAlwaysTrue == GateSpec => []NumbersAreTrue
<1>1. CountInv => NumbersAreTrue
  BY DEF CountInv, PollIsSound, NumbersAreTrue
<1> QED
  BY GateInitInv, CountStep, <1>1, PTL DEF GateSpec
-----------------------------------------------------------------------------
(* The window of JessieGate: the list of a key has in the window what was  *)
(* admitted in it, and each of its entries is an admission of its own.     *)

TimeLists == [Keys -> SUBSET (Nat \X Nat)]

WindowTypes ==
  /\ now \in Nat /\ conns \in [Conns -> Request \cup {Free}]
  /\ buckets \in TimeLists /\ admitted \in TimeLists

\* What is in the window was admitted, and what was admitted is in the window.
ListIsWindow(k) ==
  /\ IsFiniteSet(buckets[k]) /\ Cardinality(buckets[k]) <= Limit
  /\ Recent(k) = InWindow(admitted[k])

\* The entries of one moment are numbered from 0 on.
Numbered(S) == \A e \in S : e[2] < Cardinality({f \in S : f[1] = e[1]})

WindowInv ==
  /\ WindowTypes /\ ~unearned
  /\ \A k \in Keys : ListIsWindow(k) /\ Numbered(buckets[k])

\* What is recent is a part of the list with all the entries of a moment.
LEMMA RecentIs ==
  ASSUME WindowInv, NEW k \in Keys
  PROVE  /\ Recent(k) \subseteq buckets[k] /\ Recent(k) \in SUBSET (Nat \X Nat)
         /\ IsFiniteSet(Recent(k)) /\ Cardinality(Recent(k)) \in Nat
         /\ Cardinality(Recent(k)) <= Limit
         /\ \A e \in Recent(k) : {f \in Recent(k) : f[1] = e[1]} = {f \in buckets[k] : f[1] = e[1]}
         /\ Numbered(Recent(k))
<1>1. /\ IsFiniteSet(buckets[k]) /\ Cardinality(buckets[k]) <= Limit /\ Numbered(buckets[k])
      /\ buckets[k] \in SUBSET (Nat \X Nat) /\ Limit \in Nat
  BY GateAssumption DEF WindowInv, WindowTypes, TimeLists, ListIsWindow
<1>2. Recent(k) \subseteq buckets[k]
  BY DEF Recent
<1>3. /\ IsFiniteSet(Recent(k)) /\ Cardinality(Recent(k)) <= Cardinality(buckets[k])
      /\ Cardinality(Recent(k)) \in Nat /\ Cardinality(buckets[k]) \in Nat
  BY <1>1, <1>2, FS_Subset, FS_CardinalityType
<1>4. \A e \in Recent(k) : {f \in Recent(k) : f[1] = e[1]} = {f \in buckets[k] : f[1] = e[1]}
  BY DEF Recent
<1>5. Numbered(Recent(k))
  BY <1>1, <1>2, <1>4 DEF Numbered
<1> QED
  BY <1>1, <1>2, <1>3, <1>4, <1>5

\* An admission is an entry no admission of this process had.
LEMMA EntryIsNew ==
  ASSUME WindowInv, NEW k \in Keys
  PROVE  /\ NewEntry(k) \in Nat \X Nat /\ NewEntry(k) \notin admitted[k]
         /\ NewEntry(k) \notin Recent(k)
         /\ NewEntry(k)[1] = now /\ NewEntry(k)[2] = Cardinality({f \in Recent(k) : f[1] = now})
<1> DEFINE same == {f \in Recent(k) : f[1] = now}
<1>1. IsFiniteSet(Recent(k)) /\ Numbered(Recent(k))
  BY RecentIs
<1>2. IsFiniteSet(same) /\ Cardinality(same) \in Nat
  BY <1>1, FS_Subset, FS_CardinalityType
<1>3. now \in Nat /\ Span \in Nat \ {0} /\ admitted \in TimeLists /\ Recent(k) = InWindow(admitted[k])
  BY GateAssumption DEF WindowInv, WindowTypes, ListIsWindow
<1>4. NewEntry(k) = <<now, Cardinality(same)>>
  BY DEF NewEntry
<1> HIDE DEF same
<1>5. NewEntry(k)[1] = now /\ NewEntry(k)[2] = Cardinality(same) /\ NewEntry(k) \in Nat \X Nat
  BY <1>2, <1>3, <1>4
<1>6. NewEntry(k) \notin Recent(k)
  <2> SUFFICES ASSUME NewEntry(k) \in Recent(k)
               PROVE  FALSE
    OBVIOUS
  <2>1. {f \in Recent(k) : f[1] = NewEntry(k)[1]} = same
    BY <1>5 DEF same
  <2>2. NewEntry(k)[2] < Cardinality({f \in Recent(k) : f[1] = NewEntry(k)[1]})
    BY <1>1 DEF Numbered
  <2>3. Cardinality(same) < Cardinality(same)
    BY <1>5, <2>1, <2>2
  <2> QED
    BY <1>2, <2>3
<1>7. NewEntry(k) \in admitted[k] => NewEntry(k) \in InWindow(admitted[k])
  BY <1>3, <1>5 DEF InWindow
<1> QED
  BY <1>3, <1>5, <1>6, <1>7 DEF same

\* A list with one new entry is numbered as the old one was.
LEMMA NumberedOneMore ==
  ASSUME NEW S \in SUBSET (Nat \X Nat), IsFiniteSet(S), Numbered(S), NEW t \in Nat, NEW e,
         e = <<t, Cardinality({f \in S : f[1] = t})>>
  PROVE  Numbered(S \cup {e})
<1> DEFINE of(T, u) == {f \in T : f[1] = u}
<1>1. \A u : IsFiniteSet(of(S, u)) /\ Cardinality(of(S, u)) \in Nat
  BY FS_Subset, FS_CardinalityType
<1>2. e[1] = t /\ e[2] = Cardinality(of(S, t))
  OBVIOUS
<1>3. e \notin S
  <2>1. e \in S => e[2] < Cardinality(of(S, t))
    BY <1>2 DEF Numbered
  <2> QED
    BY <1>1, <1>2, <2>1
<1>4. of(S \cup {e}, t) = of(S, t) \cup {e} /\ e \notin of(S, t)
  BY <1>2, <1>3
<1>5. Cardinality(of(S \cup {e}, t)) = Cardinality(of(S, t)) + 1
  <2>1. IsFiniteSet(of(S, t))
    BY <1>1
  <2> HIDE DEF of
  <2> QED
    BY <2>1, <1>4, FS_AddElement
<1>6. ASSUME NEW f \in S \cup {e}
      PROVE  f[2] < Cardinality(of(S \cup {e}, f[1]))
  <2>1. CASE f = e
    <3>1. f[1] = t /\ f[2] = Cardinality(of(S, t)) /\ Cardinality(of(S, t)) \in Nat
      BY <1>1, <1>2, <2>1
    <3> HIDE DEF of
    <3> QED
      BY <1>5, <3>1
  <2>2. CASE f \in S /\ f[1] = t
    <3>1. f[2] < Cardinality(of(S, t)) /\ f[2] \in Nat /\ Cardinality(of(S, t)) \in Nat
      BY <1>1, <2>2 DEF Numbered
    <3> HIDE DEF of
    <3> QED
      BY <1>5, <2>2, <3>1
  <2>3. CASE f \in S /\ f[1] # t
    <3>1. of(S \cup {e}, f[1]) = of(S, f[1])
      BY <1>2, <2>3
    <3>2. f[2] < Cardinality(of(S, f[1]))
      BY <2>3 DEF Numbered
    <3> QED
      BY <3>1, <3>2
  <2> QED
    BY <1>6, <2>1, <2>2, <2>3
<1> QED
  BY <1>6 DEF Numbered

\* A list is dropped to what is recent, with or without a new entry.
LEMMA DropKeeps ==
  ASSUME WindowInv, NEW k \in Keys, UNCHANGED now, conns' \in [Conns -> Request \cup {Free}],
         ~unearned',
         \/ buckets' = [buckets EXCEPT ![k] = Recent(k)] /\ UNCHANGED admitted
         \/ /\ Cardinality(Recent(k)) < Limit
            /\ buckets' = [buckets EXCEPT ![k] = Recent(k) \cup {NewEntry(k)}]
            /\ admitted' = [admitted EXCEPT ![k] = InWindow(@) \cup {NewEntry(k)}]
  PROVE  WindowInv'
<1>0. /\ now \in Nat /\ buckets \in TimeLists /\ admitted \in TimeLists /\ Limit \in Nat /\ Span \in Nat \ {0}
      /\ \A q \in Keys : ListIsWindow(q) /\ Numbered(buckets[q])
  BY GateAssumption DEF WindowInv, WindowTypes
<1>1. /\ Recent(k) \in SUBSET (Nat \X Nat) /\ IsFiniteSet(Recent(k)) /\ Cardinality(Recent(k)) \in Nat
      /\ Cardinality(Recent(k)) <= Limit /\ Numbered(Recent(k)) /\ Recent(k) = InWindow(admitted[k])
  BY RecentIs, <1>0 DEF ListIsWindow
<1>2. NewEntry(k) \in Nat \X Nat /\ NewEntry(k) \notin Recent(k) /\ NewEntry(k)[1] = now
      /\ NewEntry(k) = <<now, Cardinality({f \in Recent(k) : f[1] = now})>>
  BY EntryIsNew DEF NewEntry
<1>3. /\ IsFiniteSet(Recent(k) \cup {NewEntry(k)})
      /\ Cardinality(Recent(k) \cup {NewEntry(k)}) = Cardinality(Recent(k)) + 1
      /\ Numbered(Recent(k) \cup {NewEntry(k)})
  BY <1>0, <1>1, <1>2, FS_AddElement, NumberedOneMore
<1>4. /\ buckets' \in TimeLists /\ admitted' \in TimeLists
      /\ \A q \in Keys \ {k} : buckets'[q] = buckets[q] /\ admitted'[q] = admitted[q]
  <2>1. Recent(k) \cup {NewEntry(k)} \in SUBSET (Nat \X Nat)
    BY <1>1, <1>2
  <2> HIDE DEF Recent, NewEntry
  <2> QED
    BY <1>0, <1>1, <2>1 DEF TimeLists
<1>5. \A q \in Keys \ {k} : (ListIsWindow(q) /\ Numbered(buckets[q]))'
  BY <1>0, <1>4 DEF ListIsWindow, Recent, InWindow
<1>6. (ListIsWindow(k) /\ Numbered(buckets[k]))'
  <2>1. CASE buckets' = [buckets EXCEPT ![k] = Recent(k)] /\ UNCHANGED admitted
    <3>1. buckets'[k] = Recent(k) /\ admitted'[k] = admitted[k] /\ now' = now
      BY <1>0, <2>1 DEF TimeLists
    <3>2. Recent(k)' = Recent(k) /\ InWindow(admitted[k])' = InWindow(admitted[k])
      BY <3>1 DEF Recent, InWindow
    <3> QED
      BY <1>1, <3>1, <3>2 DEF ListIsWindow
  <2>2. CASE /\ Cardinality(Recent(k)) < Limit
             /\ buckets' = [buckets EXCEPT ![k] = Recent(k) \cup {NewEntry(k)}]
             /\ admitted' = [admitted EXCEPT ![k] = InWindow(@) \cup {NewEntry(k)}]
    <3>1. /\ buckets'[k] = Recent(k) \cup {NewEntry(k)} /\ now' = now
          /\ admitted'[k] = InWindow(admitted[k]) \cup {NewEntry(k)}
      BY <1>0, <2>2 DEF TimeLists
    <3>2. Recent(k)' = InWindow(admitted[k])'
      BY <1>1, <3>1 DEF Recent, InWindow
    <3>3. Cardinality(Recent(k) \cup {NewEntry(k)}) <= Limit
      BY <1>0, <1>1, <1>3, <2>2
    <3> QED
      BY <1>3, <3>1, <3>2, <3>3 DEF ListIsWindow
  <2> QED
    BY <2>1, <2>2
<1> QED
  BY <1>0, <1>4, <1>5, <1>6 DEF WindowInv, WindowTypes

\* A step that leaves the lists and the clock alone.
LEMMA SameLists ==
  ASSUME WindowInv, UNCHANGED <<now, buckets, admitted, unearned>>,
         conns' \in [Conns -> Request \cup {Free}]
  PROVE  WindowInv'
  BY DEF WindowInv, WindowTypes, ListIsWindow, Recent, InWindow

\* A request that ends is one of the requests no more.
LEMMA AnswerConns ==
  ASSUME NEW c \in Conns, NEW code, NEW m, Answer(c, code, m),
         conns \in [Conns -> Request \cup {Free}]
  PROVE  conns' \in [Conns -> Request \cup {Free}]
  BY DEF Answer

\* A key that asks with a name of its own has a list.
LEMMA CallerHasKey ==
  ASSUME conns \in [Conns -> Request \cup {Free}], NEW c \in Conns, conns[c].at = "auth",
         conns[c].who # Nobody
  PROVE  KeyOf(c) \in Keys
  BY DEF KeyOf, Request, Free, Keys

\* One step of the API: only Limited, Admit, a restart and the clock touch a list.
LEMMA WindowStep == WindowInv /\ [GateNext]_gateVars => WindowInv'
<1> SUFFICES ASSUME WindowInv, [GateNext]_gateVars
             PROVE  WindowInv'
  OBVIOUS
<1>0. conns \in [Conns -> Request \cup {Free}] /\ now \in Nat /\ ~unearned
      /\ Limit \in Nat \ {0} /\ Span \in Nat \ {0}
  BY GateAssumption DEF WindowInv, WindowTypes
<1>1. ASSUME NEW c \in Conns, NEW who \in Callers \cup {Nobody}, NEW h \in Hosts, NEW r \in Routes,
             NEW polled \in BOOLEAN, Arrive(c, who, h, r, polled), UNCHANGED <<now, buckets, admitted, unearned>>
      PROVE  WindowInv'
  <2>1. [at |-> IF r = "health" THEN "handle" ELSE "auth",
         who |-> who, host |-> h, route |-> r, polled |-> polled] \in Request
    BY DEF Request
  <2>2. conns' \in [Conns -> Request \cup {Free}]
    BY <1>0, <1>1, <2>1 DEF Arrive
  <2> QED
    BY <1>1, <2>2, SameLists
<1>2. ASSUME NEW c \in Conns, NEW k \in Asked, NewRequest(c, k[1], k[2], k[3])
      PROVE  WindowInv'
  <2>1. k[1] \in Callers \cup {Nobody} /\ k[2] \in Hosts /\ k[3] \in Routes
    BY GateAssumption
  <2> QED
    BY <1>1, <1>2, <2>1 DEF NewRequest
<1>3. ASSUME NEW c \in Conns, PollSummary(c)
      PROVE  WindowInv'
  <2>1. PICK who \in {"dashboard", Nobody} : Arrive(c, who, PollHost, "summary", TRUE)
    BY <1>3 DEF PollSummary
  <2>2. who \in Callers \cup {Nobody} /\ "summary" \in Routes /\ PollHost \in Hosts
    BY <2>1, GateAssumption DEF Routes
  <2> QED
    BY <1>1, <1>3, <2>1, <2>2 DEF PollSummary
<1>4. ASSUME NEW c \in Conns, NEW code, NEW m, Answer(c, code, m), UNCHANGED <<now, buckets, admitted, unearned>>
      PROVE  WindowInv'
  BY <1>0, <1>4, AnswerConns, SameLists
<1>5. ASSUME NEW c \in Conns, BadBody(c) \/ Unknown(c) \/ HandleHealth(c) \/ HandleIntake(c)
             \/ HandleSummary(c) \/ HandleSandbox(c)
      PROVE  WindowInv'
  BY <1>4, <1>5 DEF BadBody, Unknown, HandleHealth, HandleIntake, HandleSummary, HandleSandbox
<1>6. ASSUME NEW c \in Conns, Limited(c)
      PROVE  WindowInv'
  <2> DEFINE k == KeyOf(c)
  <2>1. k \in Keys /\ UNCHANGED <<now, admitted>>
    BY <1>0, <1>6, CallerHasKey DEF Limited
  <2>2. buckets' = [buckets EXCEPT ![k] = Recent(k)] /\ Cardinality(Recent(k)) >= Limit
        /\ (unearned' <=> unearned \/ Cardinality(InWindow(admitted[k])) < Limit)
    BY <1>6 DEF Limited
  <2>3. conns' \in [Conns -> Request \cup {Free}]
    BY <1>0, <1>6, AnswerConns DEF Limited
  <2> HIDE DEF k
  <2>4. ~unearned'
    <3>1. Cardinality(InWindow(admitted[k])) = Cardinality(Recent(k)) /\ Cardinality(Recent(k)) \in Nat
      BY <2>1, RecentIs DEF WindowInv, ListIsWindow
    <3> QED
      BY <1>0, <2>2, <3>1
  <2> QED
    BY <2>1, <2>2, <2>3, <2>4, DropKeeps
<1>7. ASSUME NEW c \in Conns, Admit(c)
      PROVE  WindowInv'
  <2> DEFINE k == KeyOf(c)
  <2>1. k \in Keys /\ UNCHANGED <<now, unearned>>
    BY <1>0, <1>7, CallerHasKey DEF Admit
  <2>2. /\ Cardinality(Recent(k)) < Limit
        /\ buckets' = [buckets EXCEPT ![k] = Recent(k) \cup {NewEntry(k)}]
        /\ admitted' = [admitted EXCEPT ![k] = InWindow(@) \cup {NewEntry(k)}]
    BY <1>7 DEF Admit
  <2>3. conns' \in [Conns -> Request \cup {Free}]
    <3>1. CASE conns' = [conns EXCEPT ![c].at = "handle"]
      <4>1. conns[c] \in Request
        BY <1>0, <1>7 DEF Admit, Free
      <4>2. [conns[c] EXCEPT !.at = "handle"] \in Request
        BY <4>1 DEF Request
      <4> QED
        BY <1>0, <3>1, <4>2
    <3>2. CASE Answer(c, "403", metrics)
      BY <1>0, <3>2, AnswerConns
    <3> QED
      BY <1>7, <3>1, <3>2 DEF Admit
  <2> HIDE DEF k
  <2> QED
    BY <1>0, <2>1, <2>2, <2>3, DropKeeps
<1>8. ASSUME NEW c \in Conns, PollHealth(c)
      PROVE  WindowInv'
  <2>1. Nobody \in Callers \cup {Nobody} /\ "health" \in Routes /\ PollHost \in Hosts
    BY GateAssumption DEF Routes
  <2> QED
    BY <1>1, <1>8, <2>1 DEF PollHealth
<1>13. CASE PollUnreached
  BY <1>0, <1>13, SameLists DEF PollUnreached
<1>9. CASE PollGivesUp
  <2>1. ASSUME NEW c \in Conns, conns[c].at # "free"
        PROVE  [conns[c] EXCEPT !.polled = FALSE] \in Request
    <3>1. conns[c] \in Request
      BY <1>0, <2>1 DEF Free
    <3> QED
      BY <3>1 DEF Request
  <2>2. conns' \in [Conns -> Request \cup {Free}]
    BY <1>9, <2>1 DEF PollGivesUp
  <2> QED
    BY <1>9, <2>2, SameLists DEF PollGivesUp
<1>10. CASE RestartGate
  <2>1. /\ buckets' = [k \in Keys |-> {}] /\ admitted' = [k \in Keys |-> {}] /\ UNCHANGED <<now, unearned>>
        /\ conns' = [c \in Conns |-> Free]
    BY <1>10 DEF RestartGate
  <2>2. \A k \in Keys : buckets'[k] = {} /\ admitted'[k] = {}
    BY <2>1
  <2>3. IsFiniteSet({}) /\ Cardinality({}) = 0
    BY FS_EmptySet
  <2>4. \A k \in Keys : (ListIsWindow(k) /\ Numbered(buckets[k]))'
    BY <1>0, <2>2, <2>3 DEF ListIsWindow, Recent, InWindow, Numbered
  <2>5. WindowTypes'
    BY <1>0, <2>1 DEF WindowTypes, TimeLists
  <2> QED
    BY <1>0, <2>1, <2>4, <2>5 DEF WindowInv
<1>11. CASE PassSecond
  <2>1. now' = now + 1 /\ UNCHANGED <<buckets, admitted, unearned, conns>>
    BY <1>11 DEF PassSecond
  <2>2. ASSUME NEW k \in Keys
        PROVE  Recent(k)' = InWindow(admitted[k])'
    <3>1. buckets[k] \in SUBSET (Nat \X Nat) /\ admitted[k] \in SUBSET (Nat \X Nat)
      BY DEF WindowInv, WindowTypes, TimeLists
    <3>2. Recent(k) = InWindow(admitted[k])
      BY DEF WindowInv, ListIsWindow
    <3>3. ASSUME NEW S \in SUBSET (Nat \X Nat)
          PROVE  {e \in S : e[1] > (now + 1) - Span}
                   = {e \in {f \in S : f[1] > now - Span} : e[1] > (now + 1) - Span}
      BY <1>0, <3>3
    <3>4. Recent(k)' = {e \in Recent(k) : e[1] > (now + 1) - Span}
      BY <2>1, <3>1, <3>3 DEF Recent
    <3>5. InWindow(admitted[k])' = {e \in InWindow(admitted[k]) : e[1] > (now + 1) - Span}
      BY <2>1, <3>1, <3>3 DEF InWindow
    <3> QED
      BY <3>2, <3>4, <3>5
  <2>3. \A k \in Keys : (ListIsWindow(k) /\ Numbered(buckets[k]))'
    BY <2>1, <2>2 DEF WindowInv, ListIsWindow
  <2> QED
    BY <1>0, <2>1, <2>3 DEF WindowInv, WindowTypes
<1>12. CASE UNCHANGED gateVars
  BY <1>0, <1>12, SameLists DEF gateVars
<1> QED
  BY <1>2, <1>3, <1>5, <1>6, <1>7, <1>8, <1>9, <1>10, <1>11, <1>12, <1>13 DEF GateNext

\* Before the first request every list is empty.
LEMMA WindowInitInv == GateInit => WindowInv
<1> SUFFICES ASSUME GateInit PROVE WindowInv
  OBVIOUS
<1>1. \A k \in Keys : buckets[k] = {} /\ admitted[k] = {}
  BY DEF GateInit
<1>2. \A k \in Keys : ListIsWindow(k) /\ Numbered(buckets[k])
  <2>1. IsFiniteSet({}) /\ Cardinality({}) = 0 /\ 0 <= Limit
    BY FS_EmptySet, GateAssumption
  <2>2. \A k \in Keys : Recent(k) = {} /\ InWindow(admitted[k]) = {}
    BY <1>1 DEF Recent, InWindow
  <2> QED
    BY <1>1, <2>1, <2>2 DEF ListIsWindow, Numbered
<1> QED
  BY <1>2 DEF GateInit, WindowInv, WindowTypes, TimeLists

(* _check_rate_limit: for any number of callers, hosts, connections and    *)
(* restarts, a process admits a caller from one client host to a route at  *)
(* most Limit times in a window, and refuses nobody it had not admitted    *)
(* that often from there to that route.                                    *)
THEOREM LimitIsAlwaysExact == GateSpec => []LimitIsExact
<1>1. WindowInv => LimitIsExact
  <2> SUFFICES ASSUME WindowInv PROVE LimitIsExact
    OBVIOUS
  <2>1. \A k \in Keys : Recent(k) = InWindow(admitted[k]) /\ Cardinality(Recent(k)) <= Limit
    BY RecentIs DEF WindowInv, ListIsWindow
  <2> QED
    BY <2>1 DEF LimitIsExact, WindowHonoured, RefusalIsEarned, WindowInv
<1> QED
  BY <1>1, WindowInitInv, WindowStep, PTL DEF GateSpec

\* What the theorem counts are admissions: each one of them is an entry that
\* was not there, also the second one of a moment.
NewAdmission ==
  [][\A c \in Conns : Admit(c) =>
       LET k == KeyOf(c) IN NewEntry(k) \notin admitted[k]]_gateVars

(* _check_rate_limit appends a time for each request it admits.            *)
THEOREM AdmissionsAreToldApart == GateSpec => NewAdmission
<1>1. WindowInv => \A c \in Conns : Admit(c) =>
        LET k == KeyOf(c) IN NewEntry(k) \notin admitted[k]
  <2> SUFFICES ASSUME WindowInv, NEW c \in Conns, Admit(c)
               PROVE  NewEntry(KeyOf(c)) \notin admitted[KeyOf(c)]
    OBVIOUS
  <2>1. KeyOf(c) \in Keys
    BY CallerHasKey DEF WindowInv, WindowTypes, Admit
  <2> QED
    BY <2>1, EntryIsNew
<1> QED
  BY <1>1, WindowInitInv, WindowStep, PTL DEF GateSpec, NewAdmission

(* The API of Jessie keeps its types: no list of a key is longer than the  *)
(* limit, and the counters stay numbers.                                   *)
THEOREM GateTypeCorrect == GateSpec => []GateTypeOK
<1>1. CountInv /\ WindowInv => GateTypeOK
  <2> SUFFICES ASSUME CountInv, WindowInv PROVE GateTypeOK
    OBVIOUS
  <2>1. \A k \in Keys : Cardinality(buckets[k]) <= Limit
    BY DEF WindowInv, ListIsWindow
  <2>2. \A c \in Conns : conns[c].at \in {"free", "auth", "handle"}
    BY DEF CountInv, CountTypes, Request, Free
  <2>3. poll.waits \in {"no", "health", "healthy", "summary"} /\ poll.status \in {"none", "unavailable", "degraded", "ok"}
    BY DEF CountInv, CountTypes, Poll
  <2> QED
    BY <2>1, <2>2, <2>3 DEF CountInv, CountTypes, GateTypeOK
<1> QED
  BY <1>1, GateInitInv, CountStep, WindowInitInv, WindowStep, PTL DEF GateSpec
=============================================================================
