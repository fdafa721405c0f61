------------------------ MODULE AppointmentsProofs ------------------------
(***************************************************************************)
(* Theorems about Appointments for any number of threads, appointments and *)
(* instants.  CheckInv says what a finished conflict check still tells its *)
(* thread: nothing about the rows written since, all about the others.     *)
(***************************************************************************)
EXTENDS Appointments, TLAPS

\* The wall clocks a thread is about to write.
WantStart(c) == WallStart(wanted[c])
WantEnd(c) == WallEnd(wanted[c])

CheckInv ==
  \A c \in Calls : stage[c] # "idle" =>
    /\ Ordered(wanted[c])
    /\ \A j \in booked : \/ j \in missed[c] \/ j = target[c]
                         \/ WantEnd(c) <= startAt[j] \/ endAt[j] <= WantStart(c)
    /\ stage[c] = "update" /\ target[c] \notin missed[c] =>
         /\ seenStart[c] = startAt[target[c]]
         /\ seenEnd[c] = endAt[target[c]]

\* A wall clock is an integer, and those of a request with one offset are in
\* the order of its instants.
LEMMA Walls ==
  ASSUME NEW q \in Requests
  PROVE  /\ WallStart(q) \in Int /\ WallEnd(q) \in Int
         /\ Ordered(q) /\ q.fromZone = q.toZone => WallStart(q) < WallEnd(q)
         /\ q.fromZone \in Int /\ q.toZone \in Int /\ q.format \in {"aware", "naive"}
         /\ q.format # "aware" => q.fromZone = q.toZone
         /\ SomeRequest \in Requests
<1>1. /\ q.from \in Int /\ q.to \in Int /\ q.fromZone \in Int /\ q.toZone \in Int
      /\ q.format \in {"aware", "naive"}
      /\ q.format = "naive" => q.fromZone = 0 /\ q.toZone = 0
  BY AppointmentsAssumption
<1> QED
  BY <1>1 DEF WallStart, WallEnd, Ordered, SomeRequest

\* Every request keeps the types of the table.
LEMMA TypeStep == TypeOK /\ [Next]_vars => TypeOK'
<1> SUFFICES ASSUME TypeOK, [Next]_vars PROVE TypeOK'
  OBVIOUS
<1> USE DEF TypeOK, table, request, seen
<1>0. SomeRequest \in Requests /\ \A q \in Requests : /\ WallStart(q) \in Int /\ WallEnd(q) \in Int
                                                      /\ q.fromZone \in Int /\ q.toZone \in Int
  BY Walls, AppointmentsAssumption
<1>1. ASSUME NEW c \in Calls, NEW i \in Ids, NEW q \in Requests,
             CheckSchedule(c, i, q)
      PROVE  TypeOK'
  BY <1>1 DEF CheckSchedule, Check, Fresh
<1>2. ASSUME NEW c \in Calls, NEW i \in Ids, NEW q \in Requests,
             CheckReschedule(c, i, q)
      PROVE  TypeOK'
  BY <1>2 DEF CheckReschedule, Check
<1>3. ASSUME NEW c \in Calls, Insert(c)
      PROVE  TypeOK'
  BY <1>0, <1>3 DEF Insert, Written, Finish
<1>4. ASSUME NEW c \in Calls, Load(c)
      PROVE  TypeOK'
  BY <1>4 DEF Load
<1>5. ASSUME NEW c \in Calls, Update(c)
      PROVE  TypeOK'
  BY <1>0, <1>5 DEF Update, Unchanged, Written, Finish
<1>6. ASSUME NEW c \in Calls, Abandon(c)
      PROVE  TypeOK'
  BY <1>0, <1>6 DEF Abandon, Finish
<1>7. CASE UNCHANGED vars
  BY <1>7 DEF vars
<1> QED
  BY <1>1, <1>2, <1>3, <1>4, <1>5, <1>6, <1>7 DEF Next

\* What both writes do: row i becomes what the request asked for, unless its
\* datetimes are naive and another request wrote it since the check, and no
\* other row changes.
Writes(c) ==
  LET i == target[c] IN
  /\ stage[c] # "idle" /\ wanted[c] \in Requests
  /\ Written(c, i) /\ Finish(c)
  /\ booked' = booked \cup {i}
  /\ i \notin booked \/ i \notin missed[c] \/ wanted[c].format = "aware" => startAt'[i] = WantStart(c) /\ endAt'[i] = WantEnd(c)
  /\ \A j \in Ids \ {i} : startAt'[j] = startAt[j] /\ endAt'[j] = endAt[j]

\* An INSERT writes the interval its thread has checked.
LEMMA InsertWrites ==
  ASSUME TypeOK, NEW c \in Calls, Insert(c)
  PROVE  Writes(c)
BY DEF TypeOK, Insert, Writes, WantStart, WantEnd

\* So does the UPDATE of a reschedule, to a row that is there.
LEMMA UpdateWrites ==
  ASSUME TypeOK, CheckInv, NEW c \in Calls, Update(c)
  PROVE  Writes(c) /\ target[c] \in booked
<1>1. target[c] \in booked /\ target[c] \in Ids
  BY DEF TypeOK, Update
<1>2. target[c] \notin missed[c] => /\ seenStart[c] = startAt[target[c]]
                                    /\ seenEnd[c] = endAt[target[c]]
  BY DEF CheckInv, Update
<1> QED
  BY <1>1, <1>2 DEF TypeOK, Update, Unchanged, Writes, WantStart, WantEnd

\* A write is noted by every thread that has finished its check.
LEMMA WriteKeepsCheckInv ==
  ASSUME TypeOK, CheckInv, NEW c \in Calls, Writes(c)
  PROVE  CheckInv'
<1> SUFFICES ASSUME NEW d \in Calls, stage'[d] # "idle"
             PROVE  /\ Ordered(wanted'[d])
                    /\ \A j \in booked' : \/ j \in missed'[d] \/ j = target'[d]
                                          \/ WantEnd(d)' <= startAt'[j] \/ endAt'[j] <= WantStart(d)'
                    /\ stage'[d] = "update" /\ target'[d] \notin missed'[d] =>
                         /\ seenStart'[d] = startAt'[target'[d]]
                         /\ seenEnd'[d] = endAt'[target'[d]]
  BY DEF CheckInv
<1>1. d # c /\ stage[d] # "idle"
  BY DEF TypeOK, Writes, Finish
<1>2. /\ wanted'[d] = wanted[d] /\ target'[d] = target[d]
      /\ seenStart'[d] = seenStart[d] /\ seenEnd'[d] = seenEnd[d] /\ stage'[d] = stage[d]
      /\ missed'[d] = missed[d] \cup {target[c]}
  BY <1>1 DEF TypeOK, Writes, Finish, Written
<1>3. /\ booked' = booked \cup {target[c]}
      /\ \A j \in Ids \ {target[c]} : startAt'[j] = startAt[j] /\ endAt'[j] = endAt[j]
  BY DEF Writes
<1>4. booked \subseteq Ids /\ target[d] \in Ids
  BY DEF TypeOK
<1> QED
  BY <1>1, <1>2, <1>3, <1>4 DEF CheckInv, WantStart, WantEnd

\* What a finished check knows stays so.
LEMMA CheckInvStep == TypeOK /\ CheckInv /\ [Next]_vars => CheckInv'
<1> SUFFICES ASSUME TypeOK, CheckInv, [Next]_vars PROVE CheckInv'
  OBVIOUS
<1>1. ASSUME NEW c \in Calls, NEW i \in Ids, NEW q \in Requests,
             NEW next \in {"insert", "load"}, Check(c, i, q, next)
      PROVE  CheckInv'
  <2>1. WallStart(q) \in Int /\ WallEnd(q) \in Int /\ Ordered(q)
    BY <1>1, Walls DEF Check
  <2>2. \A j \in booked : startAt[j] \in Int /\ endAt[j] \in Int
    BY DEF TypeOK
  <2>3. \A j \in booked : j = i \/ WallEnd(q) <= startAt[j] \/ endAt[j] <= WallStart(q)
    BY <1>1, <2>1, <2>2 DEF Check, Conflicts
  <2> QED
    BY <1>1, <2>1, <2>3 DEF Check, CheckInv, WantStart, WantEnd, TypeOK, table, seen
<1>2. ASSUME NEW c \in Calls, Insert(c) \/ Update(c)
      PROVE  CheckInv'
  BY <1>2, InsertWrites, UpdateWrites, WriteKeepsCheckInv
<1>3. ASSUME NEW c \in Calls, Load(c)
      PROVE  CheckInv'
  BY <1>3 DEF Load, CheckInv, WantStart, WantEnd, TypeOK, table, request
<1>4. ASSUME NEW c \in Calls, Abandon(c)
      PROVE  CheckInv'
  BY <1>4 DEF Abandon, Finish, CheckInv, WantStart, WantEnd, TypeOK, table
<1>5. CASE UNCHANGED vars
  BY <1>5 DEF vars, CheckInv, WantStart, WantEnd, table, request, seen
<1> QED
  BY <1>1, <1>2, <1>3, <1>4, <1>5 DEF Next, CheckSchedule, CheckReschedule

\* A written interval meets only rows that its check had missed.
LEMMA WriteKeepsRaceInv ==
  ASSUME TypeOK, CheckInv, OverlapOnlyByRace, InvertedOnlyByRaceOrOffsets,
         NEW c \in Calls, Writes(c)
  PROVE  OverlapOnlyByRace' /\ InvertedOnlyByRaceOrOffsets'
<1>0. PICK i \in Ids : i = target[c]
  BY DEF TypeOK
<1>1. /\ booked' = booked \cup {i} /\ i \in Ids /\ booked \subseteq Ids
      /\ \A j \in Ids \ {i} : startAt'[j] = startAt[j] /\ endAt'[j] = endAt[j]
  BY <1>0 DEF TypeOK, Writes
<1>2. /\ raced'[i] = missed[c] /\ \A j \in Ids \ {i} : raced'[j] = raced[j]
      /\ wanted[c].format # "aware" => i \in byNaive'
      /\ \A j \in Ids \ {i} : j \in byNaive' <=> j \in byNaive
      /\ startAt'[i] = WantStart(c) => startZone'[i] = wanted[c].fromZone
      /\ endAt'[i] = WantEnd(c) => endZone'[i] = wanted[c].toZone
      /\ \A j \in Ids \ {i} : startZone'[j] = startZone[j] /\ endZone'[j] = endZone[j]
  BY <1>0, Walls DEF TypeOK, Writes, Written, WantStart, WantEnd
<1>3. i \notin missed[c] \/ wanted[c].format = "aware" => startAt'[i] = WantStart(c) /\ endAt'[i] = WantEnd(c)
  BY <1>0 DEF Writes
<1>4. /\ wanted[c].fromZone = wanted[c].toZone => WantStart(c) < WantEnd(c)
      /\ \A j \in booked : \/ j \in missed[c] \/ j = i
                           \/ WantEnd(c) <= startAt[j] \/ endAt[j] <= WantStart(c)
  BY <1>0, Walls DEF CheckInv, Writes, WantStart, WantEnd
<1>5. /\ WantStart(c) \in Int /\ WantEnd(c) \in Int
      /\ \A j \in booked : startAt[j] \in Int /\ endAt[j] \in Int
  BY <1>0, Walls DEF TypeOK, Writes, WantStart, WantEnd
<1>6. InvertedOnlyByRaceOrOffsets'
  <2> SUFFICES ASSUME NEW j \in booked', endAt'[j] <= startAt'[j]
               PROVE  startZone'[j] # endZone'[j] \/ (j \in raced'[j] /\ j \in byNaive')
    BY DEF InvertedOnlyByRaceOrOffsets
  <2>1. CASE j = i
    <3>1. CASE i \in missed[c] /\ wanted[c].format # "aware"
      BY <1>2, <2>1, <3>1
    <3>2. CASE i \notin missed[c] \/ wanted[c].format = "aware"
      BY <1>2, <1>3, <1>4, <1>5, <2>1, <3>2
    <3> QED
      BY <3>1, <3>2
  <2>2. CASE j # i
    BY <1>1, <1>2, <2>2 DEF InvertedOnlyByRaceOrOffsets
  <2> QED
    BY <2>1, <2>2
<1>7. ASSUME NEW j \in booked, j # i, startAt'[i] < endAt'[j], startAt'[j] < endAt'[i]
      PROVE  {i, j} \cap raced'[i] # {}
  <2>2. startAt'[j] = startAt[j] /\ endAt'[j] = endAt[j]
    BY <1>1, <1>7
  <2> QED
    BY <1>2, <1>3, <1>4, <1>5, <1>7, <2>2
<1>8. OverlapOnlyByRace'
  <2> SUFFICES ASSUME NEW j \in booked', NEW k \in booked', j # k,
                      startAt'[j] < endAt'[k], startAt'[k] < endAt'[j]
               PROVE  {j, k} \cap (raced'[j] \cup raced'[k]) # {}
    BY DEF OverlapOnlyByRace, Overlap
  <2>1. CASE j = i
    BY <1>1, <1>7, <2>1
  <2>2. CASE k = i
    BY <1>1, <1>7, <2>2
  <2>3. CASE j # i /\ k # i
    <3>1. j \in booked /\ k \in booked /\ Overlap(j, k)
      BY <1>1, <2>3 DEF Overlap
    <3> QED
      BY <1>1, <1>2, <2>3, <3>1 DEF OverlapOnlyByRace
  <2> QED
    BY <2>1, <2>2, <2>3
<1> QED
  BY <1>6, <1>8

(* The table and the requests on it keep their types.                      *)
THEOREM BookTypeCorrect == Spec => []TypeOK
<1>1. Init => TypeOK
  BY Walls, AppointmentsAssumption DEF Init, TypeOK
<1> QED
  BY <1>1, TypeStep, PTL DEF Spec

BookInv == TypeOK /\ CheckInv /\ OverlapOnlyByRace /\ InvertedOnlyByRaceOrOffsets

(* Overlapping appointments come only from requests that were in progress  *)
(* at once, and inverted ones from these or from a request with two        *)
(* offsets, for any number of threads, appointments and requests.          *)
THEOREM DoubleBookingNeedsRace == Spec => []WrongOnlyByRaceOrOffsets
<1>1. Init => BookInv
  BY Walls, AppointmentsAssumption DEF Init, BookInv, TypeOK, CheckInv, OverlapOnlyByRace, InvertedOnlyByRaceOrOffsets
<1>2. BookInv /\ [Next]_vars => BookInv'
  <2> SUFFICES ASSUME BookInv, [Next]_vars PROVE BookInv'
    OBVIOUS
  <2>1. TypeOK' /\ CheckInv'
    BY TypeStep, CheckInvStep DEF BookInv
  <2>2. ASSUME NEW c \in Calls, Insert(c) \/ Update(c)
        PROVE  OverlapOnlyByRace' /\ InvertedOnlyByRaceOrOffsets'
    BY <2>2, InsertWrites, UpdateWrites, WriteKeepsRaceInv DEF BookInv
  <2>3. ASSUME UNCHANGED table
        PROVE  OverlapOnlyByRace' /\ InvertedOnlyByRaceOrOffsets'
    BY <2>3 DEF table, BookInv, OverlapOnlyByRace, InvertedOnlyByRaceOrOffsets, Overlap
  <2>4. UNCHANGED table \/ \E c \in Calls : Insert(c) \/ Update(c)
    BY DEF Next, vars, CheckSchedule, CheckReschedule, Check, Load, Abandon
  <2> QED
    BY <2>1, <2>2, <2>3, <2>4 DEF BookInv
<1>3. BookInv => WrongOnlyByRaceOrOffsets
  BY DEF BookInv, WrongOnlyByRaceOrOffsets
<1> QED
  BY <1>1, <1>2, <1>3, PTL DEF Spec

EndAfterStart == \A i \in booked : startAt[i] < endAt[i]
OneCall == \A c, d \in Calls : c = d
NoRace == /\ \A c \in Calls : missed[c] = {}
          /\ \A i \in Ids : raced[i] = {}

\* Every request names one and the same offset, for both datetimes.
OneOffset == \A q, r \in Requests : q.fromZone = r.toZone
ZonesAreAsked ==
  \A i \in booked : \E q, r \in Requests : startZone[i] = q.fromZone /\ endZone[i] = r.toZone

\* Without a race a row has the offsets of a request.
LEMMA ZonesStep ==
  TypeOK /\ ZonesAreAsked /\ [Next]_vars => ZonesAreAsked'
<1> SUFFICES ASSUME TypeOK, ZonesAreAsked, [Next]_vars, NEW j \in booked'
             PROVE  \E q, r \in Requests : startZone'[j] = q.fromZone /\ endZone'[j] = r.toZone
  BY DEF ZonesAreAsked
<1> USE DEF TypeOK, ZonesAreAsked, table
<1>1. ASSUME NEW c \in Calls, Insert(c)
      PROVE  \E q, r \in Requests : startZone'[j] = q.fromZone /\ endZone'[j] = r.toZone
  <2>1. CASE j = target[c]
    <3>1. wanted[c] \in Requests
      OBVIOUS
    <3>2. startZone'[j] = wanted[c].fromZone /\ endZone'[j] = wanted[c].toZone
      BY <1>1, <2>1 DEF Insert, Written
    <3> QED
      BY <3>1, <3>2
  <2>2. CASE j # target[c]
    BY <1>1, <2>2 DEF Insert, Written
  <2> QED
    BY <2>1, <2>2
<1>2. ASSUME NEW c \in Calls, Update(c)
      PROVE  \E q, r \in Requests : startZone'[j] = q.fromZone /\ endZone'[j] = r.toZone
  <2>0. j \in booked /\ wanted[c] \in Requests
    BY <1>2 DEF Update
  <2>1. /\ startZone'[j] \in {startZone[j], wanted[c].fromZone}
        /\ endZone'[j] \in {endZone[j], wanted[c].toZone}
    BY <1>2, <2>0 DEF Update, Written
  <2> QED
    BY <2>0, <2>1
<1>3. ASSUME UNCHANGED table
      PROVE  \E q, r \in Requests : startZone'[j] = q.fromZone /\ endZone'[j] = r.toZone
  BY <1>3
<1>4. UNCHANGED table \/ \E c \in Calls : Insert(c) \/ Update(c)
  BY DEF Next, vars, CheckSchedule, CheckReschedule, Check, Load, Abandon
<1> QED
  BY <1>1, <1>2, <1>3, <1>4

(* When requests are served one at a time and all use one UTC offset, no   *)
(* time is booked twice, neither on the wall clock nor in reality, and     *)
(* every appointment ends after its start.                                 *)
THEOREM SerialBookIsSound ==
  ASSUME OneCall, OneOffset
  PROVE  Spec => [](NoDoubleBooking /\ EndAfterStart /\ NoRealOverlap)
<1>1. Init => NoRace /\ TypeOK /\ ZonesAreAsked
  BY Walls, AppointmentsAssumption DEF Init, NoRace, TypeOK, ZonesAreAsked
<1>2. TypeOK /\ NoRace /\ [Next]_vars => NoRace'
  <2> SUFFICES ASSUME TypeOK, NoRace, [Next]_vars PROVE NoRace'
    OBVIOUS
  <2> USE DEF TypeOK, NoRace, table
  <2>1. ASSUME NEW c \in Calls, Insert(c) \/ Update(c)
        PROVE  NoRace'
    BY <2>1 DEF Insert, Update, Written, OneCall
  <2>2. ASSUME NEW c \in Calls, NEW i \in Ids, NEW q \in Requests,
               NEW next \in {"insert", "load"}, Check(c, i, q, next)
        PROVE  NoRace'
    BY <2>2 DEF Check
  <2>3. ASSUME NEW c \in Calls, Load(c) \/ Abandon(c)
        PROVE  NoRace'
    BY <2>3 DEF Load, Abandon
  <2>4. CASE UNCHANGED vars
    BY <2>4 DEF vars
  <2> QED
    BY <2>1, <2>2, <2>3, <2>4 DEF Next, CheckSchedule, CheckReschedule
<1>3. TypeOK /\ NoRace /\ ZonesAreAsked /\ WrongOnlyByRaceOrOffsets
        => NoDoubleBooking /\ EndAfterStart /\ NoRealOverlap
  <2> SUFFICES ASSUME TypeOK, NoRace, ZonesAreAsked, OverlapOnlyByRace, InvertedOnlyByRaceOrOffsets
               PROVE  NoDoubleBooking /\ EndAfterStart /\ NoRealOverlap
    BY DEF WrongOnlyByRaceOrOffsets
  <2>1. \A i \in booked : /\ i \in Ids /\ raced[i] = {}
                          /\ startAt[i] \in Int /\ endAt[i] \in Int
                          /\ startZone[i] \in Int /\ endZone[i] \in Int
    BY DEF TypeOK, NoRace
  <2>2. \A i, j \in booked : startZone[i] = endZone[j]
    BY DEF ZonesAreAsked, OneOffset
  <2>3. NoDoubleBooking
    BY <2>1 DEF OverlapOnlyByRace, NoDoubleBooking
  <2>4. EndAfterStart
    BY <2>1, <2>2 DEF InvertedOnlyByRaceOrOffsets, EndAfterStart
  <2>5. ASSUME NEW i \in booked, NEW j \in booked, i # j
        PROVE  \/ endAt[i] - endZone[i] <= startAt[j] - startZone[j]
               \/ endAt[j] - endZone[j] <= startAt[i] - startZone[i]
    <3>1. endAt[i] <= startAt[j] \/ endAt[j] <= startAt[i]
      BY <2>1, <2>3, <2>5 DEF NoDoubleBooking, Overlap
    <3>2. startZone[i] = endZone[j] /\ startZone[j] = endZone[i]
      BY <2>2
    <3> QED
      BY <2>1, <3>1, <3>2
  <2> QED
    BY <2>3, <2>4, <2>5 DEF NoRealOverlap
<1> QED
  BY <1>1, <1>2, <1>3, TypeStep, ZonesStep, DoubleBookingNeedsRace, PTL DEF Spec
=============================================================================
