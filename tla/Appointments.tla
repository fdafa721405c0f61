--------------------------- MODULE Appointments ---------------------------
(***************************************************************************)
(* SchedulingService (core/scheduling.py) as the /appointments handlers    *)
(* call it from the thread pool.  schedule and reschedule look for a       *)
(* conflict in one session and write in another.  A datetime is an instant *)
(* with a UTC offset, and the two of a request may have different ones.    *)
(* The guard on their order compares instants; the database stores wall    *)
(* clocks, instant + offset, and conflicts compares these.  Read back, a   *)
(* stored datetime is naive: it never equals an aware one, so the UPDATE   *)
(* of a reschedule with aware datetimes carries both columns, and one with *)
(* naive datetimes only those that differ from the row its session read.   *)
(***************************************************************************)
EXTENDS Integers

CONSTANTS
  Ids,      \* identities an appointment may get
  Calls,    \* threads that serve an /appointments request
  Requests  \* the pairs of datetimes a request may name

\* from and to are instants.  A naive datetime is read as UTC; to compare it
\* with an aware one raises, so both datetimes of a request have one format.
ASSUME AppointmentsAssumption ==
  /\ Requests # {}
  /\ \A q \in Requests :
       /\ q.from \in Int /\ q.to \in Int /\ q.fromZone \in Int /\ q.toZone \in Int
       /\ q.format \in {"aware", "naive"}
       /\ q.format = "naive" => q.fromZone = 0 /\ q.toZone = 0

VARIABLES
  booked,     \* the appointments in the table (status stays "scheduled")
  startAt,    \* start_at and end_at as stored
  endAt,
  startZone,  \* history: the offsets that the stored wall clocks dropped
  endZone,
  stage,      \* what each thread does next; "idle" between requests
  target,     \* the appointment it is about to insert or move
  wanted,      \* the datetimes it asks for
  seenStart,  \* the row reschedule's session read
  seenEnd,
  missed,     \* history: rows written since the thread's conflict check
  raced,      \* history: what the last writer of a row had missed
  byNaive     \* history: rows last written with naive datetimes

table == <<booked, startAt, endAt, startZone, endZone, raced, byNaive>>
request == <<target, wanted>>
seen == <<seenStart, seenEnd>>
vars == <<table, stage, request, seen, missed>>

TypeOK ==
  /\ booked \in SUBSET Ids
  /\ startAt \in [Ids -> Int] /\ endAt \in [Ids -> Int]
  /\ startZone \in [Ids -> Int] /\ endZone \in [Ids -> Int]
  /\ stage \in [Calls -> {"idle", "insert", "load", "update"}]
  /\ target \in [Calls -> Ids]
  /\ wanted \in [Calls -> Requests]
  /\ seenStart \in [Calls -> Int] /\ seenEnd \in [Calls -> Int]
  /\ missed \in [Calls -> SUBSET Ids] /\ raced \in [Ids -> SUBSET Ids]
  /\ byNaive \in SUBSET Ids
  /\ \A c \in Calls : /\ stage[c] = "insert" => target[c] \notin booked
                      /\ stage[c] \in {"load", "update"} => target[c] \in booked
  /\ \A c, d \in Calls : stage[c] = "insert" /\ stage[d] # "idle" /\ target[c] = target[d] => c = d

\* What a thread that serves no request has asked for.
SomeRequest == CHOOSE q \in Requests : TRUE

Init ==
  /\ booked = {}
  /\ startAt = [i \in Ids |-> 0] /\ endAt = [i \in Ids |-> 0]
  /\ startZone = [i \in Ids |-> 0] /\ endZone = [i \in Ids |-> 0]
  /\ stage = [c \in Calls |-> "idle"]
  /\ target \in [Calls -> Ids]
  /\ wanted = [c \in Calls |-> SomeRequest]
  /\ seenStart = [c \in Calls |-> 0] /\ seenEnd = [c \in Calls |-> 0]
  /\ missed = [c \in Calls |-> {}] /\ raced = [i \in Ids |-> {}]
  /\ byNaive = {}
-----------------------------------------------------------------------------
StartInsideSlip(s, e, x) ==
  \E j \in booked \ {x} : startAt[j] <= s /\ endAt[j] > s
\* SchedulingService.conflicts, with wall clocks s and e and exclude_id x.
Conflicts(s, e, x) ==
  \E j \in booked \ {x} : startAt[j] < e /\ endAt[j] > s

\* The wall clocks of a request's datetimes.
WallStart(q) == q.from + q.fromZone
WallEnd(q) == q.to + q.toZone

\* The guard end_at <= start_at compares instants.
Ordered(q) == q.from < q.to

BookedOnlySlip(i) == i \notin booked
\* A new uuid4 is the identity of no row and of no other request.
Fresh(i) == i \notin booked /\ \A d \in Calls : stage[d] # "idle" => target[d] # i

\* The check of both methods.
Check(c, i, q, next) ==
  /\ stage[c] = "idle"
  /\ Ordered(q) /\ ~Conflicts(WallStart(q), WallEnd(q), i)
  /\ stage' = [stage EXCEPT ![c] = next]
  /\ target' = [target EXCEPT ![c] = i]
  /\ wanted' = [wanted EXCEPT ![c] = q]
  /\ missed' = [missed EXCEPT ![c] = {}]
  /\ UNCHANGED <<table, seen>>

CheckSchedule(c, i, q) == Fresh(i) /\ Check(c, i, q, "insert")
\* An identity that is in no row ends in KeyError: nothing changes, and as
\* rows are never deleted, it is not in a row later either.
CheckReschedule(c, i, q) == i \in booked /\ Check(c, i, q, "load")

\* The end of a request.  Other requests in progress have missed row i.
Finish(c) ==
  /\ stage' = [stage EXCEPT ![c] = "idle"]
  /\ wanted' = [wanted EXCEPT ![c] = SomeRequest]
  /\ seenStart' = [seenStart EXCEPT ![c] = 0] /\ seenEnd' = [seenEnd EXCEPT ![c] = 0]
  /\ UNCHANGED target
Written(c, i) ==
  /\ startZone' = [startZone EXCEPT ![i] = IF startAt'[i] = WallStart(wanted[c]) THEN wanted[c].fromZone ELSE @]
  /\ endZone' = [endZone EXCEPT ![i] = IF endAt'[i] = WallEnd(wanted[c]) THEN wanted[c].toZone ELSE @]
  /\ raced' = [raced EXCEPT ![i] = missed[c]]
  /\ byNaive' = IF wanted[c].format = "naive" THEN byNaive \cup {i} ELSE byNaive \ {i}
  /\ missed' = [d \in Calls |-> IF d = c \/ stage[d] = "idle" THEN {} ELSE missed[d] \cup {i}]

(* schedule: the INSERT and its commit.                                    *)
Insert(c) ==
  LET i == target[c] IN
  /\ stage[c] = "insert"
  /\ booked' = booked \cup {i}
  /\ startAt' = [startAt EXCEPT ![i] = WallStart(wanted[c])]
  /\ endAt' = [endAt EXCEPT ![i] = WallEnd(wanted[c])]
  /\ Written(c, i) /\ Finish(c)

(* reschedule: session.get.                                                *)
Load(c) ==
  /\ stage[c] = "load"
  /\ stage' = [stage EXCEPT ![c] = "update"]
  /\ seenStart' = [seenStart EXCEPT ![c] = startAt[target[c]]]
  /\ seenEnd' = [seenEnd EXCEPT ![c] = endAt[target[c]]]
  /\ UNCHANGED <<table, request, missed>>

Unchanged(c, want, seenValue) == wanted[c].format = "naive" /\ want = seenValue
(* reschedule: the UPDATE of the columns that changed, and its commit.     *)
Update(c) ==
  LET i == target[c]  q == wanted[c] IN
  /\ stage[c] = "update"
  /\ startAt' = [startAt EXCEPT ![i] = IF Unchanged(c, WallStart(q), seenStart[c]) THEN @ ELSE WallStart(q)]
  /\ endAt' = [endAt EXCEPT ![i] = IF Unchanged(c, WallEnd(q), seenEnd[c]) THEN @ ELSE WallEnd(q)]
  /\ Written(c, i) /\ Finish(c)
  /\ UNCHANGED booked

(* A commit raises, or the process stops: the request leaves no trace.     *)
Abandon(c) ==
  /\ stage[c] # "idle"
  /\ missed' = [missed EXCEPT ![c] = {}]
  /\ Finish(c)
  /\ UNCHANGED table

Next ==
  \E c \in Calls :
    \/ \E i \in Ids, q \in Requests : CheckSchedule(c, i, q) \/ CheckReschedule(c, i, q)
    \/ Insert(c) \/ Load(c) \/ Update(c) \/ Abandon(c)

Spec == Init /\ [][Next]_vars
-----------------------------------------------------------------------------
Overlap(i, j) == startAt[i] < endAt[j] /\ startAt[j] < endAt[i]

(* Two appointments overlap only if one of the two was written while a     *)
(* request that had already passed its conflict check wrote either: no     *)
(* other sequence of calls double-books.                                   *)
OverlapOnlyByRace ==
  \A i, j \in booked : i # j /\ Overlap(i, j) => {i, j} \cap (raced[i] \cup raced[j]) # {}

(* An appointment whose stored end is not after its stored start was asked *)
(* for with two different UTC offsets, or put together from two            *)
(* reschedules of it that were in progress at once, the later one with     *)
(* naive datetimes.                                                        *)
InvertedOnlyByRaceOrOffsets ==
  \A i \in booked : endAt[i] <= startAt[i] =>
    \/ startZone[i] # endZone[i]
    \/ i \in raced[i] /\ i \in byNaive

(* Without a race, and with one offset in each request, no appointment is  *)
(* wrong.                                                                  *)
WrongOnlyByRaceOrOffsets == OverlapOnlyByRace /\ InvertedOnlyByRaceOrOffsets

(* What tests/test_platform_v2.py:99 expects of every pair of calls.       *)
NoDoubleBooking == \A i, j \in booked : i # j => ~Overlap(i, j)

(* No two appointments take place at the same instant.                     *)
NoRealOverlap ==
  \A i, j \in booked :
    i # j => \/ endAt[i] - endZone[i] <= startAt[j] - startZone[j]
             \/ endAt[j] - endZone[j] <= startAt[i] - startZone[i]
=============================================================================
