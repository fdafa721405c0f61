---------------------------- MODULE SheetsRateLimit ----------------------------
(***************************************************************************)
(* check_limit of the Google Sheets router: the times of the requests of   *)
(* one user on one path, in a deque that the threads of the pool share     *)
(* without a lock.  A request drops the times that left the window, counts *)
(* the rest and adds its own; each operation on the deque is a step.       *)
(***************************************************************************)
EXTENDS Naturals, Sequences, FiniteSets

CONSTANTS
  LimitThreads,  \* threads with a request of the user
  Limit,         \* requests the window admits: 5
  Window,        \* its length: 60 seconds
  Horizon        \* bound: the last moment of the clock

ASSUME LimitAssumption == Limit \in Nat \ {0} /\ Window \in Nat /\ Horizon \in Nat

VARIABLES
  clock,     \* monotonic()
  bucket,    \* limits[key]
  checking,  \* per thread: where it is in check_limit, and its now
  admitted,  \* history: the now of each request that was admitted
  overlap    \* history: two threads were in check_limit at one time

limitVars == <<clock, bucket, checking, admitted, overlap>>

Moments == 0 .. Horizon
Elsewhere == [at |-> "out", now |-> 0]
Inside(t) == checking[t] # Elsewhere

LimitTypeOK ==
  /\ clock \in Moments
  /\ bucket \in Seq(Moments)
  /\ checking \in [LimitThreads -> [at : {"out", "test", "pop", "count", "append"}, now : Moments]]
  /\ admitted \in Seq(Moments)
  /\ overlap \in BOOLEAN

LimitInit ==
  /\ clock = 0 /\ bucket = << >>
  /\ checking = [t \in LimitThreads |-> Elsewhere]
  /\ admitted = << >>
  /\ overlap = FALSE
-----------------------------------------------------------------------------
Tick == clock < Horizon /\ clock' = clock + 1 /\ UNCHANGED <<bucket, checking, admitted, overlap>>

At(t, step) == checking' = [checking EXCEPT ![t].at = step]
Leave(t) == checking' = [checking EXCEPT ![t] = Elsewhere]

Enter(t) ==
  /\ ~Inside(t)
  /\ checking' = [checking EXCEPT ![t] = [at |-> "test", now |-> clock]]
  /\ overlap' = (overlap \/ \E u \in LimitThreads : Inside(u))
  /\ UNCHANGED <<clock, bucket, admitted>>

\* bucket and bucket[0] < now - 60
Old(m, now) == m + Window < now
TestFront(t) ==
  /\ checking[t].at = "test"
  /\ At(t, IF bucket # << >> /\ Old(Head(bucket), checking[t].now) THEN "pop" ELSE "count")
  /\ UNCHANGED <<clock, bucket, admitted, overlap>>

\* popleft takes what is in front now; from an empty deque it raises, a 500.
PopFront(t) ==
  /\ checking[t].at = "pop"
  /\ IF bucket = << >> THEN Leave(t) /\ UNCHANGED bucket
     ELSE At(t, "test") /\ bucket' = Tail(bucket)
  /\ UNCHANGED <<clock, admitted, overlap>>

OneMoreSlip == Len(bucket) > Limit
Full == Len(bucket) >= Limit

\* A full window is answered with 429.
CountWindow(t) ==
  /\ checking[t].at = "count"
  /\ IF Full THEN Leave(t) ELSE At(t, "append")
  /\ UNCHANGED <<clock, bucket, admitted, overlap>>

AppendNow(t) ==
  /\ checking[t].at = "append"
  /\ bucket' = Append(bucket, checking[t].now)
  /\ admitted' = Append(admitted, checking[t].now)
  /\ Leave(t)
  /\ UNCHANGED <<clock, overlap>>

LimitNext ==
  \/ Tick
  \/ \E t \in LimitThreads :
       Enter(t) \/ TestFront(t) \/ PopFront(t) \/ CountWindow(t) \/ AppendNow(t)

LimitSpec == LimitInit /\ [][LimitNext]_limitVars
-----------------------------------------------------------------------------
InWindow(m) == Cardinality({i \in DOMAIN admitted : m <= admitted[i] /\ admitted[i] <= m + Window})

(* No window has more requests than the limit, unless two were in          *)
(* check_limit at one time.                                                *)
ExcessOnlyByOverlap == \A m \in Moments : InWindow(m) > Limit => overlap
=============================================================================
