------------------------------ MODULE CallCenter ------------------------------
(***************************************************************************)
(* CallCenterService (callcenter/service.py): calls with a state, an       *)
(* outcome and a timeline.  An update reads the row and commits later; the *)
(* ORM writes the columns that differ from what was read, and the timeline,*)
(* a new list, always.  analytics counts by seven statements, and calls    *)
(* change between them.                                                    *)
(***************************************************************************)
EXTENDS Naturals, Sequences, FiniteSets

CONSTANTS
  PhoneCalls,   \* ids calls get
  CallStates,   \* states a PATCH may set
  CallOutcomes, \* outcomes a PATCH may set, "none" for a PATCH without one
  CallThreads,  \* threads with an update
  MaxWrites     \* bound: updates of one call

ASSUME CallAssumption == MaxWrites \in Nat /\ "none" \in CallOutcomes

VARIABLES
  calls,    \* the rows: [state, outcome, events, last], last the newest event
  updates,  \* the update of each thread, after its read
  writes,   \* history: commits on each call
  crossed,  \* history: a commit, ever or the last, found the row changed since its read
  tally,    \* a request for the analytics: the counts so far
  quiet     \* history: no call changed since it began

callVars == <<calls, updates, writes, crossed, tally, quiet>>
analyticsVars == <<tally, quiet>>

Absent == [state |-> "absent"]
NoUpdate == [call |-> "none"]
There(c) == calls[c] # Absent

CallsTypeOK ==
  /\ \A c \in PhoneCalls : There(c) => /\ calls[c].state \in CallStates \cup {"incoming"}
                                  /\ calls[c].outcome \in CallOutcomes
                                  /\ calls[c].events \in 1 .. MaxWrites + 1
  /\ writes \in [PhoneCalls -> 0 .. MaxWrites]
  /\ crossed \in [PhoneCalls -> [ever : BOOLEAN, last : BOOLEAN]]
  /\ quiet \in BOOLEAN /\ Len(tally) <= 7

CallsInit ==
  /\ calls = [c \in PhoneCalls |-> Absent]
  /\ updates = [t \in CallThreads |-> NoUpdate]
  /\ writes = [c \in PhoneCalls |-> 0]
  /\ crossed = [c \in PhoneCalls |-> [ever |-> FALSE, last |-> FALSE]]
  /\ tally = << >> /\ quiet = TRUE
-----------------------------------------------------------------------------
Event(s, o) == [state |-> s, outcome |-> o]

ReceiveMockCall(c) ==
  /\ ~There(c)
  /\ calls' = [calls EXCEPT ![c] = [state |-> "incoming", outcome |-> "none", events |-> 1,
                                    last |-> Event("incoming", "none")]]
  /\ quiet' = FALSE
  /\ UNCHANGED <<updates, writes, crossed, tally>>

UpdateCallRead(t, c, s, o) ==
  /\ updates[t] = NoUpdate /\ There(c) /\ writes[c] < MaxWrites
  /\ updates' = [updates EXCEPT ![t] = [call |-> c, read |-> calls[c], at |-> writes[c],
                                        event |-> Event(s, o)]]
  /\ UNCHANGED <<calls, writes, crossed, analyticsVars>>

KeepOutcomeSlip(t, row) ==
  LET u == updates[t] IN
  [state |-> IF u.event.state = u.read.state THEN row.state ELSE u.event.state,
   outcome |-> IF u.event.outcome \in {"none", u.read.outcome} THEN row.outcome ELSE u.event.outcome,
   events |-> u.read.events + 1, last |-> u.event]
\* The row after the UPDATE: a column whose new value is the one that was read
\* is not in the statement and stays as it is now.
UpdatedRow(t, row) ==
  LET u == updates[t] IN
  [state |-> IF u.event.state = u.read.state THEN row.state ELSE u.event.state,
   outcome |-> IF u.event.outcome = u.read.outcome THEN row.outcome ELSE u.event.outcome,
   events |-> u.read.events + 1, last |-> u.event]

UpdateCallCommit(t) ==
  LET c == updates[t].call IN
  /\ updates[t] # NoUpdate /\ writes[c] < MaxWrites
  /\ calls' = [calls EXCEPT ![c] = UpdatedRow(t, @)]
  /\ writes' = [writes EXCEPT ![c] = @ + 1]
  /\ LET meanwhile == updates[t].at < writes[c]
     IN crossed' = [crossed EXCEPT ![c] = [ever |-> @.ever \/ meanwhile, last |-> meanwhile]]
  /\ updates' = [updates EXCEPT ![t] = NoUpdate]
  /\ quiet' = FALSE
  /\ UNCHANGED <<tally>>

\* The order of the seven counts.
Counts == <<"total", "missed", "active", "callback", "transfer_error", "failed", "successful">>
FAILED_OUTCOMES == {"failed", "no_answer", "voicemail_only", "dropped"}

AnyOutcomeSlip(what, c) ==
  CASE what = "total" -> TRUE
    [] what = "transfer_error" -> calls[c].outcome = what
    [] what = "failed" -> calls[c].state = "missed" \/ calls[c].outcome \in FAILED_OUTCOMES
    [] what = "successful" -> calls[c].state = "completed"
    [] OTHER -> calls[c].state = what
\* The condition of each count.
Counted(what, c) ==
  CASE what = "total" -> TRUE
    [] what = "transfer_error" -> calls[c].outcome = what
    [] what = "failed" -> calls[c].state = "missed" \/ calls[c].outcome \in FAILED_OUTCOMES
    [] what = "successful" -> /\ calls[c].state = "completed"
                              /\ calls[c].outcome \notin FAILED_OUTCOMES \cup {"transfer_error"}
    [] OTHER -> calls[c].state = what

CountNext ==
  /\ Len(tally) < Len(Counts)
  /\ tally' = Append(tally, Cardinality({c \in PhoneCalls : There(c) /\ Counted(Counts[Len(tally) + 1], c)}))
  /\ quiet' = (quiet \/ tally = << >>)
  /\ UNCHANGED <<calls, updates, writes, crossed>>

AnalyticsAnswer ==
  /\ Len(tally) = Len(Counts)
  /\ tally' = << >> /\ quiet' = TRUE
  /\ UNCHANGED <<calls, updates, writes, crossed>>

CallsNext ==
  \/ \E c \in PhoneCalls : ReceiveMockCall(c)
  \/ \E t \in CallThreads :
       \/ UpdateCallCommit(t)
       \/ \E c \in PhoneCalls, s \in CallStates, o \in CallOutcomes : UpdateCallRead(t, c, s, o)
  \/ CountNext \/ AnalyticsAnswer

CallsSpec == CallsInit /\ [][CallsNext]_callVars
-----------------------------------------------------------------------------
(* A call's state and outcome are those of the newest event of its         *)
(* timeline, unless the last commit crossed another one.                   *)
TornCallOnlyByOverlap ==
  \A c \in PhoneCalls :
    There(c) /\ Event(calls[c].state, calls[c].outcome) # calls[c].last
      => crossed[c].last

(* The timeline has an event of every update, unless commits crossed.      *)
EventLostOnlyByOverlap ==
  \A c \in PhoneCalls : There(c) /\ calls[c].events # writes[c] + 1 => crossed[c].ever

(* The analytics add up when no call changed while they were counted:      *)
(* nothing is both successful and failed, a missed call is a failed one.   *)
AnalyticsAddUp ==
  quiet /\ Len(tally) = Len(Counts) =>
    /\ tally[6] + tally[7] <= tally[1] /\ tally[2] <= tally[6]
    /\ tally[2] + tally[3] + tally[4] + tally[7] <= tally[1]

(* Only updates of one call that cross damage it.                          *)
CallDamagedOnlyByOverlap == TornCallOnlyByOverlap /\ EventLostOnlyByOverlap
=============================================================================
