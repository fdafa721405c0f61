------------------------------ MODULE JessieGate ------------------------------
(***************************************************************************)
(* The intake API (agents/jessie/api/main.py) around its store: every      *)
(* request is counted, identified, held to its rate, checked for           *)
(* permission, and handled; /health is counted and answered at once.  One  *)
(* event loop runs all requests, and leaves one for another at two places: *)
(* while the body is read, after it was counted, and while                 *)
(* get_intake_service runs in the thread pool, after it was admitted.      *)
(* Counters and windows live in the process, the intakes in the file.  The *)
(* dashboard's poll (integrations/jesse_status_adapter.py) asks /health,   *)
(* then /reports/summary.                                                  *)
(* A request with a bad X-Request-ID is answered before all this and       *)
(* changes nothing; what a failed write leaves behind is IntakeStore's.    *)
(***************************************************************************)
EXTENDS Integers, FiniteSets

CONSTANTS
  Conns,        \* requests that may be in progress at once
  Callers,      \* names of SERVICE_TOKENS that have a token
  Hosts,        \* addresses clients come from, the dashboard's among them:
  PollHost,     \* where the dashboard runs
  Permissions,  \* pairs <<caller, route>>, admin's apart
  Asked,        \* <<caller, host, route>> of the clients, with the caller "nobody" too
  Limit,        \* JESSE_RATE_LIMIT_REQUESTS
  Span,         \* JESSE_RATE_LIMIT_WINDOW_SECONDS
  MaxNow, MaxRequests, MaxRestarts   \* bounds

Nobody == "nobody"  \* a key that is no token
Routes == {"health", "intakes", "inbound", "book", "sheet", "mail", "event", "summary"}
Features == Routes \ {"health", "intakes", "summary"}
Counters == {"requests", "401", "403", "429", "appointments", "sheets", "mails", "events"}
Codes == {"200", "400", "401", "403", "429", "500"}
Told == {"401", "403", "429", "other"}  \* answers, by what the counters tell apart
\* f"{identity}:{client_host}:{_route_key(request)}"
Keys == Callers \X Hosts \X Routes

ASSUME GateAssumption ==
  /\ Limit \in Nat \ {0} /\ Span \in Nat \ {0} /\ MaxNow \in Nat
  /\ Permissions \subseteq Callers \X Routes /\ "dashboard" \in Callers /\ PollHost \in Hosts
  /\ Asked \subseteq (Callers \cup {Nobody}) \X Hosts \X Routes

VARIABLES
  now,       \* time.time(), in seconds
  flags,     \* routes whose feature flag is on
  buckets,   \* rate_limit_state: key -> entries, see InWindow
  metrics,   \* app.state.metrics
  intakes,   \* number of records in the file
  conns,     \* the request of each connection
  poll,      \* the dashboard's last: what it waits for, and what it said
  admitted,  \* history: key -> entries of its admissions by this process
  unearned,  \* history: a 429 without Limit admissions in the window
  answers,   \* history: answers of this process, in the kinds of Told
  restarts   \* history: bounds the restarts

gateVars == <<now, flags, buckets, metrics, intakes, conns, poll,
              admitted, unearned, answers, restarts>>

Free == [at |-> "free"]
Zeros(S) == [s \in S |-> 0]
Total(f) == f["401"] + f["403"] + f["429"] + f["other"]  \* over Told
Plus(f, s) == [f EXCEPT ![s] = @ + 1]

GateTypeOK ==
  /\ \A k \in Keys : Cardinality(buckets[k]) <= Limit
  /\ \A c \in Conns : conns[c].at \in {"free", "auth", "handle"}
  /\ poll.waits \in {"no", "health", "healthy", "summary"}
  /\ poll.status \in {"none", "unavailable", "degraded", "ok"}
  /\ metrics \in [Counters -> Nat] /\ intakes \in Nat

GateInit ==
  /\ now = 0 /\ flags \in {{}, Features}
  /\ buckets = [k \in Keys |-> {}] /\ admitted = [k \in Keys |-> {}]
  /\ metrics = Zeros(Counters) /\ answers = Zeros(Told)
  /\ conns = [c \in Conns |-> Free]
  /\ intakes = 0 /\ restarts = 0 /\ unearned = FALSE
  /\ poll = [waits |-> "no", from |-> 0, status |-> "none", count |-> 0]
-----------------------------------------------------------------------------
\* http_exception_handler counts these, and no other refusal.
IsCounted(code) == code \in {"401", "403", "429"}

\* The poll ends with this answer.
PollSays(status, count) == poll' = [poll EXCEPT !.waits = "no", !.status = status, !.count = count]

\* get_jesse_status, told of the answer it waited for: /health has only one.
PollHears(route, code) ==
  CASE route = "health"                   -> poll' = [poll EXCEPT !.waits = "healthy"]
    [] route # "health" /\ code = "200" -> PollSays("ok", intakes')
    [] route # "health" /\ code # "200" -> PollSays("degraded", 0)

\* The request of c ends with this answer, and the counters are m and one for
\* the answer.
Answer(c, code, m) ==
  /\ conns' = [conns EXCEPT ![c] = Free]
  /\ answers' = Plus(answers, IF IsCounted(code) THEN code ELSE "other")
  /\ metrics' = IF IsCounted(code) THEN Plus(m, code) ELSE m
  /\ IF conns[c].polled /\ poll.waits = conns[c].route THEN PollHears(poll.waits, code) ELSE UNCHANGED poll

UncountedSlip(m) == m
CountedFirst(m) == Plus(m, "requests")

\* audit_middleware, up to call_next: /health is counted, and goes past require_auth.
Arrive(c, who, h, r, polled) ==
  /\ conns[c] = Free /\ metrics["requests"] < MaxRequests
  /\ metrics' = CountedFirst(metrics)
  /\ conns' = [conns EXCEPT ![c] =
                  [at |-> IF r = "health" THEN "handle" ELSE "auth",
                   who |-> who, host |-> h, route |-> r, polled |-> polled]]

NewRequest(c, who, h, r) ==
  /\ Arrive(c, who, h, r, FALSE)
  /\ UNCHANGED <<now, flags, buckets, intakes, poll, admitted, unearned, answers, restarts>>

\* A body that is no JSON is refused before require_auth runs.
BadBody(c) ==
  /\ conns[c].at = "auth" /\ conns[c].route = "intakes"
  /\ UNCHANGED <<now, flags, buckets, intakes, admitted, unearned, restarts>>
  /\ Answer(c, "400", metrics)

Unknown(c) ==
  /\ conns[c].at = "auth" /\ conns[c].who = Nobody
  /\ UNCHANGED <<now, flags, buckets, intakes, admitted, unearned, restarts>>
  /\ Answer(c, "401", metrics)

\* A list of times is the set of its entries <<time, number>>: its order tells
\* nothing, its length does, so the times of one second have numbers.
InWindow(entries) == {e \in entries : e[1] > now - Span}

ShortSpanSlip(k) == {e \in buckets[k] : e[1] > now - (Span - 1)}
\* _check_rate_limit keeps the times within the window.
Recent(k) == {e \in buckets[k] : e[1] > now - Span}
\* The entry it appends for this moment.
NewEntry(k) == <<now, Cardinality({e \in Recent(k) : e[1] = now})>>

\* The key a request is held to.
KeyOf(c) == <<conns[c].who, conns[c].host, conns[c].route>>

\* require_auth: the window before the permission, so what is forbidden uses it up.
Limited(c) ==
  LET k == KeyOf(c) IN
  /\ conns[c].at = "auth" /\ conns[c].who # Nobody
  /\ Cardinality(Recent(k)) >= Limit
  /\ buckets' = [buckets EXCEPT ![k] = Recent(k)]
  /\ unearned' = (unearned \/ Cardinality(InWindow(admitted[k])) < Limit)
  /\ UNCHANGED <<now, flags, intakes, admitted, restarts>>
  /\ Answer(c, "429", metrics)
Admit(c) ==
  LET k == KeyOf(c) IN
  /\ conns[c].at = "auth" /\ conns[c].who # Nobody
  /\ Cardinality(Recent(k)) < Limit
  /\ UNCHANGED <<now, flags, intakes, unearned, restarts>>
  /\ buckets' = [buckets EXCEPT ![k] = Recent(k) \cup {NewEntry(k)}]
  /\ admitted' = [admitted EXCEPT ![k] = InWindow(@) \cup {NewEntry(k)}]
  /\ IF <<conns[c].who, conns[c].route>> \in Permissions \/ conns[c].who = "admin"
     THEN conns' = [conns EXCEPT ![c].at = "handle"] /\ UNCHANGED <<answers, metrics, poll>>
     ELSE Answer(c, "403", metrics)

\* The counter of a route: an inbound call counts as an appointment.
CounterOf(r) == CASE r \in {"inbound", "book"} -> "appointments" [] r = "sheet" -> "sheets"
                  [] r = "mail" -> "mails" [] r = "event" -> "events"

Handling(c, r) == conns[c].at = "handle" /\ conns[c].route = r

\* health, for whoever asks.
HandleHealth(c) ==
  /\ Handling(c, "health")
  /\ UNCHANGED intakes /\ Answer(c, "200", metrics)
  /\ UNCHANGED <<now, flags, buckets, admitted, unearned, restarts>>

\* create_intake: the payload may be invalid, or the store raise.
HandleIntake(c) ==
  /\ Handling(c, "intakes")
  /\ \/ intakes' = intakes + 1 /\ Answer(c, "200", metrics)
     \/ UNCHANGED intakes /\ \E code \in {"400", "500"} : Answer(c, code, metrics)
  /\ UNCHANGED <<now, flags, buckets, admitted, unearned, restarts>>

\* summary_report, of the list the service has: it is answered with intakes'.
HandleSummary(c) ==
  /\ Handling(c, "summary")
  /\ UNCHANGED intakes /\ Answer(c, "200", metrics)
  /\ UNCHANGED <<now, flags, buckets, admitted, unearned, restarts>>

\* The sandbox routes: an inbound call stores an intake, which may fail, as may
\* the Sheets adapter; a Sheet that is not the mock one is not counted.
HandleSandbox(c) ==
  \E r \in Features :
    /\ Handling(c, r)
    /\ \/ r \notin flags /\ UNCHANGED intakes /\ Answer(c, "200", metrics)
       \/ r \in flags /\ intakes' = intakes + (IF r = "inbound" THEN 1 ELSE 0)
          /\ Answer(c, "200", Plus(metrics, CounterOf(r)))
       \/ r = "sheet" /\ r \in flags /\ UNCHANGED intakes /\ Answer(c, "200", metrics)
       \/ r \in {"inbound", "sheet"} \cap flags /\ UNCHANGED intakes /\ Answer(c, "500", metrics)
    /\ UNCHANGED <<now, flags, buckets, admitted, unearned, restarts>>

\* get_jesse_status begins with /health, and finds a connection or none.
PollHealth(c) ==
  /\ poll.waits = "no" /\ poll' = [waits |-> "health", from |-> intakes, status |-> "none", count |-> 0]
  /\ Arrive(c, Nobody, PollHost, "health", TRUE)
  /\ UNCHANGED <<now, flags, buckets, intakes, admitted, unearned, answers, restarts>>
PollUnreached ==
  /\ poll.waits = "no" /\ PollSays("unavailable", 0)
  /\ UNCHANGED <<now, flags, buckets, metrics, intakes, conns, admitted, unearned, answers, restarts>>
\* The token of the dashboard may be one Jessie does not know.
PollSummary(c) ==
  /\ poll.waits = "healthy" /\ poll' = [poll EXCEPT !.waits = "summary"]
  /\ \E who \in {"dashboard", Nobody} : Arrive(c, who, PollHost, "summary", TRUE)
  /\ UNCHANGED <<now, flags, buckets, intakes, admitted, unearned, answers, restarts>>

\* What a poll that fails on the way says.
PollFails == IF poll.waits = "health" THEN PollSays("unavailable", 0) ELSE PollSays("degraded", 0)
\* No connection, or no answer in five seconds: the request goes on without it.
PollGivesUp ==
  /\ poll.waits # "no" /\ PollFails
  /\ conns' = [c \in Conns |-> IF conns[c].at = "free" THEN Free ELSE [conns[c] EXCEPT !.polled = FALSE]]
  /\ UNCHANGED <<now, flags, buckets, metrics, intakes, admitted, unearned, answers, restarts>>

\* The process stops and another starts, with flags of its own.
RestartGate ==
  /\ restarts < MaxRestarts /\ restarts' = restarts + 1
  /\ flags' \in {{}, Features}
  /\ buckets' = [k \in Keys |-> {}] /\ admitted' = [k \in Keys |-> {}]
  /\ metrics' = Zeros(Counters) /\ answers' = Zeros(Told)
  /\ conns' = [c \in Conns |-> Free]
  /\ IF poll.waits \in {"health", "summary"} THEN PollFails ELSE UNCHANGED poll
  /\ UNCHANGED <<now, intakes, unearned>>

PassSecond ==
  /\ now < MaxNow /\ now' = now + 1
  /\ UNCHANGED <<flags, buckets, metrics, intakes, conns, poll, admitted, unearned, answers, restarts>>

GateNext ==
  \/ PollUnreached \/ PollGivesUp \/ RestartGate \/ PassSecond
  \/ \E c \in Conns :
       \/ BadBody(c) \/ Unknown(c) \/ Limited(c) \/ Admit(c) \/ PollHealth(c) \/ PollSummary(c)
       \/ HandleHealth(c) \/ HandleIntake(c) \/ HandleSummary(c) \/ HandleSandbox(c)
       \/ \E k \in Asked : NewRequest(c, k[1], k[2], k[3])

GateSpec == GateInit /\ [][GateNext]_gateVars
-----------------------------------------------------------------------------
(* A process admits a caller from one client host to a route at most Limit *)
(* times in a window, whatever it then answers.                            *)
WindowHonoured == \A k \in Keys : Cardinality(InWindow(admitted[k])) <= Limit

(* A caller is told to slow down only after Limit admissions in the window *)
(* to the same route from the same host.                                   *)
RefusalIsEarned == ~unearned

\* security_report.
SecurityReport == [n \in {"requests", "401", "403", "429"} |-> metrics[n]]

(* What /reports/security counts adds up at every moment: a request, also  *)
(* one to /health, is in progress or was answered, and each refusal was    *)
(* counted once.                                                           *)
ReportsAddUp ==
  /\ SecurityReport["requests"] = Total(answers) + Cardinality({c \in Conns : conns[c] # Free})
  /\ \A code \in {"401", "403", "429"} : SecurityReport[code] = answers[code]

(* The number a poll reports lies between the intakes there were when it   *)
(* began and those there are, so it never goes back, restarts included.    *)
CountIsOfThePoll == poll.status = "ok" => poll.from <= poll.count /\ poll.count <= intakes

(* The window neither admits too much nor refuses too early.               *)
LimitIsExact == WindowHonoured /\ RefusalIsEarned

(* The numbers of the security report and of the dashboard are true.       *)
NumbersAreTrue == ReportsAddUp /\ CountIsOfThePoll
=============================================================================
