---------------------------- MODULE ProvidersProofs ----------------------------
(***************************************************************************)
(* What the parts of the platform that speak with providers keep: the      *)
(* provider sandboxes and the status of Make say what happened; the rate   *)
(* limit of the Sheets router is exceeded only when two requests met in    *)
(* it; and the configuration sync lets no secret out and no placeholder    *)
(* in.  One part per component.                                            *)
(***************************************************************************)
EXTENDS ProviderSandboxes, MakeStatus, SheetsRateLimit, ConfigSync, TLAPS,
        FiniteSetTheorems, SequenceTheorems, WellFoundedInduction

-----------------------------------------------------------------------------
(* The provider sandboxes: where a request is says what the provider has   *)
(* of it, and an event that is gone has the one request that made it so.   *)

SandboxRequest == [service : Services, kind : Kinds, event : SandboxIds, at : Steps, answer : Answers]

RequestIs(r) ==
  /\ requests[r].kind = "generic" => r \notin pending /\ requests[r].at \in {"new", "ended"}
  /\ requests[r].at = "new" => r \notin pending /\ r \notin made
  /\ requests[r].at = "called" => r \in pending
  /\ requests[r].at = "served" \/ Told(r, {"done"}) =>
       /\ r \notin pending
       /\ requests[r].kind = "create" => r \in made
       /\ requests[r].kind = "delete" => requests[r].event \in gone
  /\ requests[r].at = "ended" /\ requests[r].answer \notin {"done", "error"} => r \notin pending /\ r \notin made
  /\ r \in made => requests[r].kind = "create" /\ r \notin pending

Deleted(r) == requests[r].kind = "delete" /\ (requests[r].at = "served" \/ Told(r, {"done"}))
Deleter(r) == requests[r].kind = "delete" /\ (requests[r].at = "served" \/ Told(r, {"done", "error"}))

OneDeletes ==
  \A r, q \in SandboxIds : Deleted(r) /\ Deleted(q) => r = q \/ requests[r].event # requests[q].event
GoneByRequest == \A e \in gone : \E r \in SandboxIds : Deleter(r) /\ requests[r].event = e

SandboxInv == SandboxTypeOK /\ (\A r \in SandboxIds : RequestIs(r)) /\ OneDeletes /\ GoneByRequest

\* The request r goes on to this place with this answer.
GoesOn(r, at, answer) ==
  /\ requests' \in [SandboxIds -> SandboxRequest]
  /\ requests'[r].at = at /\ requests'[r].answer = answer
  /\ requests'[r].service = requests[r].service
  /\ requests'[r].kind = requests[r].kind /\ requests'[r].event = requests[r].event
  /\ \A q \in SandboxIds \ {r} : requests'[q] = requests[q]

\* A request that is answered is where it ends.
LEMMA AnsweredGoes ==
  ASSUME SandboxTypeOK, NEW r \in SandboxIds, NEW answer \in Answers, Answered(r, answer)
  PROVE  GoesOn(r, "ended", answer)
<1> DEFINE q == [requests[r] EXCEPT !.at = "ended", !.answer = answer]
<1>1. /\ requests[r] \in SandboxRequest /\ requests \in [SandboxIds -> SandboxRequest]
      /\ requests' = [requests EXCEPT ![r] = q]
  BY DEF SandboxTypeOK, SandboxRequest, Answered
<1>2. /\ q \in SandboxRequest /\ q.at = "ended" /\ q.answer = answer
      /\ q.service = requests[r].service /\ q.kind = requests[r].kind /\ q.event = requests[r].event
  BY <1>1 DEF SandboxRequest, Steps
<1> HIDE DEF q
<1> QED
  BY <1>1, <1>2 DEF GoesOn

\* One that is called or served keeps its answer.
LEMMA MovedGoes ==
  ASSUME SandboxTypeOK, NEW r \in SandboxIds, NEW at \in Steps,
         requests' = [requests EXCEPT ![r].at = at]
  PROVE  GoesOn(r, at, requests[r].answer)
<1> DEFINE q == [requests[r] EXCEPT !.at = at]
<1>1. /\ requests[r] \in SandboxRequest /\ requests \in [SandboxIds -> SandboxRequest]
      /\ requests' = [requests EXCEPT ![r] = q]
  BY DEF SandboxTypeOK, SandboxRequest
<1>2. /\ q \in SandboxRequest /\ q.at = at /\ q.answer = requests[r].answer
      /\ q.service = requests[r].service /\ q.kind = requests[r].kind /\ q.event = requests[r].event
  BY <1>1 DEF SandboxRequest
<1> HIDE DEF q
<1> QED
  BY <1>1, <1>2 DEF GoesOn

\* A step of one request keeps the invariant, if what it says of that request is
\* so, and no event is gone but by it.
LEMMA OneRequestKeeps ==
  ASSUME SandboxInv, NEW r \in SandboxIds, NEW at, NEW answer, GoesOn(r, at, answer),
         UNCHANGED settings,
         pending' \subseteq pending \cup {r}, pending \subseteq pending' \cup {r},
         made' \subseteq made \cup {r}, made \subseteq made',
         gone' \subseteq gone \cup {requests[r].event}, gone \subseteq gone',
         RequestIs(r)',
         gone' # gone => Deleter(r)',
         Deleted(r)' => Deleted(r) \/ requests[r].event \notin gone,
         Deleter(r) => Deleter(r)'
  PROVE  SandboxInv'
<1>1. /\ requests \in [SandboxIds -> SandboxRequest] /\ requests[r] \in SandboxRequest
      /\ \A q \in SandboxIds : RequestIs(q)
      /\ requests' \in [SandboxIds -> SandboxRequest] /\ requests'[r].event = requests[r].event
      /\ \A q \in SandboxIds \ {r} : requests'[q] = requests[q]
  BY DEF SandboxInv, SandboxTypeOK, SandboxRequest, GoesOn
<1>2. SandboxTypeOK'
  <2>1. requests[r].event \in SandboxIds
    BY <1>1 DEF SandboxRequest
  <2> QED
    BY <1>1, <2>1 DEF SandboxInv, SandboxTypeOK, SandboxRequest
<1>3. ASSUME NEW q \in SandboxIds PROVE RequestIs(q)'
  <2>1. CASE q = r
    BY <2>1
  <2>2. CASE q # r
    <3>1. /\ requests'[q] = requests[q] /\ (q \in pending' <=> q \in pending) /\ (q \in made' <=> q \in made)
          /\ gone \subseteq gone' /\ RequestIs(q)
      BY <1>1, <2>2
    <3> QED
      BY <3>1 DEF RequestIs, Told
  <2> QED
    BY <2>1, <2>2
<1>4. OneDeletes'
  <2>1. ASSUME NEW q \in SandboxIds, q # r PROVE Deleted(q)' <=> Deleted(q)
    BY <1>1, <2>1 DEF Deleted, Told
  <2>2. ASSUME NEW q \in SandboxIds, q # r, Deleted(q)', Deleted(r)'
        PROVE  requests'[q].event # requests'[r].event
    <3>1. requests'[q] = requests[q] /\ Deleted(q)
      BY <1>1, <2>1, <2>2
    <3>2. CASE Deleted(r)
      BY <1>1, <2>2, <3>1, <3>2 DEF SandboxInv, OneDeletes
    <3>3. CASE requests[r].event \notin gone
      <4>1. requests[q].event \in gone
        BY <1>1, <3>1 DEF Deleted, RequestIs
      <4> QED
        BY <1>1, <3>1, <3>3, <4>1
    <3> QED
      BY <2>2, <3>2, <3>3
  <2>3. ASSUME NEW q \in SandboxIds, NEW t \in SandboxIds, q # r, t # r, Deleted(q)', Deleted(t)'
        PROVE  q = t \/ requests'[q].event # requests'[t].event
    BY <1>1, <2>1, <2>3 DEF SandboxInv, OneDeletes
  <2> QED
    BY <2>2, <2>3 DEF OneDeletes
<1>5. GoneByRequest'
  <2> SUFFICES ASSUME NEW e \in gone' PROVE \E q \in SandboxIds : Deleter(q)' /\ requests'[q].event = e
    BY DEF GoneByRequest
  <2>1. CASE e \in gone
    <3>1. PICK q \in SandboxIds : Deleter(q) /\ requests[q].event = e
      BY <2>1 DEF SandboxInv, GoneByRequest
    <3>2. Deleter(q)' /\ requests'[q].event = e
      BY <1>1, <3>1 DEF Deleter, Told
    <3> QED
      BY <3>2
  <2>2. CASE e \notin gone
    BY <1>1, <2>2
  <2> QED
    BY <2>1, <2>2
<1> QED
  BY <1>2, <1>3, <1>4, <1>5 DEF SandboxInv

\* Each step keeps it.
LEMMA SandboxStep == SandboxInv /\ [SandboxNext]_sandboxVars => SandboxInv'
<1> SUFFICES ASSUME SandboxInv, [SandboxNext]_sandboxVars PROVE SandboxInv'
  OBVIOUS
<1>0. SandboxTypeOK /\ \A r \in SandboxIds : RequestIs(r) /\ requests[r] \in SandboxRequest
  BY DEF SandboxInv, SandboxTypeOK, SandboxRequest
<1>t. {"disabled", "mock", "refused", "unavailable", "done", "error"} \subseteq Answers
      /\ {"called", "served", "ended"} \subseteq Steps
  BY DEF Answers, Steps
<1>1. ASSUME NEW r \in SandboxIds, NEW valid \in BOOLEAN, Operate(r, valid) PROVE SandboxInv'
  <2>1. /\ requests[r].at = "new" /\ requests[r].kind # "generic" /\ UNCHANGED <<settings, made, gone>>
        /\ RequestIs(r)
    BY <1>0, <1>1 DEF Operate
  <2>2. CASE CourseOf(r, valid) = "call"
    <3>1. pending' = pending \cup {r} /\ requests' = [requests EXCEPT ![r].at = "called"]
      BY <1>1, <2>2 DEF Operate
    <3>2. GoesOn(r, "called", requests[r].answer)
      BY <1>0, <1>t, <3>1, MovedGoes
    <3>3. RequestIs(r)' /\ ~Deleted(r)' /\ ~Deleter(r)
      BY <2>1, <3>1, <3>2 DEF RequestIs, GoesOn, Deleted, Deleter, Told
    <3> QED
      BY <2>1, <3>1, <3>2, <3>3, OneRequestKeeps
  <2>3. CASE CourseOf(r, valid) # "call"
    <3>1. CourseOf(r, valid) \in {"disabled", "mock", "refused"}
      BY <2>3 DEF CourseOf, Course
    <3>2. pending' = pending /\ Answered(r, CourseOf(r, valid))
      BY <1>1, <2>3 DEF Operate
    <3>3. GoesOn(r, "ended", CourseOf(r, valid))
      BY <1>0, <1>t, <3>1, <3>2, AnsweredGoes
    <3>4. RequestIs(r)' /\ ~Deleted(r)' /\ ~Deleter(r)
      BY <2>1, <3>1, <3>2, <3>3 DEF RequestIs, GoesOn, Deleted, Deleter, Told
    <3> QED
      BY <2>1, <3>2, <3>3, <3>4, OneRequestKeeps
  <2> QED
    BY <2>2, <2>3
<1>2. ASSUME NEW r \in SandboxIds, ExecuteGeneric(r) PROVE SandboxInv'
  <2>1. /\ requests[r].at = "new" /\ requests[r].kind = "generic" /\ UNCHANGED <<settings, pending, made, gone>>
        /\ RequestIs(r)
    BY <1>0, <1>2 DEF ExecuteGeneric
  <2>2. PICK answer \in {"disabled", "mock", "unavailable"} : Answered(r, answer)
    BY <1>2 DEF ExecuteGeneric, ProviderMode, KnownModes
  <2>3. GoesOn(r, "ended", answer)
    BY <1>0, <1>t, <2>2, AnsweredGoes
  <2>4. RequestIs(r)' /\ ~Deleted(r)' /\ ~Deleter(r)
    BY <2>1, <2>3 DEF RequestIs, GoesOn, Deleted, Deleter, Told
  <2> QED
    BY <2>1, <2>3, <2>4, OneRequestKeeps
<1>3. ASSUME NEW r \in SandboxIds, Serve(r) PROVE SandboxInv'
  <2> DEFINE to == IF requests[r].at = "called" THEN "served" ELSE requests[r].at
  <2>1. /\ r \in pending /\ pending' = pending \ {r} /\ RequestIs(r) /\ UNCHANGED settings
        /\ requests' = [requests EXCEPT ![r].at = to]
    BY <1>0, <1>3 DEF Serve
  <2>2. requests[r].at \in Steps /\ requests[r].kind \in Kinds /\ requests[r].answer \in Answers
    BY <1>0 DEF SandboxRequest
  <2>3. requests[r].at = "called" \/ (requests[r].at = "ended" /\ requests[r].answer = "error")
    BY <2>1, <2>2 DEF RequestIs, Steps, Told
  <2>4. to = IF requests[r].at = "called" THEN "served" ELSE "ended"
    BY <2>3
  <2>5. GoesOn(r, to, requests[r].answer)
    BY <1>0, <1>t, <2>1, <2>4, MovedGoes
  <2> HIDE DEF to
  <2>6. CASE requests[r].kind = "delete"
    <3>1. gone' = gone \cup {requests[r].event} /\ made' = made /\ requests[r].event \notin gone
      BY <1>3, <2>6 DEF Serve, IsThere
    <3>2. RequestIs(r)' /\ Deleter(r)'
      BY <2>1, <2>3, <2>4, <2>5, <2>6, <3>1 DEF RequestIs, GoesOn, Deleter, Told
    <3> QED
      BY <2>1, <2>5, <3>1, <3>2, OneRequestKeeps
  <2>7. CASE requests[r].kind # "delete"
    <3>1. made' = made \cup {r} /\ gone' = gone
      BY <1>3, <2>7 DEF Serve
    <3>2. requests[r].kind = "create"
      BY <2>1, <2>2, <2>7 DEF RequestIs, Kinds
    <3>3. RequestIs(r)' /\ ~Deleted(r)' /\ ~Deleter(r)
      BY <2>1, <2>3, <2>4, <2>5, <3>1, <3>2 DEF RequestIs, GoesOn, Deleted, Deleter, Told
    <3> QED
      BY <2>1, <2>5, <3>1, <3>3, OneRequestKeeps
  <2> QED
    BY <2>6, <2>7
<1>4. ASSUME NEW r \in SandboxIds, NEW answer \in {"refused", "error"}, Refuse(r, answer) PROVE SandboxInv'
  <2>1. /\ r \in pending /\ pending' = pending \ {r} /\ RequestIs(r) /\ UNCHANGED <<settings, made, gone>>
    BY <1>0, <1>4 DEF Refuse
  <2>2. r \notin made
    BY <2>1 DEF RequestIs
  <2>3. CASE requests[r].at = "called"
    <3>1. GoesOn(r, "ended", answer)
      BY <1>0, <1>4, <1>t, <2>3, AnsweredGoes DEF Refuse
    <3>2. RequestIs(r)' /\ ~Deleted(r)' /\ ~Deleter(r)
      BY <2>1, <2>2, <2>3, <3>1 DEF RequestIs, GoesOn, Deleted, Deleter, Told
    <3> QED
      BY <2>1, <3>1, <3>2, OneRequestKeeps
  <2>4. CASE requests[r].at # "called"
    <3>1. requests' = requests
      BY <1>4, <2>4 DEF Refuse
    <3>2. GoesOn(r, requests[r].at, requests[r].answer)
      BY <1>0, <3>1 DEF GoesOn, SandboxTypeOK, SandboxRequest
    <3>3. RequestIs(r)' /\ (Deleted(r)' => Deleted(r)) /\ (Deleter(r) => Deleter(r)')
      BY <2>1, <2>2, <2>4, <3>1 DEF RequestIs, Deleted, Deleter, Told
    <3> QED
      BY <2>1, <3>2, <3>3, OneRequestKeeps
  <2> QED
    BY <2>3, <2>4
<1>5. ASSUME NEW r \in SandboxIds, Receive(r) PROVE SandboxInv'
  <2>1. /\ requests[r].at = "served" /\ UNCHANGED <<settings, pending, made, gone>> /\ RequestIs(r)
    BY <1>0, <1>5 DEF Receive
  <2>2. PICK answer \in {"done", "error"} : Answered(r, answer)
    BY <1>5 DEF Receive, Uncaught
  <2>3. GoesOn(r, "ended", answer)
    BY <1>0, <1>t, <2>2, AnsweredGoes
  <2>4. RequestIs(r)' /\ (Deleted(r)' => Deleted(r)) /\ (Deleter(r) => Deleter(r)')
    BY <2>1, <2>3 DEF RequestIs, GoesOn, Deleted, Deleter, Told
  <2> QED
    BY <2>1, <2>3, <2>4, OneRequestKeeps
<1>6. ASSUME NEW r \in SandboxIds, TimeOut(r) PROVE SandboxInv'
  <2>1. /\ requests[r].at \in {"called", "served"} /\ UNCHANGED <<settings, pending, made, gone>> /\ RequestIs(r)
    BY <1>0, <1>6 DEF TimeOut
  <2>2. GoesOn(r, "ended", "error")
    BY <1>0, <1>6, <1>t, AnsweredGoes DEF TimeOut, Uncaught
  <2>3. requests[r].kind # "generic"
    BY <2>1 DEF RequestIs
  <2>4. RequestIs(r)' /\ ~Deleted(r)' /\ (Deleter(r) => Deleter(r)')
    BY <2>1, <2>2, <2>3 DEF RequestIs, GoesOn, Deleted, Deleter, Told
  <2> QED
    BY <2>1, <2>2, <2>4, OneRequestKeeps
<1>7. ASSUME NEW s \in Services, NEW mode \in ServiceModes, RestartWith(s, mode) PROVE SandboxInv'
  <2> DEFINE cut(r) == [requests[r] EXCEPT !.at = "ended", !.answer = "error"]
  <2>1. /\ settings' = [settings EXCEPT ![s].mode = mode] /\ UNCHANGED <<pending, made, gone>>
        /\ requests' = [r \in SandboxIds |->
             IF requests[r].at \in {"called", "served"} THEN cut(r) ELSE requests[r]]
    BY <1>7 DEF RestartWith
  <2>2. ASSUME NEW r \in SandboxIds
        PROVE  /\ cut(r) \in SandboxRequest /\ cut(r).at = "ended" /\ cut(r).answer = "error"
               /\ cut(r).kind = requests[r].kind /\ cut(r).event = requests[r].event
    <3>1. requests[r] \in SandboxRequest /\ "ended" \in Steps /\ "error" \in Answers
      BY <1>0, <1>t DEF Steps, Answers
    <3>2. ASSUME NEW q \in SandboxRequest, NEW c, c = [q EXCEPT !.at = "ended", !.answer = "error"]
          PROVE  /\ c \in SandboxRequest /\ c.at = "ended" /\ c.answer = "error"
                 /\ c.kind = q.kind /\ c.event = q.event
      BY <3>1, <3>2 DEF SandboxRequest
    <3> QED
      BY <3>1, <3>2, Zenon
  <2> HIDE DEF cut
  <2>3. ASSUME NEW r \in SandboxIds
        PROVE  /\ requests'[r] \in SandboxRequest
               /\ requests'[r].kind = requests[r].kind /\ requests'[r].event = requests[r].event
               /\ RequestIs(r)' /\ (Deleted(r)' => Deleted(r)) /\ (Deleter(r) => Deleter(r)')
    <3>1. CASE requests[r].at \in {"called", "served"}
      <4>1. requests'[r] = cut(r) /\ RequestIs(r)
        BY <1>0, <2>1, <3>1
      <4> QED
        BY <2>1, <2>2, <3>1, <4>1 DEF RequestIs, Deleted, Deleter, Told
    <3>2. CASE requests[r].at \notin {"called", "served"}
      <4>1. requests'[r] = requests[r] /\ RequestIs(r) /\ requests[r] \in SandboxRequest
        BY <1>0, <2>1, <3>2
      <4> QED
        BY <2>1, <3>2, <4>1 DEF RequestIs, Deleted, Deleter, Told
    <3> QED
      BY <3>1, <3>2
  <2>4. SandboxTypeOK'
    <3>1. requests' \in [SandboxIds -> SandboxRequest]
      BY <2>1, <2>3
    <3> DEFINE S == [enabled : BOOLEAN, mode : ServiceModes, complete : BOOLEAN]
               new == [settings[s] EXCEPT !.mode = mode]
    <3>2. settings \in [Services -> S] /\ settings[s] \in S
      BY <1>0 DEF SandboxTypeOK
    <3>3. new \in S
      BY <3>2
    <3>4. settings' = [settings EXCEPT ![s] = new]
      BY <2>1
    <3> HIDE DEF S, new
    <3>5. settings' \in [Services -> S]
      BY <3>2, <3>3, <3>4
    <3> QED
      BY <1>0, <2>1, <3>1, <3>5 DEF SandboxTypeOK, SandboxRequest, S
  <2>5. OneDeletes'
    BY <2>3 DEF SandboxInv, OneDeletes
  <2>6. GoneByRequest'
    BY <2>1, <2>3 DEF SandboxInv, GoneByRequest
  <2> QED
    BY <2>3, <2>4, <2>5, <2>6 DEF SandboxInv
<1>8. CASE UNCHANGED sandboxVars
  BY <1>8 DEF sandboxVars, SandboxInv, SandboxTypeOK, RequestIs, OneDeletes, GoneByRequest, Deleted, Deleter, Told
<1> QED
  BY <1>1, <1>2, <1>3, <1>4, <1>5, <1>6, <1>7, <1>8 DEF SandboxNext

\* At first nobody has asked for anything.
LEMMA SandboxInitInv == SandboxInit => SandboxInv
<1> SUFFICES ASSUME SandboxInit PROVE SandboxInv
  OBVIOUS
<1>1. requests \in [SandboxIds -> [service : Services, kind : Kinds, event : SandboxIds, at : {"new"}, answer : {"none"}]]
  BY DEF SandboxInit
<1>2. \A r \in SandboxIds : requests[r] \in SandboxRequest /\ requests[r].at = "new"
  BY <1>1 DEF SandboxRequest, Steps, Answers
<1>3. requests \in [SandboxIds -> SandboxRequest]
  BY <1>1, <1>2
<1>4. pending = {} /\ made = {} /\ gone = {}
  BY DEF SandboxInit
<1>5. SandboxTypeOK
  BY <1>3, <1>4 DEF SandboxInit, SandboxTypeOK, SandboxRequest
<1>6. \A r \in SandboxIds : RequestIs(r)
  BY <1>2, <1>4 DEF RequestIs, Told
<1>7. OneDeletes /\ GoneByRequest
  BY <1>2, <1>4 DEF OneDeletes, GoneByRequest, Deleted, Told
<1> QED
  BY <1>5, <1>6, <1>7 DEF SandboxInv

(* integrations/*_sandbox: what a client was told of a create or a delete  *)
(* agrees with the provider, whatever answers are lost, whatever the       *)
(* provider does late, and whatever the settings after a restart.          *)
THEOREM AnswersAlwaysMatch == SandboxSpec => []AnswersMatchProvider
<1>1. SandboxInv => AnswersMatchProvider
  <2> SUFFICES ASSUME SandboxInv PROVE AnswersMatchProvider
    OBVIOUS
  <2>1. WritesAreAsTold
    BY DEF SandboxInv, RequestIs, WritesAreAsTold, Told
  <2>2. DeletesAreAsTold
    <3>1. \A r \in SandboxIds : Told(r, {"done"}) /\ requests[r].kind = "delete" => requests[r].event \in gone
      BY DEF SandboxInv, RequestIs
    <3>2. \A r, q \in SandboxIds :
            /\ Told(r, {"done"}) /\ requests[r].kind = "delete" /\ Told(q, {"done"}) /\ requests[q].kind = "delete"
            => r = q \/ requests[r].event # requests[q].event
      BY DEF SandboxInv, OneDeletes, Deleted
    <3>3. \A e \in gone : \E r \in SandboxIds :
            /\ requests[r].kind = "delete" /\ requests[r].event = e
            /\ requests[r].at = "served" \/ Told(r, {"done", "error"})
      BY DEF SandboxInv, GoneByRequest, Deleter
    <3> QED
      BY <3>1, <3>2, <3>3 DEF DeletesAreAsTold
  <2> QED
    BY <2>1, <2>2 DEF AnswersMatchProvider
<1> QED
  BY SandboxInitInv, <1>1, SandboxStep, PTL DEF SandboxSpec

(* The sandboxes keep their types: what is made, asked for or gone is one  *)
(* of the requests.                                                        *)
THEOREM SandboxTypeCorrect == SandboxSpec => []SandboxTypeOK
<1>1. SandboxInv => SandboxTypeOK
  BY DEF SandboxInv
<1> QED
  BY SandboxInitInv, <1>1, SandboxStep, PTL DEF SandboxSpec

-----------------------------------------------------------------------------
(* The status of Make: three requests, each with what it found so far.     *)

MakeResult == [status : {"none", "not_configured", "error", "degraded", "ok", "raised"},
               error : {"none", "zone", "scenario", "logs", "cursor"},
               count : Nat, hasCount : BOOLEAN]

\* What is in progress knows of no failure before it asked for the logs, of
\* that one after.
ResultSoFar ==
  LET r == asked.result IN
  /\ asked.next # "nothing" => shown.status = "none" /\ shown.error = "none" /\ ~shown.hasCount
  /\ asked.next \in {"scenario", "logs"} =>
       failures = {} /\ r.status = "ok" /\ r.error = "none" /\ ~r.hasCount
  /\ asked.next = "cursor" =>
       \/ failures = {} /\ r.status = "ok" /\ r.error = "none"
       \/ failures = {"logs"} /\ r.status = "degraded" /\ r.error = "logs"
  /\ asked.next # "nothing" => operations \in during
  /\ asked.next = "cursor" /\ r.hasCount => r.count \in during

MakeTypes ==
  /\ operations \in Nat /\ failures \subseteq {"scenario", "logs", "cursor"}
  /\ asked \in [next : {"nothing", "scenario", "logs", "cursor"}, result : MakeResult]
  /\ shown \in MakeResult

MakeInv == MakeTypes /\ ResultSoFar /\ StatusNamesFailure

\* The fields of Empty.
LEMMA EmptyResult ==
  /\ Empty \in MakeResult
  /\ Empty.status = "ok" /\ Empty.error = "none" /\ ~Empty.hasCount
  BY DEF Empty, MakeResult

\* A status that is returned, when it says what failed.
LEMMA ReturnKeeps ==
  ASSUME MakeInv, NEW r \in MakeResult, Returns(r), UNCHANGED <<operations, during>>,
         failures' \subseteq {"scenario", "logs", "cursor"},
         r.status = "ok" => failures' = {},
         r.status = "degraded" => r.error = IF "logs" \in failures' THEN "logs" ELSE "cursor",
         r.error \notin {"none", "zone"} => r.error \in failures',
         r.hasCount => r.count \in during
  PROVE  MakeInv'
<1>1. shown' = r /\ asked' = [next |-> "nothing", result |-> Empty]
  BY DEF Returns, Asking
<1>2. asked' \in [next : {"nothing", "scenario", "logs", "cursor"}, result : MakeResult] /\ asked'.next = "nothing"
  BY <1>1, EmptyResult
<1>3. MakeTypes'
  BY <1>1, <1>2 DEF MakeInv, MakeTypes
<1>4. ResultSoFar'
  BY <1>2 DEF ResultSoFar
<1>5. StatusNamesFailure'
  BY <1>1 DEF StatusNamesFailure
<1> QED
  BY <1>3, <1>4, <1>5 DEF MakeInv

\* One that goes on, to the cursor.
LEMMA OnToCursor ==
  ASSUME MakeInv, NEW r \in MakeResult, asked' = Asking("cursor", r), UNCHANGED <<shown, operations, during>>,
         asked.next = "logs",
         \/ failures' = {} /\ r.status = "ok" /\ r.error = "none"
         \/ failures' = {"logs"} /\ r.status = "degraded" /\ r.error = "logs",
         r.hasCount => r.count \in during
  PROVE  MakeInv'
<1>1. /\ asked' \in [next : {"nothing", "scenario", "logs", "cursor"}, result : MakeResult]
      /\ asked'.next = "cursor" /\ asked'.result = r
  BY DEF Asking
<1>2. shown.status = "none" /\ shown.error = "none" /\ ~shown.hasCount
  BY DEF MakeInv, ResultSoFar
<1>3. MakeTypes'
  BY <1>1 DEF MakeInv, MakeTypes
<1>4. ResultSoFar'
  BY <1>1, <1>2 DEF ResultSoFar, MakeInv
<1>5. StatusNamesFailure'
  BY <1>2 DEF StatusNamesFailure
<1> QED
  BY <1>3, <1>4, <1>5 DEF MakeInv

\* One step per request to Make.
LEMMA MakeStep == MakeInv /\ [MakeNext]_makeVars => MakeInv'
<1> SUFFICES ASSUME MakeInv, [MakeNext]_makeVars PROVE MakeInv'
  OBVIOUS
<1>0. /\ operations \in Nat /\ failures \subseteq {"scenario", "logs", "cursor"}
      /\ asked \in [next : {"nothing", "scenario", "logs", "cursor"}, result : MakeResult]
      /\ asked.result \in MakeResult /\ shown \in MakeResult
      /\ ResultSoFar /\ StatusNamesFailure
  BY DEF MakeInv, MakeTypes
<1>1. CASE AskStatus
  <2>1. during' = {operations} /\ failures' = {} /\ UNCHANGED operations
    BY <1>1 DEF AskStatus
  <2>2. ASSUME NEW r \in MakeResult, r.status \in {"error", "not_configured"}, r.error \in {"none", "zone"},
               ~r.hasCount, Returns(r)
        PROVE  MakeInv'
    <3>1. shown' = r /\ asked' = [next |-> "nothing", result |-> Empty]
      BY <2>2 DEF Returns, Asking
    <3>2. asked' \in [next : {"nothing", "scenario", "logs", "cursor"}, result : MakeResult] /\ asked'.next = "nothing"
      BY <3>1, EmptyResult
    <3>3. MakeTypes' /\ ResultSoFar' /\ StatusNamesFailure'
      BY <1>0, <2>1, <2>2, <3>1, <3>2 DEF MakeTypes, ResultSoFar, StatusNamesFailure
    <3> QED
      BY <3>3 DEF MakeInv
  <2>3. CASE configured = "bad zone"
    <3> DEFINE r == [Empty EXCEPT !.status = "error", !.error = "zone"]
    <3>1. Returns(r)
      BY <1>1, <2>3 DEF AskStatus
    <3>2. r \in MakeResult /\ r.status = "error" /\ r.error = "zone" /\ ~r.hasCount
      BY DEF Empty, MakeResult
    <3> QED
      BY <2>2, <3>1, <3>2
  <2>4. CASE configured = "no"
    <3> DEFINE r == [Empty EXCEPT !.status = "not_configured"]
    <3>1. Returns(r)
      BY <1>1, <2>4 DEF AskStatus
    <3>2. r \in MakeResult /\ r.status = "not_configured" /\ r.error = "none" /\ ~r.hasCount
      BY DEF Empty, MakeResult
    <3> QED
      BY <2>2, <3>1, <3>2
  <2>5. CASE asked' = Asking("scenario", Empty) /\ shown' = [Empty EXCEPT !.status = "none"]
    <3>1. shown' \in MakeResult /\ shown'.status = "none" /\ shown'.error = "none" /\ ~shown'.hasCount
      BY <2>5 DEF Empty, MakeResult
    <3>2. /\ asked' \in [next : {"nothing", "scenario", "logs", "cursor"}, result : MakeResult]
          /\ asked'.next = "scenario" /\ asked'.result = Empty
      BY <2>5, EmptyResult DEF Asking
    <3>3. MakeTypes' /\ ResultSoFar' /\ StatusNamesFailure'
      BY <1>0, <2>1, <3>1, <3>2, EmptyResult DEF MakeTypes, ResultSoFar, StatusNamesFailure
    <3> QED
      BY <3>3 DEF MakeInv
  <2> QED
    BY <1>1, <2>3, <2>4, <2>5 DEF AskStatus
<1>2. CASE OddShape
  <2> DEFINE r == [Empty EXCEPT !.status = "raised"]
  <2>1. r \in MakeResult /\ r.status = "raised" /\ r.error = "none" /\ ~r.hasCount
    BY DEF Empty, MakeResult
  <2>2. Returns(r) /\ UNCHANGED <<operations, during, failures>>
    BY <1>2 DEF OddShape
  <2> HIDE DEF r
  <2> QED
    BY <1>0, <2>1, <2>2, ReturnKeeps
<1>3. CASE ReadScenario
  <2>1. asked.next = "scenario" /\ UNCHANGED <<operations, during>>
    BY <1>3 DEF ReadScenario
  <2>2. CASE asked' = Asking("logs", asked.result) /\ UNCHANGED <<shown, failures>>
    <3>1. /\ asked' \in [next : {"nothing", "scenario", "logs", "cursor"}, result : MakeResult]
          /\ asked'.next = "logs" /\ asked'.result = asked.result
      BY <1>0, <2>2 DEF Asking
    <3>2. MakeTypes' /\ ResultSoFar' /\ StatusNamesFailure'
      BY <1>0, <2>1, <2>2, <3>1 DEF MakeTypes, ResultSoFar, StatusNamesFailure
    <3> QED
      BY <3>2 DEF MakeInv
  <2>3. CASE failures' = {"scenario"} /\ Returns([asked.result EXCEPT !.status = "error", !.error = "scenario"])
    <3> DEFINE r == [asked.result EXCEPT !.status = "error", !.error = "scenario"]
    <3>1. r \in MakeResult /\ r.status = "error" /\ r.error = "scenario" /\ r.hasCount = asked.result.hasCount
      BY <1>0 DEF MakeResult
    <3>2. ~r.hasCount
      BY <1>0, <2>1, <3>1 DEF ResultSoFar
    <3>3. Returns(r)
      BY <2>3
    <3> HIDE DEF r
    <3> QED
      BY <2>1, <2>3, <3>1, <3>2, <3>3, ReturnKeeps
  <2> QED
    BY <1>3, <2>2, <2>3 DEF ReadScenario
<1>4. CASE ReadLogs
  <2>1. asked.next = "logs" /\ UNCHANGED <<operations, during>> /\ failures = {}
        /\ asked.result.status = "ok" /\ asked.result.error = "none" /\ ~asked.result.hasCount
    BY <1>0, <1>4 DEF ReadLogs, ResultSoFar
  <2>2. ASSUME NEW r \in MakeResult, AfterLogs(r),
               \/ failures' = {} /\ r.status = "ok" /\ r.error = "none"
               \/ failures' = {"logs"} /\ r.status = "degraded" /\ r.error = "logs",
               r.hasCount => r.count \in during
        PROVE  MakeInv'
    BY <2>1, <2>2, ReturnKeeps, OnToCursor DEF AfterLogs
  <2>3. ASSUME NEW has \in BOOLEAN, failures' = failures,
               AfterLogs([asked.result EXCEPT !.hasCount = has, !.count = IF has THEN operations ELSE 0])
        PROVE  MakeInv'
    <3> DEFINE n == IF has THEN operations ELSE 0
               r == [asked.result EXCEPT !.hasCount = has, !.count = n]
    <3>1. n \in Nat /\ (has => n \in during)
      BY <1>0, <2>1 DEF ResultSoFar
    <3> HIDE DEF n
    <3>2. r \in MakeResult /\ r.status = "ok" /\ r.error = "none" /\ r.hasCount = has /\ r.count = n
      BY <1>0, <2>1, <3>1 DEF MakeResult
    <3>3. AfterLogs(r)
      BY <2>3 DEF n
    <3> HIDE DEF r
    <3> QED
      BY <2>1, <2>2, <2>3, <3>1, <3>2, <3>3
  <2>4. ASSUME failures' = {"logs"}, AfterLogs([asked.result EXCEPT !.status = "degraded", !.error = "logs"])
        PROVE  MakeInv'
    <3> DEFINE r == [asked.result EXCEPT !.status = "degraded", !.error = "logs"]
    <3>1. r \in MakeResult /\ r.status = "degraded" /\ r.error = "logs" /\ r.hasCount = asked.result.hasCount
      BY <1>0 DEF MakeResult
    <3> QED
      BY <2>1, <2>2, <2>4, <3>1
  <2> QED
    BY <1>4, <2>3, <2>4 DEF ReadLogs
<1>5. CASE ReadCursor
  <2> DEFINE r == asked.result
             w == WithoutCursor(r)
  <2>1. /\ asked.next = "cursor" /\ UNCHANGED <<operations, during>> /\ r \in MakeResult
        /\ \/ failures = {} /\ r.status = "ok" /\ r.error = "none"
           \/ failures = {"logs"} /\ r.status = "degraded" /\ r.error = "logs"
        /\ r.hasCount => r.count \in during
    BY <1>0, <1>5 DEF ReadCursor, ResultSoFar
  <2> HIDE DEF r
  <2>2. CASE Returns(r) /\ UNCHANGED failures
    BY <2>1, <2>2, ReturnKeeps
  <2>3. CASE Returns(w) /\ failures' = failures \cup {"cursor"}
    <3>1. /\ w \in MakeResult /\ w.status = "degraded" /\ w.hasCount = r.hasCount /\ w.count = r.count
          /\ w.error = IF r.error = "none" THEN "cursor" ELSE r.error
      BY <2>1 DEF WithoutCursor, MakeResult
    <3> HIDE DEF w
    <3> QED
      BY <2>1, <2>3, <3>1, ReturnKeeps
  <2> QED
    BY <1>5, <2>2, <2>3 DEF ReadCursor, r
<1>6. CASE Execute
  <2>1. /\ operations' \in Nat /\ UNCHANGED <<asked, shown, failures>>
        /\ during' = IF asked.next = "nothing" THEN during ELSE during \cup {operations'}
    BY <1>6, MaxOperationsAssumption DEF Execute
  <2>2. during \subseteq during' /\ (asked'.next # "nothing" => operations' \in during')
    BY <2>1
  <2>3. MakeTypes'
    BY <1>0, <2>1 DEF MakeTypes
  <2>4. ResultSoFar' /\ StatusNamesFailure'
    BY <1>0, <2>1, <2>2 DEF ResultSoFar, StatusNamesFailure
  <2> QED
    BY <2>3, <2>4 DEF MakeInv
<1>7. CASE UNCHANGED makeVars
  BY <1>7 DEF makeVars, MakeInv, MakeTypes, ResultSoFar, StatusNamesFailure
<1> QED
  BY <1>1, <1>2, <1>3, <1>4, <1>5, <1>6, <1>7 DEF MakeNext

\* No status was asked for yet.
LEMMA MakeInitInv == MakeInit => MakeInv
<1> SUFFICES ASSUME MakeInit PROVE MakeInv
  OBVIOUS
<1>1. shown \in MakeResult /\ shown.status = "none" /\ shown.error = "none" /\ ~shown.hasCount
  BY DEF MakeInit, Empty, MakeResult
<1>2. asked \in [next : {"nothing", "scenario", "logs", "cursor"}, result : MakeResult] /\ asked.next = "nothing"
  BY EmptyResult DEF MakeInit, Asking
<1>3. operations = 0 /\ during = {} /\ failures = {}
  BY DEF MakeInit
<1>4. MakeTypes
  BY <1>1, <1>2, <1>3 DEF MakeTypes
<1>5. ResultSoFar /\ StatusNamesFailure
  BY <1>1, <1>2 DEF ResultSoFar, StatusNamesFailure
<1> QED
  BY <1>4, <1>5 DEF MakeInv

(* get_make_status: a status that is ok had no request fail, a degraded    *)
(* one or an error names the first that did, and its count is of its time, *)
(* however the scenario goes on meanwhile.                                 *)
THEOREM StatusAlwaysNamesFailure == MakeSpec => []StatusNamesFailure
<1>1. MakeInv => StatusNamesFailure
  BY DEF MakeInv
<1> QED
  BY MakeInitInv, <1>1, MakeStep, PTL DEF MakeSpec

(* The status keeps its types.                                             *)
THEOREM MakeTypeCorrect == MakeSpec => []MakeTypeOK
<1>1. MakeInv => MakeTypeOK
  BY DEF MakeInv, MakeTypes, MakeResult, MakeTypeOK
<1> QED
  BY <1>1, MakeInitInv, MakeStep, PTL DEF MakeSpec
-----------------------------------------------------------------------------
(* check_limit of the Sheets router: while the requests of a user come one  *)
(* at a time, the deque is the end of the history of admissions, and       *)
(* whatever it dropped had left the window.                                *)

\* What the deque no longer has, from the start of the history.
Dropped == Len(admitted) - Len(bucket)

\* What a request in check_limit knows of the deque and the history.
WhereItIs(t) ==
  Inside(t) =>
    /\ checking[t].now <= clock
    /\ \A i \in 1 .. Len(admitted) : admitted[i] <= checking[t].now
    /\ \A i \in 1 .. Dropped : admitted[i] + Window < checking[t].now
    /\ checking[t].at = "pop" => bucket # << >> /\ Old(Head(bucket), checking[t].now)
    /\ checking[t].at = "append" => Len(bucket) < Limit

\* The deque while no two requests met in check_limit: the end of a history
\* in which Limit admissions are never within one window of the next one.
OneAtATime ==
  /\ \A t, u \in LimitThreads : Inside(t) /\ Inside(u) => t = u
  /\ \A t \in LimitThreads : WhereItIs(t)
  /\ Len(bucket) <= Len(admitted)
  /\ \A i \in 1 .. Len(bucket) : bucket[i] = admitted[Dropped + i]
  /\ \A i \in 1 .. Len(admitted) : admitted[i] <= clock
  /\ \A i \in 1 .. Dropped : admitted[i] + Window < clock
  /\ \A i, j \in 1 .. Len(admitted) : i <= j => admitted[i] <= admitted[j]
  /\ \A i \in 1 .. Len(admitted) : i + Limit <= Len(admitted) => admitted[i] + Window < admitted[i + Limit]

LimitInv == LimitTypeOK /\ (~overlap => OneAtATime)

\* A set of numbers has a least one.
LEMMA LeastNumber ==
  ASSUME NEW T, T \subseteq Nat, T # {}
  PROVE  \E x \in T : \A y \in T : x <= y
<1> DEFINE R == OpToRel(<, Nat)
<1>1. IsWellFoundedOn(R, Nat)
  BY NatLessThanWellFounded
<1>2. \A x, y \in Nat : <<y, x>> \notin R => x <= y
  BY DEF OpToRel
<1> HIDE DEF R
<1>3. \E x \in T : \A y \in T : ~(<<y, x>> \in R)
  BY <1>1, WFMin
<1> QED
  BY <1>2, <1>3

\* What the types say of the numbers.
LEMMA LimitNumbers ==
  ASSUME LimitTypeOK
  PROVE  /\ clock \in Nat /\ Window \in Nat /\ Limit \in Nat \ {0}
         /\ bucket \in Seq(Nat) /\ admitted \in Seq(Nat)
         /\ Len(bucket) \in Nat /\ Len(admitted) \in Nat
         /\ \A t \in LimitThreads : checking[t].now \in Nat
<1>1. Moments \subseteq Nat
  BY LimitAssumption DEF Moments
<1>2. \A t \in LimitThreads : checking[t].now \in Moments
  BY DEF LimitTypeOK
<1>3. bucket \in Seq(Nat) /\ admitted \in Seq(Nat)
  <2> SUFFICES ASSUME NEW s \in Seq(Moments) PROVE s \in Seq(Nat)
    BY DEF LimitTypeOK
  <2>1. Len(s) \in Nat /\ s \in [1 .. Len(s) -> Moments]
    BY LenProperties
  <2>2. s \in [1 .. Len(s) -> Nat]
    BY <1>1, <2>1
  <2> QED
    BY <2>1, <2>2, SeqDef
<1>4. clock \in Nat
  BY <1>1 DEF LimitTypeOK
<1>5. Len(bucket) \in Nat /\ Len(admitted) \in Nat
  BY <1>3, LenProperties
<1> QED
  BY <1>1, <1>2, <1>3, <1>4, <1>5, LimitAssumption

\* Each operation on the deque leaves times in it.
LEMMA LimitTypeStep == LimitTypeOK /\ [LimitNext]_limitVars => LimitTypeOK'
<1> SUFFICES ASSUME LimitTypeOK, [LimitNext]_limitVars PROVE LimitTypeOK'
  OBVIOUS
<1> DEFINE Check == [at : {"out", "test", "pop", "count", "append"}, now : Moments]
<1>0. /\ clock \in Moments /\ bucket \in Seq(Moments) /\ admitted \in Seq(Moments)
      /\ checking \in [LimitThreads -> Check] /\ overlap \in BOOLEAN
      /\ Horizon \in Nat /\ 0 \in Moments
  BY LimitAssumption DEF LimitTypeOK, Moments
<1>1. Elsewhere \in Check
  BY <1>0 DEF Elsewhere
<1>2. ASSUME NEW t \in LimitThreads, NEW step \in {"out", "test", "pop", "count", "append"}, At(t, step)
      PROVE  checking' \in [LimitThreads -> Check]
  <2>1. [checking[t] EXCEPT !.at = step] \in Check
    BY <1>0
  <2> QED
    BY <1>0, <1>2, <2>1 DEF At
<1>3. ASSUME NEW t \in LimitThreads, Leave(t)
      PROVE  checking' \in [LimitThreads -> Check]
  BY <1>0, <1>1, <1>3 DEF Leave
<1>4. CASE Tick
  <2>1. clock + 1 \in Moments
    BY <1>0, <1>4 DEF Tick, Moments
  <2> QED
    BY <1>0, <1>4, <2>1 DEF Tick, LimitTypeOK
<1>5. ASSUME NEW t \in LimitThreads, Enter(t) PROVE LimitTypeOK'
  <2>1. [at |-> "test", now |-> clock] \in Check
    BY <1>0
  <2> QED
    BY <1>0, <1>5, <2>1 DEF Enter, LimitTypeOK
<1>6. ASSUME NEW t \in LimitThreads, TestFront(t) PROVE LimitTypeOK'
  BY <1>0, <1>2, <1>6 DEF TestFront, LimitTypeOK
<1>7. ASSUME NEW t \in LimitThreads, PopFront(t) PROVE LimitTypeOK'
  <2>1. bucket # << >> => Tail(bucket) \in Seq(Moments)
    BY <1>0
  <2> QED
    BY <1>0, <1>2, <1>3, <1>7, <2>1 DEF PopFront, LimitTypeOK
<1>8. ASSUME NEW t \in LimitThreads, CountWindow(t) PROVE LimitTypeOK'
  BY <1>0, <1>2, <1>3, <1>8 DEF CountWindow, LimitTypeOK
<1>9. ASSUME NEW t \in LimitThreads, AppendNow(t) PROVE LimitTypeOK'
  <2>1. checking[t].now \in Moments
    BY <1>0
  <2>2. Append(bucket, checking[t].now) \in Seq(Moments) /\ Append(admitted, checking[t].now) \in Seq(Moments)
    BY <1>0, <2>1
  <2> QED
    BY <1>0, <1>3, <1>9, <2>2 DEF AppendNow, LimitTypeOK
<1>10. CASE UNCHANGED limitVars
  BY <1>0, <1>10 DEF limitVars, LimitTypeOK
<1> QED
  BY <1>4, <1>5, <1>6, <1>7, <1>8, <1>9, <1>10 DEF LimitNext

\* Who moves on in check_limit was in it, and nobody else moved.
LEMMA StillInside ==
  ASSUME LimitTypeOK, NEW t \in LimitThreads, Inside(t),
         Leave(t) \/ \E step \in {"test", "pop", "count", "append"} : At(t, step)
  PROVE  /\ \A u \in LimitThreads : Inside(u)' => Inside(u)
         /\ \A u \in LimitThreads \ {t} : checking'[u] = checking[u]
         /\ checking'[t] = Elsewhere \/ checking'[t].now = checking[t].now
  BY DEF LimitTypeOK, Leave, At, Inside

\* A request that leaves the deque and the history alone.
LEMMA SameDeque ==
  ASSUME LimitTypeOK, OneAtATime, UNCHANGED <<clock, bucket, admitted>>,
         \A t \in LimitThreads : Inside(t)' => Inside(t),
         \A t \in LimitThreads : WhereItIs(t)'
  PROVE  OneAtATime'
  BY DEF OneAtATime, Dropped

\* One step, while requests come one at a time.
LEMMA OneAtATimeStep ==
  ASSUME LimitTypeOK, OneAtATime, [LimitNext]_limitVars, ~overlap'
  PROVE  OneAtATime'
<1>0. /\ clock \in Nat /\ Window \in Nat /\ Limit \in Nat \ {0}
      /\ bucket \in Seq(Nat) /\ admitted \in Seq(Nat)
      /\ Len(bucket) \in Nat /\ Len(admitted) \in Nat
      /\ \A t \in LimitThreads : checking[t].now \in Nat
  BY LimitNumbers
<1>1. CASE Tick
  <2>1. clock' = clock + 1 /\ UNCHANGED <<bucket, checking, admitted>>
    BY <1>1 DEF Tick
  <2>2. Dropped' = Dropped /\ \A t \in LimitThreads : Inside(t)' <=> Inside(t)
    BY <2>1 DEF Dropped, Inside
  <2>3. ASSUME NEW t \in LimitThreads PROVE WhereItIs(t)'
    <3>1. WhereItIs(t)
      BY DEF OneAtATime
    <3>2. checking[t].now <= clock => checking[t].now <= clock + 1
      BY <1>0
    <3> QED
      BY <2>1, <2>2, <3>1, <3>2 DEF WhereItIs
  <2>4. /\ \A i \in 1 .. Len(admitted) : admitted[i] <= clock + 1
        /\ \A i \in 1 .. Dropped : admitted[i] + Window < clock + 1
    <3>1. ASSUME NEW i \in 1 .. Len(admitted) PROVE admitted[i] <= clock + 1
      <4> DEFINE a == admitted[i]
      <4>1. a \in Nat /\ a <= clock
        BY <1>0 DEF OneAtATime
      <4> HIDE DEF a
      <4>2. a <= clock + 1
        BY <1>0, <4>1
      <4> QED
        BY <4>2 DEF a
    <3>2. ASSUME NEW i \in 1 .. Dropped PROVE admitted[i] + Window < clock + 1
      <4> DEFINE a == admitted[i]
      <4>1. i \in 1 .. Len(admitted)
        BY <1>0 DEF Dropped
      <4>2. a \in Nat /\ a + Window < clock
        BY <1>0, <4>1 DEF OneAtATime
      <4> HIDE DEF a
      <4>3. a + Window < clock + 1
        BY <1>0, <4>2
      <4> QED
        BY <4>3 DEF a
    <3> QED
      BY <3>1, <3>2
  <2> QED
    BY <2>1, <2>2, <2>3, <2>4 DEF OneAtATime
<1>2. ASSUME NEW t \in LimitThreads, Enter(t) PROVE OneAtATime'
  <2>1. /\ \A u \in LimitThreads : ~Inside(u)
        /\ UNCHANGED <<clock, bucket, admitted>>
        /\ checking' = [checking EXCEPT ![t] = [at |-> "test", now |-> clock]]
    BY <1>2 DEF Enter
  <2>2. /\ checking'[t].at = "test" /\ checking'[t].now = clock
        /\ \A u \in LimitThreads \ {t} : checking'[u] = checking[u]
    BY <2>1 DEF LimitTypeOK
  <2>3. WhereItIs(t)'
    BY <1>0, <2>1, <2>2 DEF OneAtATime, WhereItIs, Dropped
  <2>4. \A u \in LimitThreads \ {t} : ~Inside(u)' /\ WhereItIs(u)'
    BY <2>1, <2>2 DEF WhereItIs, Inside
  <2> QED
    BY <2>1, <2>3, <2>4 DEF OneAtATime, Dropped
<1>3. ASSUME NEW t \in LimitThreads, TestFront(t) PROVE OneAtATime'
  <2>1. Inside(t) /\ UNCHANGED <<clock, bucket, admitted>>
    BY <1>3 DEF TestFront, Inside, Elsewhere
  <2>2. /\ \A u \in LimitThreads : Inside(u)' => Inside(u)
        /\ \A u \in LimitThreads \ {t} : checking'[u] = checking[u]
    BY <1>3, <2>1, StillInside DEF TestFront
  <2>3. checking'[t].now = checking[t].now /\ checking'[t].at # "append"
        /\ (checking'[t].at = "pop" => bucket # << >> /\ Old(Head(bucket), checking[t].now))
    BY <1>3 DEF TestFront, At, LimitTypeOK
  <2>4. \A u \in LimitThreads : WhereItIs(u)'
    BY <2>1, <2>2, <2>3 DEF OneAtATime, WhereItIs, Dropped, Inside
  <2> QED
    BY <2>1, <2>2, <2>4, SameDeque
<1>4. ASSUME NEW t \in LimitThreads, PopFront(t) PROVE OneAtATime'
  <2>1. Inside(t) /\ UNCHANGED <<clock, admitted>> /\ checking[t].at = "pop"
    BY <1>4 DEF PopFront, Inside, Elsewhere
  <2>2. /\ bucket # << >> /\ Head(bucket) + Window < checking[t].now /\ checking[t].now <= clock
        /\ \A u \in LimitThreads \ {t} : ~Inside(u)
    BY <2>1 DEF OneAtATime, WhereItIs, Old
  <2>3. At(t, "test") /\ bucket' = Tail(bucket)
    BY <1>4, <2>2 DEF PopFront
  <2>4. /\ \A u \in LimitThreads : Inside(u)' => Inside(u)
        /\ checking'[t].now = checking[t].now /\ checking'[t].at = "test"
    <3>1. checking'[t].now = checking[t].now /\ checking'[t].at = "test"
      BY <2>3 DEF At, LimitTypeOK
    <3>2. \A u \in LimitThreads : Inside(u)' => Inside(u)
      BY <2>1, <2>3, StillInside
    <3> QED
      BY <3>1, <3>2
  <2> DEFINE d == Len(admitted) - Len(bucket)
             e == Len(admitted) - Len(Tail(bucket))
  <2>5. /\ Len(Tail(bucket)) = Len(bucket) - 1 /\ Len(bucket) >= 1
        /\ \A i \in 1 .. Len(Tail(bucket)) : Tail(bucket)[i] = bucket[i + 1]
        /\ Head(bucket) = bucket[1]
    BY <1>0, <2>2
  <2>6. e = d + 1 /\ d \in Nat
    <3> DEFINE l == Len(bucket)
               a == Len(admitted)
               l1 == Len(Tail(bucket))
    <3>1. l <= a /\ l \in Nat /\ a \in Nat /\ l1 = l - 1 /\ l >= 1
      BY <1>0, <2>5 DEF OneAtATime
    <3>2. d = a - l /\ e = a - l1
      OBVIOUS
    <3> HIDE DEF l, a, l1, d, e
    <3> QED
      BY <3>1, <3>2
  <2>7. bucket[1] = admitted[e] /\ e \in 1 .. Len(admitted)
    BY <1>0, <2>5, <2>6 DEF OneAtATime, Dropped
  <2>8. ASSUME NEW i \in 1 .. Len(Tail(bucket)) PROVE Tail(bucket)[i] = admitted[e + i]
    <3>1. i + 1 \in 1 .. Len(bucket)
      BY <1>0, <2>5
    <3>2. bucket[i + 1] = admitted[d + (i + 1)]
      BY <3>1 DEF OneAtATime, Dropped
    <3>3. i \in Nat
      BY <1>0, <2>5
    <3> HIDE DEF d, e
    <3>4. d + (i + 1) = e + i
      BY <2>6, <3>3
    <3> QED
      BY <2>5, <3>2, <3>4
  <2>9. \A i \in 1 .. e : admitted[i] + Window < checking[t].now /\ admitted[i] + Window < clock
    <3> SUFFICES ASSUME NEW i \in 1 .. e
                 PROVE  admitted[i] + Window < checking[t].now /\ admitted[i] + Window < clock
      OBVIOUS
    <3>1. CASE i = e
      <4>1. admitted[e] \in Nat /\ checking[t].now \in Nat
        BY <1>0, <2>7
      <4>2. admitted[e] + Window < checking[t].now
        BY <2>2, <2>5, <2>7
      <4> HIDE DEF e
      <4> QED
        BY <1>0, <2>2, <3>1, <4>1, <4>2
    <3>2. CASE i # e
      <4>1. i \in 1 .. d
        BY <2>6, <3>2
      <4> QED
        BY <2>1, <4>1 DEF OneAtATime, WhereItIs, Dropped
    <3> QED
      BY <3>1, <3>2
  <2>10. Dropped' = e
    BY <2>1, <2>3 DEF Dropped
  <2>11. ASSUME NEW u \in LimitThreads PROVE WhereItIs(u)'
    <3>1. CASE u = t
      BY <2>1, <2>2, <2>4, <2>9, <2>10, <3>1 DEF OneAtATime, WhereItIs
    <3>2. CASE u # t
      BY <2>2, <2>4, <3>2 DEF WhereItIs
    <3> QED
      BY <3>1, <3>2
  <2>12. Len(Tail(bucket)) <= Len(admitted)
    BY <1>0, <2>5 DEF OneAtATime
  <2> HIDE DEF e
  <2> QED
    BY <2>1, <2>3, <2>4, <2>8, <2>9, <2>10, <2>11, <2>12 DEF OneAtATime
<1>5. ASSUME NEW t \in LimitThreads, CountWindow(t) PROVE OneAtATime'
  <2>1. Inside(t) /\ UNCHANGED <<clock, bucket, admitted>>
    BY <1>5 DEF CountWindow, Inside, Elsewhere
  <2>2. /\ \A u \in LimitThreads : Inside(u)' => Inside(u)
        /\ \A u \in LimitThreads \ {t} : checking'[u] = checking[u]
    BY <1>5, <2>1, StillInside DEF CountWindow
  <2>3. \/ ~Inside(t)'
        \/ checking'[t].now = checking[t].now /\ checking'[t].at = "append" /\ Len(bucket) < Limit
    <3>1. CASE Full
      BY <1>5, <3>1 DEF CountWindow, Leave, LimitTypeOK, Inside
    <3>2. CASE ~Full
      BY <1>0, <1>5, <3>2 DEF CountWindow, At, LimitTypeOK, Full
    <3> QED
      BY <3>1, <3>2
  <2>4. \A u \in LimitThreads : WhereItIs(u)'
    BY <2>1, <2>2, <2>3 DEF OneAtATime, WhereItIs, Dropped, Inside
  <2> QED
    BY <2>1, <2>2, <2>4, SameDeque
<1>6. ASSUME NEW t \in LimitThreads, AppendNow(t) PROVE OneAtATime'
  <2> DEFINE x == checking[t].now
             n == Len(admitted) + 1
             d == Len(admitted) - Len(bucket)
  <2>1. /\ Inside(t) /\ checking[t].at = "append" /\ clock' = clock /\ Leave(t)
        /\ bucket' = Append(bucket, x) /\ admitted' = Append(admitted, x)
    BY <1>6 DEF AppendNow, Inside, Elsewhere
  <2>2. /\ \A u \in LimitThreads \ {t} : ~Inside(u)
        /\ x <= clock /\ Len(bucket) < Limit
        /\ \A i \in 1 .. Len(admitted) : admitted[i] <= x
        /\ \A i \in 1 .. d : admitted[i] + Window < x
    BY <2>1 DEF OneAtATime, WhereItIs, Dropped
  <2>3. \A u \in LimitThreads : ~Inside(u)'
    <3>1. ~Inside(t)'
      BY <2>1 DEF Leave, LimitTypeOK, Inside
    <3>2. \A u \in LimitThreads : Inside(u)' => Inside(u)
      BY <2>1, StillInside
    <3> QED
      BY <2>2, <3>1, <3>2
  <2>4. x \in Nat /\ n \in Nat /\ d \in Nat /\ d + Len(bucket) + 1 = n
    BY <1>0 DEF OneAtATime
  <2>5. /\ Len(admitted') = n /\ admitted'[n] = x
        /\ \A i \in 1 .. Len(admitted) : admitted'[i] = admitted[i] /\ admitted[i] \in Nat
        /\ Len(bucket') = Len(bucket) + 1 /\ bucket'[Len(bucket) + 1] = x
        /\ \A i \in 1 .. Len(bucket) : bucket'[i] = bucket[i]
    BY <1>0, <2>1, <2>4
  <2> HIDE DEF x
  <2>a. x \in Nat /\ clock \in Nat /\ Window \in Nat /\ x <= clock
    BY <1>0, <2>2, <2>4
  <2>6. Dropped' = d
    BY <1>0, <2>5 DEF Dropped
  <2>7. ASSUME NEW i \in 1 .. Len(bucket') PROVE bucket'[i] = admitted'[d + i]
    <3>1. CASE i = Len(bucket) + 1
      BY <1>0, <2>4, <2>5, <3>1
    <3>2. CASE i # Len(bucket) + 1
      <4>1. i \in 1 .. Len(bucket) /\ d + i \in 1 .. Len(admitted)
        BY <1>0, <2>5, <3>2 DEF OneAtATime
      <4>2. bucket[i] = admitted[d + i]
        BY <4>1 DEF OneAtATime, Dropped
      <4> HIDE DEF d
      <4> QED
        BY <2>5, <4>1, <4>2
    <3> QED
      BY <3>1, <3>2
  <2>8. ASSUME NEW i \in 1 .. n
        PROVE  admitted'[i] <= x /\ admitted'[i] <= clock /\ (i # n => i \in 1 .. Len(admitted))
    <3>1. CASE i = n
      BY <1>0, <2>2, <2>4, <2>5, <3>1
    <3>2. CASE i # n
      <4>1. i \in 1 .. Len(admitted)
        BY <1>0, <3>2
      <4>2. admitted'[i] \in Nat /\ admitted'[i] <= x
        BY <2>2, <2>5, <4>1
      <4> QED
        BY <2>a, <4>1, <4>2
    <3> QED
      BY <3>1, <3>2
  <2>9. ASSUME NEW i \in 1 .. n, NEW j \in 1 .. n, i <= j
        PROVE  admitted'[i] <= admitted'[j]
    <3>1. CASE j = n
      BY <2>5, <2>8, <3>1
    <3>2. CASE j # n
      <4>1. i \in 1 .. Len(admitted) /\ j \in 1 .. Len(admitted)
        BY <1>0, <2>9, <3>2
      <4> QED
        BY <2>5, <2>9, <4>1 DEF OneAtATime
    <3> QED
      BY <3>1, <3>2
  <2>10. ASSUME NEW i \in 1 .. n, i + Limit <= n
         PROVE  admitted'[i] + Window < admitted'[i + Limit]
    <3>1. CASE i + Limit = n
      <4>1. i \in 1 .. d /\ i \in 1 .. Len(admitted)
        BY <1>0, <2>2, <2>4, <3>1
      <4> QED
        BY <2>2, <2>5, <3>1, <4>1
    <3>2. CASE i + Limit # n
      <4>1. i \in 1 .. Len(admitted) /\ i + Limit \in 1 .. Len(admitted) /\ i + Limit <= Len(admitted)
        <5>1. Len(admitted) \in Nat /\ Limit \in Nat \ {0} /\ i \in Nat \ {0}
          BY <1>0
        <5>2. i + Limit <= Len(admitted) + 1 /\ i + Limit # Len(admitted) + 1
          BY <2>10, <3>2
        <5> HIDE DEF n, d
        <5> QED
          BY <5>1, <5>2
      <4>2. admitted[i] + Window < admitted[i + Limit]
        BY <4>1 DEF OneAtATime
      <4> QED
        BY <2>5, <4>1, <4>2
    <3> QED
      BY <3>1, <3>2
  <2>11. ASSUME NEW i \in 1 .. d PROVE admitted'[i] + Window < clock
    <3>1. i \in 1 .. Len(admitted)
      BY <1>0, <2>4
    <3> DEFINE y == admitted'[i]
    <3>2. y \in Nat /\ y + Window < x
      BY <2>2, <2>5, <3>1
    <3> HIDE DEF d, n, y
    <3>3. y + Window < clock
      BY <2>a, <3>2
    <3> QED
      BY <3>3 DEF y
  <2>12. \A u \in LimitThreads : WhereItIs(u)'
    BY <2>3 DEF WhereItIs
  <2>13. Len(bucket') <= Len(admitted')
    BY <1>0, <2>4, <2>5
  <2> HIDE DEF d, n
  <2> QED
    BY <2>1, <2>3, <2>5, <2>6, <2>7, <2>8, <2>9, <2>10, <2>11, <2>12, <2>13 DEF OneAtATime
<1>7. CASE UNCHANGED limitVars
  BY <1>7 DEF limitVars, OneAtATime, WhereItIs, Dropped, Inside
<1> QED
  BY <1>1, <1>2, <1>3, <1>4, <1>5, <1>6, <1>7 DEF LimitNext

\* The overlap is remembered, and before it the requests come one at a time.
LEMMA LimitStep == LimitInv /\ [LimitNext]_limitVars => LimitInv'
<1> SUFFICES ASSUME LimitInv, [LimitNext]_limitVars PROVE LimitInv'
  OBVIOUS
<1>1. overlap => overlap'
  BY DEF LimitNext, Tick, Enter, TestFront, PopFront, CountWindow, AppendNow, limitVars
<1> QED
  BY <1>1, LimitTypeStep, OneAtATimeStep DEF LimitInv

\* At the start nobody was admitted.
LEMMA LimitInitInv == LimitInit => LimitInv
<1> SUFFICES ASSUME LimitInit PROVE LimitInv
  OBVIOUS
<1>1. 0 \in Moments /\ Limit \in Nat
  BY LimitAssumption DEF Moments
<1>2. LimitTypeOK
  <2>1. Elsewhere \in [at : {"out", "test", "pop", "count", "append"}, now : Moments]
    BY <1>1 DEF Elsewhere
  <2>2. << >> \in Seq(Moments)
    BY EmptySeq
  <2> QED
    BY <1>1, <2>1, <2>2 DEF LimitInit, LimitTypeOK
<1>3. \A t \in LimitThreads : ~Inside(t)
  BY DEF LimitInit, Inside
<1>4. Len(bucket) = 0 /\ Len(admitted) = 0 /\ Dropped = 0
  BY DEF LimitInit, Dropped
<1>5. OneAtATime
  BY <1>1, <1>3, <1>4 DEF OneAtATime, WhereItIs
<1> QED
  BY <1>2, <1>5 DEF LimitInv

\* In such a history no window has more than Limit admissions: the window
\* starts with its earliest one, and the Limit-th after it is too late.
LEMMA WindowHasLimit ==
  ASSUME LimitTypeOK, OneAtATime, NEW m \in Moments
  PROVE  InWindow(m) <= Limit
<1> DEFINE W == {i \in DOMAIN admitted : m <= admitted[i] /\ admitted[i] <= m + Window}
<1>0. /\ Window \in Nat /\ Limit \in Nat \ {0} /\ m \in Nat
      /\ admitted \in Seq(Nat) /\ Len(admitted) \in Nat
  BY LimitNumbers, LimitAssumption DEF Moments
<1>1. W \subseteq 1 .. Len(admitted) /\ W \subseteq Nat
  BY <1>0
<1>2. CASE W = {}
  <2>1. InWindow(m) = Cardinality({})
    BY <1>2 DEF InWindow
  <2> QED
    BY <1>0, <2>1, FS_EmptySet
<1>3. CASE W # {}
  <2>1. PICK lo \in W : \A i \in W : lo <= i
    <3> HIDE DEF W
    <3> QED
      BY <1>1, <1>3, LeastNumber
  <2>2. ASSUME NEW i \in W PROVE i \in lo .. (lo + Limit - 1)
    <3>1. /\ lo \in 1 .. Len(admitted) /\ i \in 1 .. Len(admitted) /\ lo <= i
          /\ m <= admitted[lo] /\ admitted[i] <= m + Window
      BY <1>0, <2>1
    <3>2. ~(lo + Limit <= i)
      <4> SUFFICES ASSUME lo + Limit <= i PROVE FALSE
        OBVIOUS
      <4>1. lo + Limit \in 1 .. Len(admitted) /\ lo + Limit <= Len(admitted)
        BY <1>0, <3>1
      <4>2. admitted[lo] + Window < admitted[lo + Limit] /\ admitted[lo + Limit] <= admitted[i]
        BY <3>1, <4>1 DEF OneAtATime
      <4>3. admitted[lo] \in Nat /\ admitted[lo + Limit] \in Nat /\ admitted[i] \in Nat
        BY <1>0, <3>1, <4>1
      <4> DEFINE a == admitted[lo]
                 b == admitted[lo + Limit]
                 c == admitted[i]
      <4>4. m <= a /\ c <= m + Window /\ a + Window < b /\ b <= c
        BY <3>1, <4>2
      <4>5. a \in Nat /\ b \in Nat /\ c \in Nat
        BY <4>3
      <4> HIDE DEF a, b, c
      <4> QED
        BY <1>0, <4>4, <4>5
    <3> QED
      BY <1>0, <3>1, <3>2
  <2>3. lo \in Nat /\ lo \in Int /\ lo + Limit - 1 \in Int /\ lo <= lo + Limit - 1
    BY <1>0, <1>1, <2>1
  <2>4. IsFiniteSet(lo .. (lo + Limit - 1)) /\ Cardinality(lo .. (lo + Limit - 1)) = Limit
    <3>1. (lo + Limit - 1) - lo + 1 = Limit
      BY <1>0, <2>3
    <3> QED
      BY <2>3, <3>1, FS_Interval
  <2>5. InWindow(m) = Cardinality(W)
    BY DEF InWindow
  <2> HIDE DEF W
  <2>6. W \subseteq lo .. (lo + Limit - 1)
    BY <2>2
  <2>7. Cardinality(W) <= Cardinality(lo .. (lo + Limit - 1))
    BY <2>4, <2>6, FS_Subset
  <2> QED
    BY <2>4, <2>5, <2>7
<1> QED
  BY <1>2, <1>3

(* check_limit: for any number of threads and any limit, a window with more *)
(* requests than the limit needs two requests in check_limit at one time.  *)
THEOREM ExcessAlwaysNeedsOverlap == LimitSpec => []ExcessOnlyByOverlap
<1>1. LimitInv => ExcessOnlyByOverlap
  <2> SUFFICES ASSUME LimitInv, ~overlap, NEW m \in Moments PROVE ~(InWindow(m) > Limit)
    BY DEF ExcessOnlyByOverlap
  <2>1. InWindow(m) <= Limit /\ Limit \in Nat
    BY WindowHasLimit, LimitAssumption DEF LimitInv
  <2>2. InWindow(m) \in Nat
    <3>1. admitted \in Seq(Nat) /\ Len(admitted) \in Nat
      BY LimitNumbers DEF LimitInv
    <3>2. IsFiniteSet(1 .. Len(admitted))
      BY <3>1, FS_Interval
    <3>3. {i \in DOMAIN admitted : m <= admitted[i] /\ admitted[i] <= m + Window} \subseteq 1 .. Len(admitted)
      BY <3>1
    <3> QED
      BY <3>2, <3>3, FS_Subset, FS_CardinalityType DEF InWindow
  <2> QED
    BY <2>1, <2>2
<1> QED
  BY <1>1, LimitInitInv, LimitStep, PTL DEF LimitSpec

(* check_limit keeps its types, also while threads meet in it.             *)
THEOREM LimitTypeCorrect == LimitSpec => []LimitTypeOK
<1>1. LimitInv => LimitTypeOK
  BY DEF LimitInv
<1> QED
  BY <1>1, LimitInitInv, LimitStep, PTL DEF LimitSpec
-----------------------------------------------------------------------------
(* The configuration sync: what redact and _scan do to every value, and    *)
(* what an export, an edit and a deploy do with it.                        *)

\* Values by how deep they are nested.
OneDeep == Leaves \cup Dicts(Leaves)

\* A value that holds another one.
Nested(v) == v.kind \in {"dict", "json"}

\* A leaf holds nothing; what a deeper value holds is less deep.
LEMMA HeldIsLessDeep ==
  /\ \A v \in Leaves : ~Nested(v)
  /\ \A v \in OneDeep : Nested(v) => v.item \in Leaves
  /\ \A v \in Items : Nested(v) => v.item \in OneDeep
  /\ \A v \in Values : Nested(v) => v.item \in Items
  /\ Leaves \subseteq OneDeep /\ OneDeep \subseteq Items /\ Items \subseteq Values
<1>1. \A v \in Leaves : ~Nested(v)
  BY DEF Nested, Leaves, Text, Placeholder, Quote
<1>2. \A S : \A v \in Dicts(S) : v.item \in S
  BY DEF Dicts, Dict
<1>3. \A v \in JsonTexts : v.item \in Dicts(Leaves)
  BY DEF JsonTexts, Json
<1>4. \A v \in Bodies : v.item \in Items
  BY DEF Bodies, Dict
<1>5. /\ OneDeep = Leaves \cup Dicts(Leaves) /\ Items = OneDeep \cup JsonTexts
      /\ Values = Items \cup Bodies
  BY DEF OneDeep, Items, Values
<1> QED
  BY <1>1, <1>2, <1>3, <1>4, <1>5

\* The kinds of value that redact and _scan tell apart.
LEMMA ValuesAreOfThreeKinds ==
  \A v \in Values :
    /\ (v \in Leaves /\ v.kind = "text") \/ v.kind \in {"dict", "json"}
    /\ v.kind = "dict" => v = Dict(v.key, v.item) /\ v.key \in {"plain", "secret"}
    /\ v.kind = "json" => v = Json(v.item, v.tidy)
<1>1. \A S : \A v \in Dicts(S) : v.kind = "dict" /\ v = Dict(v.key, v.item) /\ v.key \in {"plain", "secret"}
  BY DEF Dicts, Dict
<1>2. \A v \in JsonTexts : v.kind = "json" /\ v = Json(v.item, v.tidy)
  BY DEF JsonTexts, Json
<1>3. \A v \in Leaves : v.kind = "text"
  BY DEF Leaves, Text, Placeholder, Quote
<1>4. \A v \in Bodies : v.kind = "dict" /\ v = Dict(v.key, v.item) /\ v.key \in {"plain", "secret"}
  BY DEF Bodies, Dict
<1>5. ASSUME NEW v \in Values
      PROVE  v \in Leaves \/ v \in Dicts(Leaves) \/ v \in JsonTexts \/ v \in Bodies
  BY DEF Values, Items
<1> QED
  BY <1>1, <1>2, <1>3, <1>4, <1>5

\* What holds of a value when it holds of the one inside holds of all: induction over
\* how deep values are nested.
LEMMA ValueInduction ==
  ASSUME NEW P, \A v \in Values : (Nested(v) => v.item \in P) => v \in P
  PROVE  Values \subseteq P
<1>1. Leaves \subseteq P
  BY HeldIsLessDeep
<1>2. OneDeep \subseteq P
  BY <1>1, HeldIsLessDeep
<1>3. Items \subseteq P
  BY <1>2, HeldIsLessDeep
<1> QED
  BY <1>3, HeldIsLessDeep

\* redact returns: every call it makes is for a value less deep.  Five rounds, each of which
\* makes its calls to the one before it, end in two that agree on all values.
LEMMA RedactIsDefined == \A v \in Values : Redact[v] = RedactOnce(Redact, v)
<1> DEFINE Once(f) == [v \in Values |-> RedactOnce(f, v)]
<1>1. ASSUME NEW f, NEW g, NEW v \in Values, Nested(v) => f[v.item] = g[v.item]
      PROVE  Once(f)[v] = Once(g)[v]
  BY <1>1, ValuesAreOfThreeKinds DEF RedactOnce, Nested, Leaves, Text
<1> DEFINE f1 == Once(<<>>)
           f2 == Once(f1)
           f3 == Once(f2)
           f4 == Once(f3)
           f5 == Once(f4)
<1>f. f2 = Once(f1) /\ f3 = Once(f2) /\ f4 = Once(f3) /\ f5 = Once(f4) /\ f1 = Once(<<>>)
  OBVIOUS
<1> HIDE DEF Once, f1, f2, f3, f4, f5
<1>2. \A v \in Values : Nested(v) \/ f1[v] = f2[v]
  BY <1>1, <1>f, Zenon
<1>3. \A v \in Values : (Nested(v) => f1[v.item] = f2[v.item]) => f2[v] = f3[v]
  BY <1>1, <1>f, Zenon
<1>4. \A v \in Values : (Nested(v) => f2[v.item] = f3[v.item]) => f3[v] = f4[v]
  BY <1>1, <1>f, Zenon
<1>5. \A v \in Values : (Nested(v) => f3[v.item] = f4[v.item]) => f4[v] = f5[v]
  BY <1>1, <1>f, Zenon
<1>6. \A v \in OneDeep : f2[v] = f3[v]
  BY <1>2, <1>3, HeldIsLessDeep
<1>7. \A v \in Items : f3[v] = f4[v]
  BY <1>4, <1>6, HeldIsLessDeep
<1>8. \A v \in Values : f4[v] = f5[v]
  BY <1>5, <1>7, HeldIsLessDeep
<1>9. f4 = Once(f4)
  BY <1>8, <1>f DEF Once
<1>10. \E f : f = [v \in Values |-> RedactOnce(f, v)]
  BY <1>9, Zenon DEF Once
<1>11. Redact = [v \in Values |-> RedactOnce(Redact, v)]
  BY <1>10, Zenon DEF Redact
<1> QED
  BY <1>11, Zenon

\* The body of Parts.
PartsOnce(inner, v) == {v} \cup IF v.kind \in {"dict", "json"} THEN inner[v.item] ELSE {}

\* Parts is defined for the same reason.
LEMMA PartsAreDefined == \A v \in Values : Parts[v] = PartsOnce(Parts, v)
<1> DEFINE Once(f) == [v \in Values |-> PartsOnce(f, v)]
<1>1. ASSUME NEW f, NEW g, NEW v \in Values, Nested(v) => f[v.item] = g[v.item]
      PROVE  Once(f)[v] = Once(g)[v]
  BY <1>1 DEF PartsOnce, Nested
<1> DEFINE f1 == Once(<<>>)
           f2 == Once(f1)
           f3 == Once(f2)
           f4 == Once(f3)
           f5 == Once(f4)
<1>f. f2 = Once(f1) /\ f3 = Once(f2) /\ f4 = Once(f3) /\ f5 = Once(f4) /\ f1 = Once(<<>>)
  OBVIOUS
<1> HIDE DEF Once, f1, f2, f3, f4, f5
<1>2. \A v \in Values : Nested(v) \/ f1[v] = f2[v]
  BY <1>1, <1>f, Zenon
<1>3. \A v \in Values : (Nested(v) => f1[v.item] = f2[v.item]) => f2[v] = f3[v]
  BY <1>1, <1>f, Zenon
<1>4. \A v \in Values : (Nested(v) => f2[v.item] = f3[v.item]) => f3[v] = f4[v]
  BY <1>1, <1>f, Zenon
<1>5. \A v \in Values : (Nested(v) => f3[v.item] = f4[v.item]) => f4[v] = f5[v]
  BY <1>1, <1>f, Zenon
<1>6. \A v \in OneDeep : f2[v] = f3[v]
  BY <1>2, <1>3, HeldIsLessDeep
<1>7. \A v \in Items : f3[v] = f4[v]
  BY <1>4, <1>6, HeldIsLessDeep
<1>8. \A v \in Values : f4[v] = f5[v]
  BY <1>5, <1>7, HeldIsLessDeep
<1>9. f4 = Once(f4)
  BY <1>8, <1>f DEF Once
<1>10. \E f : f = [v \in Values |-> PartsOnce(f, v)]
  BY <1>9, Zenon DEF Once
<1>11. Parts = [v \in Values |-> PartsOnce(Parts, v)]
  BY <1>10, Zenon DEF Parts, PartsOnce
<1> QED
  BY <1>11, Zenon

\* _scan returns for the same reason.
LEMMA FindingsAreDefined == \A v \in Values : Findings[v] = ScanOnce(Findings, v)
<1> DEFINE Once(f) == [v \in Values |-> ScanOnce(f, v)]
<1>1. ASSUME NEW f, NEW g, NEW v \in Values, Nested(v) => f[v.item] = g[v.item]
      PROVE  Once(f)[v] = Once(g)[v]
  BY <1>1 DEF ScanOnce, Nested
<1> DEFINE f1 == Once(<<>>)
           f2 == Once(f1)
           f3 == Once(f2)
           f4 == Once(f3)
           f5 == Once(f4)
<1>f. f2 = Once(f1) /\ f3 = Once(f2) /\ f4 = Once(f3) /\ f5 = Once(f4) /\ f1 = Once(<<>>)
  OBVIOUS
<1> HIDE DEF Once, f1, f2, f3, f4, f5
<1>2. \A v \in Values : Nested(v) \/ f1[v] = f2[v]
  BY <1>1, <1>f, Zenon
<1>3. \A v \in Values : (Nested(v) => f1[v.item] = f2[v.item]) => f2[v] = f3[v]
  BY <1>1, <1>f, Zenon
<1>4. \A v \in Values : (Nested(v) => f2[v.item] = f3[v.item]) => f3[v] = f4[v]
  BY <1>1, <1>f, Zenon
<1>5. \A v \in Values : (Nested(v) => f3[v.item] = f4[v.item]) => f4[v] = f5[v]
  BY <1>1, <1>f, Zenon
<1>6. \A v \in OneDeep : f2[v] = f3[v]
  BY <1>2, <1>3, HeldIsLessDeep
<1>7. \A v \in Items : f3[v] = f4[v]
  BY <1>4, <1>6, HeldIsLessDeep
<1>8. \A v \in Values : f4[v] = f5[v]
  BY <1>5, <1>7, HeldIsLessDeep
<1>9. f4 = Once(f4)
  BY <1>8, <1>f DEF Once
<1>10. \E f : f = [v \in Values |-> ScanOnce(f, v)]
  BY <1>9, Zenon DEF Once
<1>11. Findings = [v \in Values |-> ScanOnce(Findings, v)]
  BY <1>10, Zenon DEF Findings
<1> QED
  BY <1>11, Zenon

\* The body of Tidy.
TidyOnce(inner, v) ==
  CASE v.kind = "dict" -> Dict(v.key, inner[v.item])
    [] v.kind = "json" -> Json(inner[v.item], TRUE)
    [] OTHER -> v

\* Tidy is defined for the same reason.
LEMMA TidyIsDefined == \A v \in Values : Tidy[v] = TidyOnce(Tidy, v)
<1> DEFINE Once(f) == [v \in Values |-> TidyOnce(f, v)]
<1>1. ASSUME NEW f, NEW g, NEW v \in Values, Nested(v) => f[v.item] = g[v.item]
      PROVE  Once(f)[v] = Once(g)[v]
  BY <1>1 DEF TidyOnce, Nested
<1> DEFINE f1 == Once(<<>>)
           f2 == Once(f1)
           f3 == Once(f2)
           f4 == Once(f3)
           f5 == Once(f4)
<1>f. f2 = Once(f1) /\ f3 = Once(f2) /\ f4 = Once(f3) /\ f5 = Once(f4) /\ f1 = Once(<<>>)
  OBVIOUS
<1> HIDE DEF Once, f1, f2, f3, f4, f5
<1>2. \A v \in Values : Nested(v) \/ f1[v] = f2[v]
  BY <1>1, <1>f, Zenon
<1>3. \A v \in Values : (Nested(v) => f1[v.item] = f2[v.item]) => f2[v] = f3[v]
  BY <1>1, <1>f, Zenon
<1>4. \A v \in Values : (Nested(v) => f2[v.item] = f3[v.item]) => f3[v] = f4[v]
  BY <1>1, <1>f, Zenon
<1>5. \A v \in Values : (Nested(v) => f3[v.item] = f4[v.item]) => f4[v] = f5[v]
  BY <1>1, <1>f, Zenon
<1>6. \A v \in OneDeep : f2[v] = f3[v]
  BY <1>2, <1>3, HeldIsLessDeep
<1>7. \A v \in Items : f3[v] = f4[v]
  BY <1>4, <1>6, HeldIsLessDeep
<1>8. \A v \in Values : f4[v] = f5[v]
  BY <1>5, <1>7, HeldIsLessDeep
<1>9. f4 = Once(f4)
  BY <1>8, <1>f DEF Once
<1>10. \E f : f = [v \in Values |-> TidyOnce(f, v)]
  BY <1>9, Zenon DEF Once
<1>11. Tidy = [v \in Values |-> TidyOnce(Tidy, v)]
  BY <1>10, Zenon DEF Tidy, TidyOnce
<1> QED
  BY <1>11, Zenon

\* What redact returns is a value again, as deep as before.
LEMMA RedactedIsValue == \A v \in Values : Redact[v] \in Values
<1>1. \A v \in Leaves : v \in Values /\ Redact[v] \in Leaves
  BY HeldIsLessDeep, RedactIsDefined, ValuesAreOfThreeKinds DEF RedactOnce, Leaves, Nested
<1>2. Placeholder \in Leaves /\ Placeholder \in Items
  BY HeldIsLessDeep DEF Leaves
<1>3. ASSUME NEW key \in {"plain", "secret"}, NEW w, Dict(key, w) \in Values
      PROVE  Redact[Dict(key, w)] = Dict(key, IF key = "secret" THEN Placeholder ELSE Redact[w])
  BY <1>3, RedactIsDefined DEF RedactOnce, Dict
<1>4. \A v \in Dicts(Leaves) : v \in Values /\ Redact[v] \in Dicts(Leaves)
  <2> SUFFICES ASSUME NEW v \in Dicts(Leaves) PROVE v \in Values /\ Redact[v] \in Dicts(Leaves)
    OBVIOUS
  <2>1. PICK key \in {"plain", "secret"}, w \in Leaves : v = Dict(key, w)
    BY DEF Dicts
  <2>2. v \in Values
    BY HeldIsLessDeep DEF OneDeep
  <2> QED
    BY <1>1, <1>2, <1>3, <2>1, <2>2 DEF Dicts
<1>j. \A d \in Dicts(Leaves), tidy \in BOOLEAN : Json(d, tidy) \in JsonTexts
  BY DEF JsonTexts
<1>5. \A v \in JsonTexts : Redact[v] \in JsonTexts
  <2> SUFFICES ASSUME NEW d \in Dicts(Leaves), NEW tidy \in BOOLEAN
               PROVE  Redact[Json(d, tidy)] \in JsonTexts
    BY DEF JsonTexts
  <2>1. Json(d, tidy) \in Values
    BY DEF Values, Items, JsonTexts
  <2>2. Redact[Json(d, tidy)] = Json(Redact[d], TRUE)
    BY <2>1, RedactIsDefined DEF RedactOnce, Json
  <2>3. Redact[d] \in Dicts(Leaves) /\ TRUE \in BOOLEAN
    BY <1>4
  <2> QED
    BY <1>j, <2>2, <2>3
<1>6. \A v \in Items : Redact[v] \in Items
  BY <1>1, <1>4, <1>5 DEF Items
<1>7. \A v \in Bodies : Redact[v] \in Bodies
  <2> SUFFICES ASSUME NEW w \in Items PROVE Redact[Dict("plain", w)] \in Bodies
    BY DEF Bodies
  <2>1. Dict("plain", w) \in Values
    BY DEF Values, Bodies
  <2>2. Redact[Dict("plain", w)] = Dict("plain", Redact[w])
    BY <1>3, <2>1
  <2> QED
    BY <1>6, <2>2 DEF Bodies
<1> QED
  BY <1>6, <1>7 DEF Values

\* The parts of a value are its own or those of what it holds.
LEMMA PartsOfHeld ==
  \A v \in Values : Parts[v] = {v} \cup IF Nested(v) THEN Parts[v.item] ELSE {}
BY PartsAreDefined DEF PartsOnce, Nested

\* redact leaves no text that begins with a URL, and under a secret-like key only the placeholder.
IsClean(v) ==
  \A w \in Parts[v] :
    /\ w.kind = "text" /\ w.holds = "url" => ~w.bare
    /\ w.kind = "dict" /\ w.key = "secret" => w.item = Placeholder
LEMMA RedactedIsClean == \A v \in Values : IsClean(Redact[v])
<1> DEFINE P == {v \in Values : IsClean(Redact[v])}
<1> SUFFICES ASSUME NEW v \in Values, Nested(v) => v.item \in P PROVE v \in P
  BY ValueInduction
<1>1. Redact[v] = RedactOnce(Redact, v) /\ Redact[v] \in Values
  BY RedactIsDefined, RedactedIsValue
<1>2. Parts[Redact[v]] = {Redact[v]} \cup IF Nested(Redact[v]) THEN Parts[Redact[v].item] ELSE {}
  BY <1>1, PartsOfHeld
<1>3. CASE v.kind = "dict" /\ v.key = "secret"
  <2>1. Redact[v] = Dict("secret", Placeholder)
    BY <1>1, <1>3 DEF RedactOnce
  <2>2. Placeholder \in Leaves /\ Placeholder \in Values
    BY HeldIsLessDeep DEF Leaves
  <2>3. Parts[Placeholder] = {Placeholder}
    BY <2>2, PartsOfHeld, HeldIsLessDeep
  <2>4. Parts[Redact[v]] = {Dict("secret", Placeholder), Placeholder}
    BY <1>2, <2>1, <2>3 DEF Nested, Dict
  <2>5. \A w \in Parts[Redact[v]] :
          \/ w.kind = "dict" /\ w.item = Placeholder
          \/ w.kind = "text" /\ w.holds = "mark"
    <3>1. Dict("secret", Placeholder).kind = "dict" /\ Dict("secret", Placeholder).item = Placeholder
      BY DEF Dict
    <3>2. Placeholder.kind = "text" /\ Placeholder.holds = "mark"
      BY DEF Placeholder, Text
    <3> QED
      BY <2>4, <3>1, <3>2
  <2> QED
    BY <2>5 DEF IsClean
<1>4. CASE v.kind = "dict" /\ v.key = "plain"
  <2>1. Redact[v] = Dict("plain", Redact[v.item])
    BY <1>1, <1>4 DEF RedactOnce
  <2>2. Parts[Redact[v]] = {Redact[v]} \cup Parts[Redact[v.item]]
    BY <1>2, <2>1 DEF Nested, Dict
  <2>3. Redact[v].kind = "dict" /\ Redact[v].key = "plain"
    BY <2>1 DEF Dict
  <2> QED
    BY <1>4, <2>2, <2>3 DEF IsClean, Nested
<1>5. CASE v.kind = "json"
  <2>1. Redact[v] = Json(Redact[v.item], TRUE)
    BY <1>1, <1>5 DEF RedactOnce
  <2>2. Parts[Redact[v]] = {Redact[v]} \cup Parts[Redact[v.item]]
    BY <1>2, <2>1 DEF Nested, Json
  <2>3. Redact[v].kind = "json"
    BY <2>1 DEF Json
  <2> QED
    BY <1>5, <2>2, <2>3 DEF IsClean, Nested
<1>6. CASE v \in Leaves /\ v.kind = "text"
  <2>1. Redact[v] \in Leaves /\ (Redact[v].holds = "url" => ~Redact[v].bare) /\ Redact[v].kind = "text"
    BY <1>1, <1>6 DEF RedactOnce, Leaves, Text, Placeholder, Quote
  <2>2. Parts[Redact[v]] = {Redact[v]}
    BY <1>2, <2>1, HeldIsLessDeep
  <2> QED
    BY <2>1, <2>2 DEF IsClean
<1> QED
  BY <1>3, <1>4, <1>5, <1>6, ValuesAreOfThreeKinds

\* redact writes the placeholder alone, never inside a longer text.
LEMMA RedactAddsNoQuote == \A v \in Values : Quote \in Parts[Redact[v]] => Quote \in Parts[v]
<1> DEFINE P == {v \in Values : Quote \in Parts[Redact[v]] => Quote \in Parts[v]}
<1> SUFFICES ASSUME NEW v \in Values, Nested(v) => v.item \in P PROVE v \in P
  BY ValueInduction
<1> SUFFICES ASSUME Quote \in Parts[Redact[v]] PROVE Quote \in Parts[v]
  OBVIOUS
<1>1. Redact[v] = RedactOnce(Redact, v) /\ Redact[v] \in Values
  BY RedactIsDefined, RedactedIsValue
<1>2. /\ Parts[Redact[v]] = {Redact[v]} \cup IF Nested(Redact[v]) THEN Parts[Redact[v].item] ELSE {}
      /\ Parts[v] = {v} \cup IF Nested(v) THEN Parts[v.item] ELSE {}
  BY <1>1, PartsOfHeld
<1>q. Quote.kind = "text" /\ Quote # Placeholder
  BY DEF Quote, Placeholder, Text
<1>3. CASE v.kind = "dict" /\ v.key = "secret"
  <2>1. Redact[v] = Dict("secret", Placeholder)
    BY <1>1, <1>3 DEF RedactOnce
  <2>2. Placeholder \in Leaves /\ Placeholder \in Values
    BY HeldIsLessDeep DEF Leaves
  <2>3. Parts[Placeholder] = {Placeholder}
    BY <2>2, PartsOfHeld, HeldIsLessDeep
  <2>4. Parts[Redact[v]] = {Dict("secret", Placeholder), Placeholder}
    BY <1>2, <2>1, <2>3 DEF Nested, Dict
  <2> QED
    BY <1>q, <2>4 DEF Dict
<1>4. CASE v.kind = "dict" /\ v.key = "plain"
  <2>1. Redact[v] = Dict("plain", Redact[v.item])
    BY <1>1, <1>4 DEF RedactOnce
  <2>2. Redact[v].kind = "dict" /\ Redact[v].item = Redact[v.item]
    BY <2>1 DEF Dict
  <2> QED
    BY <1>2, <1>4, <1>q, <2>2 DEF Nested
<1>5. CASE v.kind = "json"
  <2>1. Redact[v] = Json(Redact[v.item], TRUE)
    BY <1>1, <1>5 DEF RedactOnce
  <2>2. Redact[v].kind = "json" /\ Redact[v].item = Redact[v.item]
    BY <2>1 DEF Json
  <2> QED
    BY <1>2, <1>5, <1>q, <2>2 DEF Nested
<1>6. CASE v \in Leaves /\ v.kind = "text"
  <2>1. Redact[v] \in {v, Placeholder} /\ Redact[v].kind = "text"
    BY <1>1, <1>6 DEF RedactOnce, Placeholder, Text
  <2>2. Parts[Redact[v]] = {Redact[v]}
    BY <1>2, <2>1 DEF Nested
  <2> QED
    BY <1>2, <1>q, <2>1, <2>2
<1> QED
  BY <1>3, <1>4, <1>5, <1>6, ValuesAreOfThreeKinds

\* What _scan passes holds no placeholder.
LEMMA ScannedIsFilled == \A v \in Values : Placeholder \in Parts[v] => Findings[v]
<1> DEFINE P == {v \in Values : Placeholder \in Parts[v] => Findings[v]}
<1> SUFFICES ASSUME NEW v \in Values, Nested(v) => v.item \in P PROVE v \in P
  BY ValueInduction
<1> SUFFICES ASSUME Placeholder \in Parts[v] PROVE Findings[v]
  OBVIOUS
<1>1. Findings[v] = ScanOnce(Findings, v) /\ Parts[v] = {v} \cup IF Nested(v) THEN Parts[v.item] ELSE {}
  BY FindingsAreDefined, PartsOfHeld
<1>2. CASE v = Placeholder
  BY <1>1, <1>2 DEF ScanOnce, Placeholder, Text
<1>3. CASE v # Placeholder
  <2>1. Nested(v) /\ Placeholder \in Parts[v.item]
    BY <1>1, <1>3
  <2>2. Findings[v.item]
    BY <2>1
  <2> QED
    BY <1>1, <2>1, <2>2 DEF ScanOnce, Nested
<1> QED
  BY <1>2, <1>3

\* Where redact changed more than the layout of JSON texts, _scan finds it.
LEMMA ScannedIsUnchanged == \A v \in Values : Findings[Redact[v]] \/ Redact[v] = Tidy[v]
<1> DEFINE P == {v \in Values : Findings[Redact[v]] \/ Redact[v] = Tidy[v]}
<1> SUFFICES ASSUME NEW v \in Values, Nested(v) => v.item \in P PROVE v \in P
  BY ValueInduction
<1> SUFFICES ASSUME ~Findings[Redact[v]] PROVE Redact[v] = Tidy[v]
  OBVIOUS
<1>1. Redact[v] = RedactOnce(Redact, v) /\ Tidy[v] = TidyOnce(Tidy, v)
  BY RedactIsDefined, TidyIsDefined
<1>2. ~ScanOnce(Findings, Redact[v])
  BY RedactedIsValue, FindingsAreDefined
<1>3. ASSUME Nested(v), ~Findings[Redact[v.item]] PROVE Redact[v.item] = Tidy[v.item]
  BY <1>3
<1>4. CASE v.kind = "dict" /\ v.key = "secret"
  BY <1>1, <1>2, <1>4 DEF RedactOnce, ScanOnce, Dict
<1>5. CASE v.kind = "dict" /\ v.key = "plain"
  <2>1. Redact[v] = Dict("plain", Redact[v.item])
    BY <1>1, <1>5 DEF RedactOnce
  <2>2. ~Findings[Redact[v.item]]
    BY <1>2, <2>1 DEF ScanOnce, Dict
  <2>3. Tidy[v] = Dict("plain", Tidy[v.item])
    BY <1>1, <1>5 DEF TidyOnce
  <2> QED
    BY <1>3, <1>5, <2>1, <2>2, <2>3 DEF Nested
<1>6. CASE v.kind = "json"
  <2>1. Redact[v] = Json(Redact[v.item], TRUE)
    BY <1>1, <1>6 DEF RedactOnce
  <2>2. ~Findings[Redact[v.item]]
    BY <1>2, <2>1 DEF ScanOnce, Json
  <2>3. Tidy[v] = Json(Tidy[v.item], TRUE)
    BY <1>1, <1>6 DEF TidyOnce
  <2> QED
    BY <1>3, <1>6, <2>1, <2>2, <2>3 DEF Nested
<1>7. CASE v \in Leaves /\ v.kind = "text"
  <2>1. Tidy[v] = v
    BY <1>1, <1>7 DEF TidyOnce
  <2>2. Redact[v] = v \/ Redact[v] = Placeholder
    BY <1>1, <1>7 DEF RedactOnce
  <2>3. ScanOnce(Findings, Placeholder)
    BY DEF ScanOnce, Placeholder, Text
  <2> QED
    BY <1>2, <2>1, <2>2, <2>3
<1> QED
  BY <1>4, <1>5, <1>6, <1>7, ValuesAreOfThreeKinds
-----------------------------------------------------------------------------
\* A command at work and a file, with what they hold.
Named == [at : {"details"}, name : RemoteNames]
Holding(places) == [at : places, name : RemoteNames, body : Values, raw : Values]

\* The types of ConfigTypeOK, with the shape of a command and of a file.
ConfigShape ==
  /\ remote \in [name : RemoteNames, live : Values, draft : Values]
  /\ sync \in {NoSync} \cup Named \cup Holding({"read", "open", "send"})
  /\ manifest \in {NoFile, [at |-> "torn"]} \cup Holding({"whole"})
  /\ edited \in BOOLEAN

\* What an export carries, and a file that was not edited, is what was read, redacted; what a
\* deploy carries is the file, which passed the scan.
CarriedIsChecked ==
  /\ sync.at \in {"read", "open"} => sync.body = Redact[sync.raw]
  /\ manifest.at = "whole" /\ ~edited => manifest.body = Redact[manifest.raw]
  /\ sync.at = "open" => ~edited
  /\ sync.at = "send" => /\ manifest.at = "whole" /\ ~Findings[sync.body]
                         /\ manifest.body = sync.body /\ manifest.raw = sync.raw

\* A text with a placeholder in it was written by an operator, wherever it is.
QuotesAreWritten ==
  /\ Quote \in Parts[remote.live] \cup Parts[remote.draft] => quoted
  /\ sync.at \in {"read", "open", "send"} => (Quote \in Parts[sync.body] => quoted)
  /\ manifest.at = "whole" => (Quote \in Parts[manifest.body] => quoted)

\* The provider holds no placeholder as a value.
NoneStays == Placeholder \notin Parts[remote.live] \cup Parts[remote.draft]

ConfigInv == ConfigShape /\ CarriedIsChecked /\ QuotesAreWritten /\ NoneStays

\* What a command or a file holds, by what it is at.
LEMMA ShapeByPlace ==
  ASSUME ConfigShape
  PROVE  /\ remote.name \in RemoteNames /\ remote.live \in Values /\ remote.draft \in Values
         /\ remote = [name |-> remote.name, live |-> remote.live, draft |-> remote.draft]
         /\ sync.at = "details" => sync.name \in RemoteNames
         /\ sync.at \in {"read", "open", "send"} =>
              /\ sync.name \in RemoteNames /\ sync.body \in Values /\ sync.raw \in Values
              /\ sync = [at |-> sync.at, name |-> sync.name, body |-> sync.body, raw |-> sync.raw]
         /\ sync.at \in {"none", "details", "read", "open", "send"}
         /\ sync.at = "none" <=> sync = NoSync
         /\ manifest.at = "whole" =>
              /\ manifest.name \in RemoteNames /\ manifest.body \in Values /\ manifest.raw \in Values
              /\ manifest = [at |-> "whole", name |-> manifest.name, body |-> manifest.body,
                             raw |-> manifest.raw]
         /\ manifest.at \in {"absent", "torn", "whole"}
<1>1. \A places : \A h \in Holding(places) :
        /\ h.name \in RemoteNames /\ h.body \in Values /\ h.raw \in Values /\ h.at \in places
        /\ h = [at |-> h.at, name |-> h.name, body |-> h.body, raw |-> h.raw]
  BY DEF Holding
<1>2. \A h \in Named : h.at = "details" /\ h.name \in RemoteNames
  BY DEF Named
<1>3. /\ remote.name \in RemoteNames /\ remote.live \in Values /\ remote.draft \in Values
      /\ remote = [name |-> remote.name, live |-> remote.live, draft |-> remote.draft]
  BY DEF ConfigShape
<1>4. NoSync.at = "none" /\ NoFile.at = "absent" /\ [at |-> "torn"].at = "torn"
  BY DEF NoSync, NoFile
<1> QED
  BY <1>1, <1>2, <1>3, <1>4 DEF ConfigShape

\* What the provider's users make is a value without a placeholder in it.
LEMMA RemotesAreFilled ==
  \A v \in Remotes : v \in Values /\ Placeholder \notin Parts[v] /\ Quote \notin Parts[v]
BY DEF Remotes, Values

\* At first no file was written and the remote holds no placeholder.
LEMMA ConfigInitInv == ConfigInit => ConfigInv
<1> SUFFICES ASSUME ConfigInit PROVE ConfigInv
  OBVIOUS
<1>1. PICK n \in RemoteNames, v \in Remotes : remote = [name |-> n, live |-> v, draft |-> v]
  BY DEF ConfigInit
<1>2. ConfigShape
  BY <1>1, RemotesAreFilled DEF ConfigInit, ConfigShape
<1>3. sync.at = "none" /\ manifest.at = "absent"
  BY DEF ConfigInit, NoSync, NoFile
<1>4. NoneStays /\ QuotesAreWritten
  BY <1>1, <1>3, RemotesAreFilled DEF NoneStays, QuotesAreWritten
<1> QED
  BY <1>2, <1>3, <1>4 DEF ConfigInv, CarriedIsChecked

\* A first request of an export reads the name as it is.
LEMMA DetailsKeep == ASSUME ConfigInv, ExportDetails PROVE ConfigInv'
<1> USE DEF ConfigInv, ExportDetails
<1>1. sync' \in Named /\ sync'.at = "details"
  BY ShapeByPlace DEF Named
<1>2. ConfigShape'
  BY <1>1 DEF ConfigShape
<1>3. CarriedIsChecked'
  BY <1>1 DEF CarriedIsChecked
<1>4. QuotesAreWritten' /\ NoneStays'
  BY <1>1 DEF QuotesAreWritten, NoneStays
<1> QED
  BY <1>2, <1>3, <1>4

\* An export that has read the body holds it redacted.
LEMMA ReadBodyKeeps == ASSUME ConfigInv, ExportBody \/ ExportAgent PROVE ConfigInv'
<1> USE DEF ConfigInv
<1>1. PICK raw \in {remote.live, remote.draft} :
        sync' = [at |-> "read", name |-> sync'.name, body |-> Redact[raw], raw |-> raw]
  BY DEF ExportBody, ExportAgent
<1>2. sync'.name \in RemoteNames /\ UNCHANGED <<remote, manifest, edited, quoted>>
  BY ShapeByPlace DEF ExportBody, ExportAgent
<1>3. sync'.at = "read" /\ sync'.body = Redact[raw] /\ sync'.raw = raw
  BY <1>1
<1>4. raw \in Values /\ Redact[raw] \in Values /\ (Quote \in Parts[Redact[raw]] => Quote \in Parts[raw])
  BY ShapeByPlace, RedactedIsValue, RedactAddsNoQuote
<1>5. sync' \in Holding({"read", "open", "send"})
  BY <1>1, <1>2, <1>4 DEF Holding
<1>6. ConfigShape'
  BY <1>2, <1>5 DEF ConfigShape
<1>7. CarriedIsChecked'
  BY <1>2, <1>3 DEF CarriedIsChecked
<1>8. QuotesAreWritten' /\ NoneStays'
  BY <1>2, <1>3, <1>4 DEF QuotesAreWritten, NoneStays
<1> QED
  BY <1>6, <1>7, <1>8

\* An opened file is torn, and what is about to be written is what was read.
LEMMA OpenKeeps == ASSUME ConfigInv, OpenManifest PROVE ConfigInv'
<1> USE DEF ConfigInv, OpenManifest
<1>1. sync' = [at |-> "open", name |-> sync.name, body |-> sync.body, raw |-> sync.raw]
      /\ sync.name \in RemoteNames /\ sync.body \in Values /\ sync.raw \in Values
  BY ShapeByPlace
<1>2. sync'.at = "open" /\ sync'.body = sync.body /\ sync'.raw = sync.raw /\ manifest'.at = "torn"
  BY <1>1
<1>3. sync' \in Holding({"read", "open", "send"})
  BY <1>1 DEF Holding
<1>4. ConfigShape'
  BY <1>3 DEF ConfigShape
<1>5. CarriedIsChecked'
  BY <1>2 DEF CarriedIsChecked
<1>6. QuotesAreWritten' /\ NoneStays'
  BY <1>2 DEF QuotesAreWritten, NoneStays
<1> QED
  BY <1>4, <1>5, <1>6

\* The file gets what the export carries.
LEMMA WriteKeeps == ASSUME ConfigInv, WriteManifest PROVE ConfigInv'
<1> USE DEF ConfigInv, WriteManifest
<1>1. /\ manifest' = [at |-> "whole", name |-> sync.name, body |-> sync.body, raw |-> sync.raw]
      /\ sync.name \in RemoteNames /\ sync.body \in Values /\ sync.raw \in Values
  BY ShapeByPlace
<1>2. /\ sync'.at = "none" /\ manifest'.at = "whole"
      /\ manifest'.body = sync.body /\ manifest'.raw = sync.raw
  BY <1>1 DEF NoSync
<1>3. manifest' \in Holding({"whole"})
  BY <1>1 DEF Holding
<1>4. ConfigShape'
  BY <1>3 DEF ConfigShape
<1>5. CarriedIsChecked'
  BY <1>2 DEF CarriedIsChecked
<1>6. QuotesAreWritten' /\ NoneStays'
  BY <1>2 DEF QuotesAreWritten, NoneStays
<1> QED
  BY <1>4, <1>5, <1>6

\* What an operator edits is excused, and what is quoted is noted.
LEMMA EditManifestKeeps == ASSUME ConfigInv, NEW v \in Bodies, EditManifest(v) PROVE ConfigInv'
<1> USE DEF ConfigInv, EditManifest
<1>1. /\ sync.at = "none" /\ manifest.name \in RemoteNames /\ manifest.raw \in Values /\ v \in Values
      /\ manifest' = [at |-> "whole", name |-> manifest.name, body |-> v, raw |-> manifest.raw]
  BY ShapeByPlace DEF NoSync, Values
<1>2. manifest' \in Holding({"whole"})
  BY <1>1 DEF Holding
<1>3. ConfigShape'
  BY <1>2 DEF ConfigShape
<1>4. CarriedIsChecked'
  BY <1>1 DEF CarriedIsChecked
<1>5. manifest'.body = v
  BY <1>1
<1>6. QuotesAreWritten' /\ NoneStays'
  BY <1>1, <1>5 DEF QuotesAreWritten, NoneStays
<1> QED
  BY <1>3, <1>4, <1>6

\* An edit of the remote brings no placeholder.
LEMMA EditRemoteKeeps ==
  ASSUME ConfigInv, NEW v \in Remotes, NEW n \in RemoteNames, EditRemote(n, v)
  PROVE  ConfigInv'
<1> USE DEF ConfigInv, EditRemote
<1>1. v \in Values /\ Placeholder \notin Parts[v] /\ Quote \notin Parts[v]
  BY RemotesAreFilled
<1>2. PICK live \in {v, remote.live}, m \in RemoteNames : remote' = [name |-> m, live |-> live, draft |-> v]
  BY ShapeByPlace
<1>3. remote'.live = live /\ remote'.draft = v /\ live \in Values
  BY <1>1, <1>2, ShapeByPlace
<1>4. ConfigShape'
  BY <1>1, <1>2, <1>3 DEF ConfigShape
<1>5. CarriedIsChecked'
  BY DEF CarriedIsChecked
<1>6. QuotesAreWritten' /\ NoneStays'
  BY <1>1, <1>3 DEF QuotesAreWritten, NoneStays
<1> QED
  BY <1>4, <1>5, <1>6

\* What a deploy carries is the file it read and that passed.
LEMMA StartDeployKeeps == ASSUME ConfigInv, StartDeploy PROVE ConfigInv'
<1> USE DEF ConfigInv, StartDeploy
<1>1. /\ sync' = [at |-> "send", name |-> manifest.name, body |-> manifest.body, raw |-> manifest.raw]
      /\ manifest.name \in RemoteNames /\ manifest.body \in Values /\ manifest.raw \in Values
  BY ShapeByPlace
<1>2. sync'.at = "send" /\ sync'.body = manifest.body /\ sync'.raw = manifest.raw
  BY <1>1
<1>3. sync' \in Holding({"read", "open", "send"})
  BY <1>1 DEF Holding
<1>4. ConfigShape'
  BY <1>3 DEF ConfigShape
<1>5. CarriedIsChecked'
  BY <1>2 DEF CarriedIsChecked
<1>6. QuotesAreWritten' /\ NoneStays'
  BY <1>2 DEF QuotesAreWritten, NoneStays
<1> QED
  BY <1>4, <1>5, <1>6

\* What the PATCH makes live is what the command carries.
LEMMA PatchMakesLive ==
  ASSUME ConfigInv, SendPatch
  PROVE  \/ remote' = remote
         \/ \E d \in {sync.body, remote.draft} :
              remote' = [name |-> sync.name, live |-> sync.body, draft |-> d]
BY DEF SendPatch

\* What reaches the provider passed the scan.
LEMMA SendKeeps == ASSUME ConfigInv, SendPatch PROVE ConfigInv'
<1> USE DEF ConfigInv
<1>1. sync.at = "send" /\ sync'.at = "none" /\ sync' = NoSync /\ UNCHANGED <<manifest, edited, quoted>>
  BY DEF NoSync, SendPatch
<1>2. sync.name \in RemoteNames /\ sync.body \in Values /\ ~Findings[sync.body]
  BY <1>1, ShapeByPlace DEF CarriedIsChecked
<1>3. Placeholder \notin Parts[sync.body] /\ (Quote \in Parts[sync.body] => quoted)
  BY <1>1, <1>2, ScannedIsFilled DEF QuotesAreWritten
<1>4. CarriedIsChecked'
  BY <1>1 DEF CarriedIsChecked
<1>5. CASE remote' = remote
  <2>1. ConfigShape'
    BY <1>1, <1>5 DEF ConfigShape
  <2> QED
    BY <1>1, <1>4, <1>5, <2>1 DEF QuotesAreWritten, NoneStays
<1>6. CASE \E d \in {sync.body, remote.draft} :
             remote' = [name |-> sync.name, live |-> sync.body, draft |-> d]
  <2>1. PICK d \in {sync.body, remote.draft} :
          remote' = [name |-> sync.name, live |-> sync.body, draft |-> d]
    BY <1>6
  <2>2. remote'.live = sync.body /\ remote'.draft = d /\ d \in Values
    BY <1>2, <2>1, ShapeByPlace
  <2>3. ConfigShape'
    BY <1>1, <1>2, <2>1, <2>2 DEF ConfigShape
  <2>4. QuotesAreWritten' /\ NoneStays'
    BY <1>1, <1>3, <2>2 DEF QuotesAreWritten, NoneStays
  <2> QED
    BY <1>4, <2>3, <2>4
<1> QED
  BY <1>5, <1>6, PatchMakesLive

\* A command that stops leaves the rest as it is.
LEMMA StopKeeps == ASSUME ConfigInv, StopSync PROVE ConfigInv'
<1> USE DEF ConfigInv, StopSync
<1>1. sync'.at = "none"
  BY DEF NoSync
<1>2. ConfigShape'
  BY DEF ConfigShape
<1>3. CarriedIsChecked' /\ QuotesAreWritten' /\ NoneStays'
  BY <1>1 DEF CarriedIsChecked, QuotesAreWritten, NoneStays
<1> QED
  BY <1>2, <1>3

\* Every step keeps the invariant.
LEMMA ConfigNextInv == ConfigInv /\ [ConfigNext]_configVars => ConfigInv'
<1> SUFFICES ASSUME ConfigInv, [ConfigNext]_configVars PROVE ConfigInv'
  OBVIOUS
<1>1. CASE ExportDetails
  BY <1>1, DetailsKeep
<1>2. CASE ExportBody \/ ExportAgent
  BY <1>2, ReadBodyKeeps
<1>3. CASE OpenManifest
  BY <1>3, OpenKeeps
<1>4. CASE WriteManifest
  BY <1>4, WriteKeeps
<1>5. CASE StartDeploy
  BY <1>5, StartDeployKeeps
<1>6. CASE SendPatch
  BY <1>6, SendKeeps
<1>7. CASE StopSync
  BY <1>7, StopKeeps
<1>8. CASE \E v \in Bodies : EditManifest(v)
  BY <1>8, EditManifestKeeps
<1>9. CASE \E v \in Remotes, n \in RemoteNames : EditRemote(n, v)
  BY <1>9, EditRemoteKeeps
<1>10. CASE UNCHANGED configVars
  BY <1>10 DEF configVars, ConfigInv, ConfigShape, CarriedIsChecked, QuotesAreWritten, NoneStays
<1> QED
  BY <1>1, <1>2, <1>3, <1>4, <1>5, <1>6, <1>7, <1>8, <1>9, <1>10 DEF ConfigNext

\* The shape of the state implies the types.
LEMMA ShapeGivesTypes == ConfigShape => ConfigTypeOK
BY ShapeByPlace DEF ConfigTypeOK

(* external_config_sync.py: the commands and the edits on either side keep  *)
(* their types.                                                            *)
THEOREM ConfigTypeCorrect == ConfigSpec => []ConfigTypeOK
<1>1. ConfigInv => ConfigTypeOK
  BY ShapeGivesTypes DEF ConfigInv
<1> QED
  BY <1>1, ConfigInitInv, ConfigNextInv, PTL DEF ConfigSpec

(* redact, _scan: whatever is exported, edited and deployed, an export that *)
(* nobody edited holds no text that begins with a URL and nothing under a  *)
(* secret-like key, and a placeholder reaches the provider only inside a   *)
(* longer text that an operator wrote.                                     *)
THEOREM NoSecretEverTravels == ConfigSpec => []NoSecretTravels
<1>1. ConfigInv => ExportIsClean
  <2> SUFFICES ASSUME ConfigInv, manifest.at = "whole", ~edited PROVE IsClean(manifest.body)
    BY DEF ExportIsClean, IsClean
  <2>1. manifest.body = Redact[manifest.raw] /\ manifest.raw \in Values
    BY ShapeByPlace DEF ConfigInv, CarriedIsChecked
  <2> QED
    BY <2>1, RedactedIsClean
<1>2. ConfigInv => PlaceholderStays
  BY DEF ConfigInv, QuotesAreWritten, NoneStays, PlaceholderStays
<1>3. ConfigInv => NoSecretTravels
  BY <1>1, <1>2 DEF NoSecretTravels
<1> QED
  BY <1>3, ConfigInitInv, ConfigNextInv, PTL DEF ConfigSpec

(* deploy: an export that nobody edited makes live what was read, but for  *)
(* the layout of its JSON texts, or changes nothing.                       *)
THEOREM UntouchedExportAlwaysPutsBack == ConfigSpec => UntouchedExportPutsBack
<1>1. ConfigInv /\ [ConfigNext]_configVars
        => [sync.at = "send" /\ sync' = NoSync /\ ~edited =>
              \/ remote' = remote
              \/ remote'.name = sync.name /\ remote'.live = Tidy[sync.raw]]_configVars
  <2> SUFFICES ASSUME ConfigInv, ConfigNext, sync.at = "send", sync' = NoSync, ~edited, remote' # remote
               PROVE  remote'.name = sync.name /\ remote'.live = Tidy[sync.raw]
    BY DEF configVars
  <2>1. SendPatch
    <3>1. sync # NoSync /\ sync' # sync
      BY DEF NoSync
    <3> QED
      BY <3>1 DEF ConfigNext, ExportDetails, ExportBody, ExportAgent, OpenManifest, WriteManifest,
                  StartDeploy, StopSync, EditManifest, EditRemote
  <2>2. remote'.name = sync.name /\ remote'.live = sync.body
    BY <2>1, PatchMakesLive
  <2>3. sync.body = Redact[sync.raw] /\ ~Findings[sync.body] /\ sync.raw \in Values
    BY ShapeByPlace DEF ConfigInv, CarriedIsChecked
  <2> QED
    BY <2>2, <2>3, ScannedIsUnchanged
<1> QED
  BY <1>1, ConfigInitInv, ConfigNextInv, PTL DEF ConfigSpec, UntouchedExportPutsBack
=============================================================================
