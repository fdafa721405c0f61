-------------------------- MODULE ProviderSandboxes --------------------------
(***************************************************************************)
(* The provider sandboxes of the platform (integrations/*_sandbox) and the *)
(* generic operations next to them (integrations/sandbox_providers.py).    *)
(* Each request makes a service from the environment, which answers        *)
(* "disabled" or "mock" without a call, or validates its settings and      *)
(* calls the provider, once, with a timeout of five seconds.  The routers  *)
(* turn the service's own errors into 400 and leave every other one to the *)
(* framework (500).  A provider may do what it was asked after the answer  *)
(* was given up.  It knows no request ids: X-Request-ID is the client's,   *)
(* or one constant, and nothing looks at it, so requests are told apart    *)
(* here whatever it says.                                                  *)
(***************************************************************************)
EXTENDS Naturals, FiniteSets

CONSTANTS
  Services,   \* the providers: "calendar" deletes, "n8n" is not read
  SandboxIds  \* requests: each creates an event, draft or trigger, deletes one, or is generic

KnownModes == {"mock", "sandbox", "disabled"}
ServiceModes == KnownModes \cup {"live"}
Kinds == {"create", "delete", "generic"}
\* "done" and "disabled" or "mock" are 2xx; 400, 503 and 500, or no answer at all.
Answers == {"none", "done", "disabled", "mock", "refused", "unavailable", "error"}
Steps == {"new", "called", "served", "ended"}

VARIABLES
  settings,  \* per service: [enabled, mode, complete], from the environment
  requests,   \* per request: [service, kind, event, at, answer]
  pending,   \* requests the provider has, or may have yet, and did not act on
  made,      \* the requests whose event, draft or trigger was made
  gone       \* the events among them that were deleted

sandboxVars == <<settings, requests, pending, made, gone>>

SandboxTypeOK ==
  /\ settings \in [Services -> [enabled : BOOLEAN, mode : ServiceModes, complete : BOOLEAN]]
  /\ requests \in [SandboxIds -> [service : Services, kind : Kinds, event : SandboxIds,
                                 at : Steps, answer : Answers]]
  /\ pending \cup made \cup gone \subseteq SandboxIds

SandboxInit ==
  /\ settings \in [Services -> [enabled : BOOLEAN, mode : ServiceModes, complete : BOOLEAN]]
  /\ requests \in [SandboxIds -> [service : Services, kind : Kinds, event : SandboxIds,
                                 at : {"new"}, answer : {"none"}]]
  /\ \A r \in SandboxIds : /\ requests[r].kind = "delete" => requests[r].service = "calendar"
                           /\ requests[r].kind # "delete" => requests[r].event = r
  /\ pending = {} /\ made = {} /\ gone = {}
-----------------------------------------------------------------------------
\* provider_state of sandbox_providers: a mode it does not know is "disabled".
ProviderMode(s) ==
  IF settings[s].enabled /\ settings[s].mode \in KnownModes THEN settings[s].mode ELSE "disabled"

\* What an operation comes to: the order of the tests is the code's.
Course(s) ==
  IF ~settings[s].enabled \/ settings[s].mode = "disabled" THEN "disabled"
  ELSE IF settings[s].mode = "mock" THEN "mock"
  ELSE IF settings[s].mode = "sandbox" /\ settings[s].complete THEN "call" ELSE "refused"

\* The title, times, subject, operation or record are tested before the settings.
CourseOf(r, valid) == IF valid \/ requests[r].kind = "delete" THEN Course(requests[r].service) ELSE "refused"

Answered(r, answer) == requests' = [requests EXCEPT ![r].at = "ended", ![r].answer = answer]

\* create_event, create_draft, trigger, delete_event: up to the call of the transport.
Operate(r, valid) ==
  /\ requests[r].at = "new" /\ requests[r].kind # "generic"
  /\ IF CourseOf(r, valid) = "call"
     THEN requests' = [requests EXCEPT ![r].at = "called"] /\ pending' = pending \cup {r}
     ELSE Answered(r, CourseOf(r, valid)) /\ UNCHANGED pending
  /\ UNCHANGED <<settings, made, gone>>

\* execute of sandbox_providers has no transport: in the mode sandbox it raises.
ExecuteGeneric(r) ==
  LET mode == ProviderMode(requests[r].service) IN
  /\ requests[r].at = "new" /\ requests[r].kind = "generic"
  /\ Answered(r, IF mode = "sandbox" THEN "unavailable" ELSE mode)
  /\ UNCHANGED <<settings, pending, made, gone>>

CaughtSlip == "refused"
\* httpx's errors and a body of another shape are not the service's own error.
Uncaught == "error"

\* The event a delete asks for is there.
IsThere(e) == e \in made \ gone

\* The provider acts on a request, and its answer is on the way if one is awaited.
Serve(r) ==
  /\ r \in pending
  /\ pending' = pending \ {r}
  /\ IF requests[r].kind = "delete"
     THEN IsThere(requests[r].event) /\ gone' = gone \cup {requests[r].event} /\ UNCHANGED made
     ELSE made' = made \cup {r} /\ UNCHANGED gone
  /\ requests' = [requests EXCEPT ![r].at = IF @ = "called" THEN "served" ELSE @]
  /\ UNCHANGED settings

\* It refuses access, which Gmail and n8n turn into their own error, has no such
\* event, fails, or was never reached.
Refuse(r, answer) ==
  /\ r \in pending
  /\ pending' = pending \ {r}
  /\ IF requests[r].at = "called" THEN Answered(r, answer) ELSE UNCHANGED requests
  /\ UNCHANGED <<settings, made, gone>>

\* A made-up reference stands for one the answer lacks; n8n's body is not read,
\* nor is that of a delete.
Receive(r) ==
  /\ requests[r].at = "served"
  /\ \/ Answered(r, "done")
     \/ /\ requests[r].service # "n8n" /\ requests[r].kind = "create"  \* no JSON, or no object
        /\ Answered(r, Uncaught)
  /\ UNCHANGED <<settings, pending, made, gone>>

\* The answer is late or lost; the provider may act on the request yet.
TimeOut(r) ==
  /\ requests[r].at \in {"called", "served"}
  /\ Answered(r, Uncaught)
  /\ UNCHANGED <<settings, pending, made, gone>>

\* The process is started with other settings, and its requests are cut off.
RestartWith(s, mode) ==
  /\ settings[s].mode # mode
  /\ settings' = [settings EXCEPT ![s].mode = mode]
  /\ requests' = [r \in SandboxIds |->
       IF requests[r].at \in {"called", "served"} THEN [requests[r] EXCEPT !.at = "ended", !.answer = "error"]
       ELSE requests[r]]
  /\ UNCHANGED <<pending, made, gone>>

SandboxNext ==
  \/ \E r \in SandboxIds :
       \/ ExecuteGeneric(r) \/ Serve(r) \/ Receive(r) \/ TimeOut(r)
       \/ \E valid \in BOOLEAN : Operate(r, valid)
       \/ \E answer \in {"refused", "error"} : Refuse(r, answer)
  \/ \E s \in Services, mode \in ServiceModes : RestartWith(s, mode)

SandboxSpec == SandboxInit /\ [][SandboxNext]_sandboxVars
-----------------------------------------------------------------------------
Told(r, answers) == requests[r].at = "ended" /\ requests[r].answer \in answers

(* What a client was told was created was, and what it was told was        *)
(* refused, unavailable, disabled or a mock the provider neither did nor   *)
(* ever will; only an error, or no answer, leaves it open.                 *)
WritesAreAsTold ==
  \A r \in SandboxIds :
    /\ Told(r, {"done"}) /\ requests[r].kind = "create" => r \in made
    /\ Told(r, {"refused", "unavailable", "disabled", "mock"}) \/ requests[r].kind = "generic" =>
         r \notin made /\ r \notin pending

(* An event is gone only by a request that was told so or is left in       *)
(* doubt, and no two requests are told that they deleted one event.        *)
DeletesAreAsTold ==
  /\ \A r \in SandboxIds : Told(r, {"done"}) /\ requests[r].kind = "delete" => requests[r].event \in gone
  /\ \A r, q \in SandboxIds :
       /\ Told(r, {"done"}) /\ requests[r].kind = "delete" /\ Told(q, {"done"}) /\ requests[q].kind = "delete"
       => r = q \/ requests[r].event # requests[q].event
  /\ \A e \in gone : \E r \in SandboxIds :
       /\ requests[r].kind = "delete" /\ requests[r].event = e
       /\ requests[r].at = "served" \/ Told(r, {"done", "error"})

(* The answers of the sandboxes agree with what is at the provider, over   *)
(* answers that are lost, actions that come late, rivals and restarts with *)
(* other settings.                                                         *)
AnswersMatchProvider == WritesAreAsTold /\ DeletesAreAsTold
=============================================================================
