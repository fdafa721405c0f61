------------------------------ MODULE MakeStatus ------------------------------
(***************************************************************************)
(* get_make_status (integrations/make_adapter.py): three requests to Make, *)
(* one after the other, while the scenario there goes on.  Each may fail,  *)
(* or be answered by JSON of another shape than the code reads, which      *)
(* raises an error that no except clause expects; the dashboard            *)
(* asks again whenever it likes.                                           *)
(***************************************************************************)
EXTENDS Naturals

CONSTANT MaxOperations   \* bound: operations of the last executions
ASSUME MaxOperationsAssumption == MaxOperations \in Nat

VARIABLES
  configured,  \* the environment: "yes", "no" or "bad zone"
  cursorSet,   \* MAKE_DATA_STORE_ID is set
  operations,  \* operations the last five executions add up to, at Make
  asked,       \* the status in progress: what it asks for next, and its result
  shown,       \* the last one that was returned
  during,      \* history: values of operations during the one in progress, or shown
  failures     \* history: its requests that failed

makeVars == <<configured, cursorSet, operations, asked, shown, during, failures>>

Empty == [status |-> "ok", error |-> "none", count |-> 0, hasCount |-> FALSE]
Asking(next, result) == [next |-> next, result |-> result]

MakeTypeOK ==
  /\ asked.next \in {"nothing", "scenario", "logs", "cursor"}
  /\ shown.status \in {"none", "not_configured", "error", "degraded", "ok", "raised"}
  /\ shown.count \in Nat /\ failures \subseteq {"scenario", "logs", "cursor"}

MakeInit ==
  /\ configured \in {"yes", "no", "bad zone"} /\ cursorSet \in BOOLEAN
  /\ operations = 0 /\ during = {} /\ failures = {}
  /\ asked = Asking("nothing", Empty) /\ shown = [Empty EXCEPT !.status = "none"]
-----------------------------------------------------------------------------
Returns(result) == shown' = result /\ asked' = Asking("nothing", Empty)

AskStatus ==
  /\ asked.next = "nothing"
  /\ during' = {operations} /\ failures' = {}
  /\ CASE configured = "bad zone" -> Returns([Empty EXCEPT !.status = "error", !.error = "zone"])
       [] configured = "no" -> Returns([Empty EXCEPT !.status = "not_configured"])
       [] OTHER -> asked' = Asking("scenario", Empty) /\ shown' = [Empty EXCEPT !.status = "none"]
  /\ UNCHANGED <<configured, cursorSet, operations>>

\* JSON of another shape: an AttributeError, TypeError or KeyError leaves get_make_status.
OddShape ==
  /\ asked.next # "nothing"
  /\ Returns([Empty EXCEPT !.status = "raised"])
  /\ UNCHANGED <<configured, cursorSet, operations, during, failures>>

ReadScenario ==
  /\ asked.next = "scenario"
  /\ \/ asked' = Asking("logs", asked.result) /\ UNCHANGED <<shown, failures>>
     \/ /\ failures' = {"scenario"}
        /\ Returns([asked.result EXCEPT !.status = "error", !.error = "scenario"])
  /\ UNCHANGED <<configured, cursorSet, operations, during>>

AfterLogs(result) == IF cursorSet THEN asked' = Asking("cursor", result) /\ UNCHANGED shown ELSE Returns(result)
\* The counts of the last executions, when their entries have one.
ReadLogs ==
  /\ asked.next = "logs"
  /\ \/ \E has \in BOOLEAN :
          AfterLogs([asked.result EXCEPT !.hasCount = has, !.count = IF has THEN operations ELSE 0])
        /\ UNCHANGED failures
     \/ /\ failures' = {"logs"}
        /\ AfterLogs([asked.result EXCEPT !.status = "degraded", !.error = "logs"])
  /\ UNCHANGED <<configured, cursorSet, operations, during>>

LastErrorSlip(result) == [result EXCEPT !.status = "degraded", !.error = "cursor"]
\* A cursor that cannot be read does not hide an earlier error.
WithoutCursor(result) ==
  [result EXCEPT !.status = IF @ = "ok" THEN "degraded" ELSE @, !.error = IF @ = "none" THEN "cursor" ELSE @]

ReadCursor ==
  /\ asked.next = "cursor"
  /\ \/ Returns(asked.result) /\ UNCHANGED failures
     \/ Returns(WithoutCursor(asked.result)) /\ failures' = failures \cup {"cursor"}
  /\ UNCHANGED <<configured, cursorSet, operations, during>>

\* Another execution takes the place of the oldest of the five: the sum goes up or down.
Execute ==
  /\ operations' \in 0..MaxOperations
  /\ during' = IF asked.next = "nothing" THEN during ELSE during \cup {operations'}
  /\ UNCHANGED <<configured, cursorSet, asked, shown, failures>>

MakeNext == AskStatus \/ OddShape \/ ReadScenario \/ ReadLogs \/ ReadCursor \/ Execute

MakeSpec == MakeInit /\ [][MakeNext]_makeVars
-----------------------------------------------------------------------------
(* A status that is shown as ok had no request fail, one that is degraded  *)
(* or an error names the first that did, and a count in it is one that the *)
(* executions came to while the status was asked for.                      *)
StatusNamesFailure ==
  /\ shown.status = "ok" => failures = {}
  /\ shown.status = "degraded" =>
       shown.error = IF "logs" \in failures THEN "logs" ELSE "cursor"
  /\ shown.error \notin {"none", "zone"} => shown.error \in failures
  /\ shown.hasCount => shown.count \in during
=============================================================================
