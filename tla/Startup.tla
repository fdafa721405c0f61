-------------------------------- MODULE Startup --------------------------------
(***************************************************************************)
(* create_app on one database file: Database.migrate, then                 *)
(* _bootstrap_admin_if_needed (core/database/database.py,                  *)
(* core/platform_api.py).  create_all asks first which tables exist and    *)
(* then creates the others one by one, each with its indexes; SQLite       *)
(* commits each statement.  A table that exists is skipped, its indexes    *)
(* with it.  Several processes may start at once, and stop at any step;    *)
(* each has the variables PLATFORM_BOOTSTRAP_ADMIN_* of its own, or not,   *)
(* and those that serve may add users (POST /users).                       *)
(***************************************************************************)
EXTENDS Naturals, Sequences, FiniteSets

CONSTANTS
  Processes,  \* processes that start on the file
  Names,      \* user names
  MaxStops, MaxUsers  \* bounds: processes killed or restarted, users there are

ASSUME StartupAssumption == MaxStops \in Nat

VARIABLES
  schema,   \* what create_all has made of it
  version,  \* the row of SCHEMA_VERSION is there
  users,    \* the rows of users: [name, posted], posted by an admin or of a start
  proc,     \* per process: [at, todo, secret, alone]
  stops     \* processes killed or restarted so far

startVars == <<schema, version, users, proc, stops>>

\* create_all's order, the same in every process, other tables left out: the
\* unique index of users.username is a statement after its table, and the
\* migrations come after the users.
UsersDdl == <<"users", "username">>
MigrationsDdl == <<"schema_migrations">>
Tables == {"users", "schema_migrations"}

\* The password a process is given: none or no name with it, under 10 characters, or good.
Secrets == {"unset", "short", "good"}
Stages == {"off", "create", "version", "record", "admin", "insert", "up", "dead"}
Idle == [at |-> "off", todo |-> << >>, secret |-> "unset", alone |-> TRUE]

StartupTypeOK ==
  /\ schema \in SUBSET {"users", "username", "schema_migrations"}
  /\ version \in BOOLEAN
  /\ \A i \in 1 .. Len(users) : users[i].name \in Names
  /\ \A p \in Processes : proc[p].at \in Stages /\ proc[p].secret \in Secrets
  /\ stops \in 0 .. MaxStops

StartupInit ==
  /\ schema = {} /\ version = FALSE /\ users = << >>
  /\ proc = [p \in Processes |-> Idle]
  /\ stops = 0
-----------------------------------------------------------------------------
Starting(p) == proc[p].at \notin {"off", "up", "dead"}

AnyTableSlip(p) == IF Tables \cap schema = {} THEN UsersDdl \o MigrationsDdl ELSE << >>
\* checkfirst: the statements for the tables that are missing now.
Missing(p) ==
  (IF "users" \in schema THEN << >> ELSE UsersDdl)
  \o (IF "schema_migrations" \in schema THEN << >> ELSE MigrationsDdl)

Move(p, at) == proc' = [proc EXCEPT ![p].at = at]

\* The process starts, and others that are starting are no longer alone.
Launch(p) ==
  /\ proc[p].at = "off"
  /\ proc' = [q \in Processes |->
       IF q = p THEN [at |-> IF Missing(p) = << >> THEN "version" ELSE "create", todo |-> Missing(p),
                      secret |-> "unset", alone |-> \A r \in Processes : ~Starting(r)]
       ELSE [proc[q] EXCEPT !.alone = @ /\ ~Starting(q)]]
  /\ UNCHANGED <<schema, version, users, stops>>

Twins == \E i, j \in 1 .. Len(users) : i # j /\ users[i].name = users[j].name

\* CREATE fails when another process was faster, and the index when there are
\* twins already: the exception ends the process.
CreateNext(p) ==
  LET d == Head(proc[p].todo) IN
  /\ proc[p].at = "create"
  /\ IF d \in schema \/ (d = "username" /\ Twins)
     THEN Move(p, "dead") /\ UNCHANGED schema
     ELSE /\ schema' = schema \cup {d}
          /\ proc' = [proc EXCEPT ![p].todo = Tail(@),
                                  ![p].at = IF Len(proc[p].todo) = 1 THEN "version" ELSE "create"]
  /\ UNCHANGED <<version, users, stops>>

\* migrate() looks for the row of this version.
ReadVersion(p) ==
  /\ proc[p].at = "version"
  /\ Move(p, IF version THEN "admin" ELSE "record")
  /\ UNCHANGED <<schema, version, users, stops>>

\* The version is the primary key: a second INSERT raises.
RecordVersion(p) ==
  /\ proc[p].at = "record"
  /\ version' = TRUE
  /\ Move(p, IF version THEN "dead" ELSE "admin")
  /\ UNCHANGED <<schema, users, stops>>

\* The bootstrap reads its variables; without them it does nothing, and else
\* it asks whether there is any user.
ReadUsers(p, w) ==
  /\ proc[p].at = "admin"
  /\ proc' = [proc EXCEPT ![p].secret = w,
                          ![p].at = IF w # "unset" /\ users = << >> THEN "insert" ELSE "up"]
  /\ UNCHANGED <<schema, version, users, stops>>

\* Only the index refuses a second user of one name.
Refused(n) == "username" \in schema /\ \E i \in 1 .. Len(users) : users[i].name = n

\* create_user raises for a short password, or commits after it hashed it.
InsertAdmin(p, n) ==
  /\ proc[p].at = "insert"
  /\ IF proc[p].secret = "short" \/ Refused(n)
     THEN Move(p, "dead") /\ UNCHANGED users
     ELSE Move(p, "up") /\ users' = Append(users, [name |-> n, posted |-> FALSE])
  /\ UNCHANGED <<schema, version, stops>>

\* POST /users of a process that serves: it takes an admin, so there is a user.
AddUser(p, n) ==
  /\ proc[p].at = "up" /\ users # << >> /\ Len(users) < MaxUsers /\ ~Refused(n)
  /\ users' = Append(users, [name |-> n, posted |-> TRUE])
  /\ UNCHANGED <<schema, version, proc, stops>>

\* The process is killed at any step, or one that ended is started again.
StopProcess(p) ==
  /\ proc[p].at # "off" /\ stops < MaxStops
  /\ stops' = stops + 1
  /\ proc' = [proc EXCEPT ![p] = Idle]
  /\ UNCHANGED <<schema, version, users>>

StartupNext ==
  \E p \in Processes :
    \/ CreateNext(p) \/ ReadVersion(p) \/ RecordVersion(p) \/ StopProcess(p) \/ Launch(p)
    \/ \E w \in Secrets : ReadUsers(p, w)
    \/ \E n \in Names : InsertAdmin(p, n) \/ AddUser(p, n)

StartupSpec == StartupInit /\ [][StartupNext]_startVars
-----------------------------------------------------------------------------
(* A process that serves has every table and its version, whatever was     *)
(* killed before it at whatever statement, and a user but without the      *)
(* bootstrap variables.                                                    *)
ServesOnlyWhenReady ==
  \A p \in Processes : proc[p].at = "up" =>
    Tables \subseteq schema /\ version /\ (users # << >> \/ proc[p].secret = "unset")

(* A start fails only when another process was starting too, or on a ready *)
(* database for its short password: migrate and the bootstrap take up what *)
(* a process that was killed left.                                         *)
FailsOnlyByRaceOrPassword ==
  \A p \in Processes : proc[p].at = "dead" => ~proc[p].alone \/ (proc[p].secret = "short" /\ version)

(* Processes that race each other cannot all fail, none of them having a   *)
(* short password.                                                         *)
SomeProcessSurvives ==
  /\ stops = 0 /\ \A p \in Processes : proc[p].secret # "short"
  /\ \E p \in Processes : proc[p].at = "dead"
  => \E p \in Processes : proc[p].at \notin {"off", "dead"}

(* Two users of one name: a table without its index, whose maker was       *)
(* killed between the two or still is there, and another start, after      *)
(* which an admin posts the name again, or two more starts.                *)
TwinsTakeMoreStarts ==
  LET starts == Cardinality({p \in Processes : proc[p].at # "off"}) + stops IN
  Twins => /\ "username" \notin schema /\ starts >= 2
           /\ starts >= 3 \/ \E i \in 1 .. Len(users) : users[i].posted

(* What starts that race and are killed can do to a new database, and no   *)
(* more.                                                                   *)
StartsAreSafe ==
  ServesOnlyWhenReady /\ FailsOnlyByRaceOrPassword /\ SomeProcessSurvives /\ TwinsTakeMoreStarts
=============================================================================
