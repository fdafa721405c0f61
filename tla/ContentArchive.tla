---------------------------- MODULE ContentArchive ----------------------------
(***************************************************************************)
(* The content command (agents/content): ContentPipeline.run asks a        *)
(* generator for drafts, and an archive saves the batch under a name no    *)
(* other save has.  LocalContentArchive makes a directory that is closed   *)
(* to other users, writes the file in it, and then closes the file too;    *)
(* GCSContentArchive looks at the bucket and then uploads, on the          *)
(* condition that the object is new.  The command may be stopped between   *)
(* any two steps, and the bucket be reconfigured.                          *)
(***************************************************************************)
EXTENDS Naturals

CONSTANTS
  Saves,       \* runs of the command with --archive
  Quantities   \* draft counts a run may ask for

ASSUME ArchiveAssumption == Quantities \subseteq Nat

VARIABLES
  backend,   \* CONTENT_STORAGE_MODE, valid or not
  closed,    \* the bucket has uniform access and prevents public access
  saves,     \* per run: [at, want, got]
  objects,   \* what each run has left: [whole, inside, shut, drafts]: inside a
             \* closed directory, and shut itself or by its bucket
  reopened   \* history: runs since whose look at the bucket it was opened

archiveVars == <<backend, closed, saves, objects, reopened>>

Nothing == [whole |-> FALSE, inside |-> FALSE, shut |-> TRUE, drafts |-> 0]
Moves(s, at) == saves' = [saves EXCEPT ![s].at = at]

ArchiveTypeOK ==
  /\ \A s \in Saves : /\ saves[s].at \in {"new", "made", "inside", "opened", "written", "checked", "reported", "failed"}
                      /\ objects[s].drafts \in Nat
  /\ reopened \subseteq Saves

ArchiveInit ==
  /\ backend \in {"local", "gcs", "other"} /\ closed \in BOOLEAN
  /\ saves = [s \in Saves |-> [at |-> "new", want |-> 0, got |-> 0]]
  /\ objects = [s \in Saves |-> Nothing]
  /\ reopened = {}
-----------------------------------------------------------------------------
AnyCountSlip(q, n) == q \in 1 .. 30
\* ContentRequest.validate, and the count the generator has to meet.
Acceptable(q, n) == q \in 1 .. 30 /\ n = q

\* The generator returns some number of drafts; a wrong one, like a blank
\* topic or a generator that fails, ends the command before anything is saved.
RunPipeline(s, q, n) ==
  /\ saves[s].at = "new"
  /\ saves' = [saves EXCEPT ![s] =
       [at |-> IF Acceptable(q, n) /\ backend # "other" THEN "made" ELSE "failed", want |-> q, got |-> n]]
  /\ UNCHANGED <<backend, closed, objects, reopened>>

\* LocalContentArchive.save: mkdir closes the directory, which is new as its
\* name is; write_text makes the file in it, with the mode of any new file.
MakeDirectory(s) ==
  /\ saves[s].at = "made" /\ backend = "local"
  /\ objects' = [objects EXCEPT ![s].inside = TRUE]
  /\ Moves(s, "inside")
  /\ UNCHANGED <<backend, closed, reopened>>
OpenLocal(s) ==
  /\ saves[s].at = "inside"
  /\ objects' = [objects EXCEPT ![s].shut = FALSE]
  /\ Moves(s, "opened")
  /\ UNCHANGED <<backend, closed, reopened>>
WriteLocal(s) ==
  /\ saves[s].at = "opened"
  /\ objects' = [objects EXCEPT ![s].whole = TRUE, ![s].drafts = saves[s].got]
  /\ Moves(s, "written")
  /\ UNCHANGED <<backend, closed, reopened>>
ChmodLocal(s) ==
  /\ saves[s].at = "written"
  /\ objects' = [objects EXCEPT ![s].shut = TRUE]
  /\ Moves(s, "reported")
  /\ UNCHANGED <<backend, closed, reopened>>

\* GCSContentArchive.save: the configuration is read once, before the upload.
CheckBucket(s) ==
  /\ saves[s].at = "made" /\ backend = "gcs"
  /\ Moves(s, IF closed THEN "checked" ELSE "failed")
  /\ UNCHANGED <<backend, closed, objects, reopened>>
\* The upload is stored, and its answer may be lost: a repeated one finds the
\* object there, and fails; or nothing is stored.
Upload(s) ==
  /\ saves[s].at = "checked"
  /\ \/ /\ objects' = [objects EXCEPT ![s] = [Nothing EXCEPT !.whole = TRUE, !.shut = closed, !.drafts = saves[s].got]]
        /\ \E at \in {"reported", "failed"} : Moves(s, at)
     \/ Moves(s, "failed") /\ UNCHANGED objects
  /\ UNCHANGED <<backend, closed, reopened>>

Kill(s) ==
  /\ saves[s].at \in {"made", "inside", "opened", "written", "checked"}
  /\ Moves(s, "failed")
  /\ UNCHANGED <<backend, closed, objects, reopened>>

\* An administrator sets the bucket, and every object in it follows.
Reconfigure ==
  /\ closed' = ~closed
  /\ reopened' = IF closed THEN {s \in Saves : saves[s].at \in {"checked", "reported", "failed"}} \cup reopened ELSE reopened
  /\ objects' = IF backend = "gcs" THEN [s \in Saves |-> [objects[s] EXCEPT !.shut = ~objects[s].whole \/ ~closed]]
                ELSE objects
  /\ UNCHANGED <<backend, saves>>

ArchiveNext ==
  \/ Reconfigure
  \/ \E s \in Saves :
       \/ MakeDirectory(s) \/ OpenLocal(s) \/ WriteLocal(s) \/ ChmodLocal(s) \/ CheckBucket(s) \/ Upload(s) \/ Kill(s)
       \/ \E q, n \in Quantities : RunPipeline(s, q, n)

ArchiveSpec == ArchiveInit /\ [][ArchiveNext]_archiveVars
-----------------------------------------------------------------------------
\* Nobody else can read what the run has left.
Private(s) == objects[s].inside \/ objects[s].shut

(* What a run reports is whole and has the drafts that were asked for.     *)
ReportedIsWhole ==
  \A s \in Saves : saves[s].at = "reported" => objects[s].whole /\ objects[s].drafts = saves[s].want

(* Others can read a batch, whole or in part, at no moment and after no    *)
(* stop, unless it is in a bucket that was opened since the run looked.    *)
ExposedOnlyByBucket == \A s \in Saves : Private(s) \/ (backend = "gcs" /\ s \in reopened)

(* Saved batches are what was asked for, and closed.                       *)
ArchiveIsSound == ReportedIsWhole /\ ExposedOnlyByBucket
=============================================================================
