------------------------------ MODULE ConfigSync ------------------------------
(***************************************************************************)
(* scripts/external_config_sync.py: export reads the configuration of a    *)
(* Make scenario or an ElevenLabs agent, redacts it and writes a manifest; *)
(* an operator may edit the manifest; deploy validates it and sends it     *)
(* back.  Meanwhile the provider's side is edited too.  A value is a text, *)
(* a dict with one item under a plain or a secret-like key (a list reads   *)
(* like a dict under a plain key), or a text that holds JSON.              *)
(***************************************************************************)
EXTENDS Naturals

CONSTANTS
  RemoteNames,    \* values of the name of a scenario or agent
  MaxEdits  \* bound: edits on either side

\* A text by what it holds, and whether the code's tests see it there: a URL it begins
\* with, a placeholder that is all of it.  A URL behind a space or inside a sentence or a
\* JSON-encoded string, or "Bearer __REDACTED__", is not bare.
Text(what, bare) == [kind |-> "text", holds |-> what, bare |-> bare]
Placeholder == Text("mark", TRUE)
Quote == Text("mark", FALSE)
Leaves == {Text("nothing", FALSE), Text("url", TRUE), Text("url", FALSE), Placeholder, Quote}

Dict(key, v) == [kind |-> "dict", key |-> key, item |-> v]
Dicts(S) == {Dict(key, v) : key \in {"plain", "secret"}, v \in S}
\* A text that holds a JSON object, in the layout of json.dumps with sorted keys or not.
Json(v, tidy) == [kind |-> "json", tidy |-> tidy, item |-> v]
JsonTexts == {Json(d, tidy) : d \in Dicts(Leaves), tidy \in BOOLEAN}
Items == Leaves \cup Dicts(Leaves) \cup JsonTexts
\* The keys of a payload are of a fixed list, none of them secret-like.
Bodies == {Dict("plain", v) : v \in Items}
Values == Items \cup Bodies

\* A value and all that is in it.
Parts[v \in Values] == {v} \cup IF v.kind \in {"dict", "json"} THEN Parts[v.item] ELSE {}
\* The same value with its JSON texts as json.dumps lays them out.
Tidy[v \in Values] ==
  CASE v.kind = "dict" -> Dict(v.key, Tidy[v.item])
    [] v.kind = "json" -> Json(Tidy[v.item], TRUE)
    [] OTHER -> v
-----------------------------------------------------------------------------
OmitSlip(inner, v) ==
  CASE v.kind = "dict" /\ v.key = "secret" -> Dict("plain", Text("nothing", FALSE))
    [] v.kind = "dict" /\ v.key = "plain" -> Dict("plain", inner[v.item])
    [] v.kind = "json" -> Json(inner[v.item], TRUE)
    [] v.kind = "text" -> IF v.holds = "url" /\ v.bare THEN Placeholder ELSE v
\* The body of redact; the calls it makes are those of inner.
RedactOnce(inner, v) ==
  CASE v.kind = "dict" /\ v.key = "secret" -> Dict("secret", Placeholder)
    [] v.kind = "dict" /\ v.key = "plain" -> Dict("plain", inner[v.item])
    [] v.kind = "json" -> Json(inner[v.item], TRUE)
    [] v.kind = "text" -> IF v.holds = "url" /\ v.bare THEN Placeholder ELSE v
Redact[v \in Values] == RedactOnce(Redact, v)

FlatScanSlip(inner, v) ==
  \/ v.kind = "text" /\ v.bare
  \/ v.kind = "dict" /\ (v.key = "secret" \/ inner[v.item])
\* The body of _scan: something keeps validate_manifest from accepting the payload.
ScanOnce(inner, v) ==
  \/ v.kind = "text" /\ v.bare
  \/ v.kind = "dict" /\ (v.key = "secret" \/ inner[v.item])
  \/ v.kind = "json" /\ inner[v.item]
Findings[v \in Values] == ScanOnce(Findings, v)
-----------------------------------------------------------------------------
VARIABLES
  provider,  \* make is read by two requests, elevenlabs by one
  remote,    \* the provider's side: [name, live, draft]; an agent's draft is what is live
  sync,      \* the command in progress: [at, name, body, raw], raw is history: what was read
  manifest,  \* the file: [at, name, body, raw], at is absent, torn or whole
  edited,    \* history: an operator edited the file
  quoted,    \* history: an operator wrote a text with a placeholder in it
  edits

configVars == <<provider, remote, sync, manifest, edited, quoted, edits>>

NoSync == [at |-> "none"]
NoFile == [at |-> "absent"]

\* What the provider's users make: no placeholders, and a blueprint is JSON.
Remotes ==
  {v \in Bodies : Parts[v] \cap {Placeholder, Quote} = {} /\ (provider = "make" => v.item.kind = "json")}

ConfigTypeOK ==
  /\ remote.name \in RemoteNames /\ remote.live \in Values /\ remote.draft \in Values
  /\ sync.at \in {"none", "details", "read", "open", "send"}
  /\ manifest.at \in {"absent", "torn", "whole"}

ConfigInit ==
  /\ provider \in {"make", "elevenlabs"}
  /\ \E n \in RemoteNames, v \in Remotes : remote = [name |-> n, live |-> v, draft |-> v]
  /\ sync = NoSync /\ manifest = NoFile
  /\ edited = FALSE /\ quoted = FALSE /\ edits = 0

\* _make_export asks for the details and then for the blueprint, with draft=true; one
\* that is not JSON fails the export.
ExportDetails ==
  /\ sync = NoSync /\ provider = "make"
  /\ sync' = [at |-> "details", name |-> remote.name]
  /\ UNCHANGED <<provider, remote, manifest, edited, quoted, edits>>
ExportBody ==
  /\ sync.at = "details" /\ remote.draft.item.kind = "json"
  /\ sync' = [at |-> "read", name |-> sync.name, body |-> Redact[remote.draft], raw |-> remote.draft]
  /\ UNCHANGED <<provider, remote, manifest, edited, quoted, edits>>
ExportAgent ==
  /\ sync = NoSync /\ provider = "elevenlabs"
  /\ sync' = [at |-> "read", name |-> remote.name, body |-> Redact[remote.live], raw |-> remote.live]
  /\ UNCHANGED <<provider, remote, manifest, edited, quoted, edits>>
\* write_text empties the file, then fills it.
OpenManifest ==
  /\ sync.at = "read" /\ sync' = [sync EXCEPT !.at = "open"]
  /\ manifest' = [at |-> "torn"] /\ edited' = FALSE
  /\ UNCHANGED <<provider, remote, quoted, edits>>
WriteManifest ==
  /\ sync.at = "open" /\ sync' = NoSync
  /\ manifest' = [sync EXCEPT !.at = "whole"]
  /\ UNCHANGED <<provider, remote, edited, quoted, edits>>

EditManifest(v) ==
  /\ sync = NoSync /\ manifest.at = "whole" /\ edits < MaxEdits
  /\ manifest' = [manifest EXCEPT !.body = v]
  /\ edited' = TRUE /\ edits' = edits + 1
  /\ quoted' = (quoted \/ Quote \in Parts[v])
  /\ UNCHANGED <<provider, remote, sync>>
\* Somebody changes the scenario or agent, or only the draft of the scenario.
EditRemote(n, v) ==
  /\ edits < MaxEdits /\ edits' = edits + 1
  /\ \/ remote' = [name |-> n, live |-> v, draft |-> v]
     \/ provider = "make" /\ remote' = [remote EXCEPT !.draft = v]
  /\ UNCHANGED <<provider, sync, manifest, edited, quoted>>

\* deploy --apply: load_manifest, validate_manifest, which wants a blueprint that is a
\* text; the gates are passed.
StartDeploy ==
  /\ sync = NoSync /\ manifest.at = "whole"
  /\ ~Findings[manifest.body]
  /\ provider = "make" => manifest.body.item.kind # "dict"
  /\ sync' = [manifest EXCEPT !.at = "send"]
  /\ UNCHANGED <<provider, remote, manifest, edited, quoted, edits>>
\* The PATCH takes effect, whether or not its answer arrives, or it does not; a scenario
\* may keep its draft.
SendPatch ==
  /\ sync.at = "send" /\ sync' = NoSync
  /\ \/ remote' = [name |-> sync.name, live |-> sync.body, draft |-> sync.body]
     \/ provider = "make" /\ remote' = [name |-> sync.name, live |-> sync.body, draft |-> remote.draft]
     \/ UNCHANGED remote
  /\ UNCHANGED <<provider, manifest, edited, quoted, edits>>
\* The command is stopped, or one of its requests fails.
StopSync ==
  /\ sync # NoSync /\ sync' = NoSync
  /\ UNCHANGED <<provider, remote, manifest, edited, quoted, edits>>

ConfigNext ==
  \/ ExportDetails \/ ExportBody \/ ExportAgent \/ OpenManifest \/ WriteManifest
  \/ StartDeploy \/ SendPatch \/ StopSync
  \/ \E v \in Bodies : EditManifest(v)
  \/ \E v \in Remotes, n \in RemoteNames : EditRemote(n, v)

ConfigSpec == ConfigInit /\ [][ConfigNext]_configVars
-----------------------------------------------------------------------------
(* A manifest that was exported, and not edited, holds under a secret-like *)
(* key nothing but the placeholder, and no text that begins with a URL, in *)
(* nested texts neither.  A URL further inside a text does travel.         *)
ExportIsClean ==
  manifest.at = "whole" /\ ~edited =>
    \A w \in Parts[manifest.body] :
      /\ w.kind = "text" /\ w.holds = "url" => ~w.bare
      /\ w.kind = "dict" /\ w.key = "secret" => w.item = Placeholder

(* However the manifest is edited, a placeholder never becomes a value of  *)
(* the provider; it gets there only inside a longer text, which nobody but *)
(* an operator wrote.                                                      *)
PlaceholderStays ==
  \A v \in {remote.live, remote.draft} :
    Placeholder \notin Parts[v] /\ (Quote \in Parts[v] => quoted)

(* Of URLs and secrets only those that no test of the code sees leave a    *)
(* provider for the repository, and the placeholders put in their stead    *)
(* never go the other way.                                                 *)
NoSecretTravels == ExportIsClean /\ PlaceholderStays

(* To deploy an export as it is makes live what the export read, for a     *)
(* scenario its draft, with the JSON texts laid out anew, and nothing that *)
(* redact put in or took out.  What was changed there since is lost.       *)
UntouchedExportPutsBack ==
  [][sync.at = "send" /\ sync' = NoSync /\ ~edited =>
       \/ remote' = remote
       \/ remote'.name = sync.name /\ remote'.live = Tidy[sync.raw]]_configVars
=============================================================================
