# Verification of the Success Brand platform

This directory is a TLA+ development about the Python programs of this repository: the platform API
with its task runtime and services (`core`, `crm`, `callcenter`), its integrations, the Jesse/Jessie
intake API, the agents, and the configuration sync script. They are modelled, model-checked with TLC and, where that is
worth most, proved about with TLAPS. `PROJECT.json` lists the runs, the source lines each definition
translates, the hazards and the theorems.

1. [Inventory](#1-inventory) 2. [Modules](#2-modules) 3. [Runs](#3-runs) 4. [Fairness](#4-fairness)
5. [Proofs](#5-proofs) 6. [Disagreements](#6-where-code-and-documents-disagree)
7. [What is not modelled](#7-what-is-not-modelled) 8. [Plan](#8-plan)

## 1. Inventory

### How the program runs

`core/platform_api.py` is one FastAPI process (`Dockerfile.platform-api`: one `uvicorn`, no worker
option; Cloud Run at most one instance). Its handlers are plain functions, so AnyIO runs them in a
pool of threads: two requests interleave at every database call. Each service opens a SQLAlchemy
session per method. With SQLite and the default driver a `SELECT` takes no lock that outlives it, a
write transaction begins at the first `INSERT`/`UPDATE`, and the unit of work updates only the columns that
differ from what its session loaded. A method that reads a row and commits a new one is therefore two steps
(read, commit), and what it writes may be computed from a row that has changed since. `expire_on_commit=False`
keeps returned objects as they were. A commit may fail ("database is locked").

`agents/jessie/api/main.py` is another FastAPI process. Its handlers are coroutines on one event loop,
so a call of the intake service is one step; requests pass each other while a body is read and while
`get_intake_service`, a plain function, runs in the thread pool. `core/api.py` is a third one, with plain
handlers over lists and dicts in memory: its steps are the operations the interpreter does not cut in two.
The content command, the Jessie command line and `scripts/external_config_sync.py` are commands that an
operator runs and may stop.

### Components

| component | state | operations | hard behaviour | what makes it correct |
|---|---|---|---|---|
| Persistent task queue `core/runtime/queue.py` | `tasks` table | enqueue, claim, complete, fail, depth | read-then-commit from many threads, crash after claim | a task is settled once, tried at most `max_attempts` times, claimed in order, not lost |
| Background worker `core/runtime/worker.py` | one status field, shared | process_once, heartbeat | handler error, `complete`/`fail` error, restart | every running task has somebody running it |
| Runtime scheduler `core/runtime/scheduler.py` | none | due | time passes between enqueue and claim | a scheduled task is picked up once due |
| Scheduling service `core/scheduling.py` | `appointments` table | schedule, reschedule, availability | check and write in two sessions, UTC offsets dropped | no double booking, end after start |
| Google Sheets sandbox `integrations/google_sheets_sandbox`, `GoogleSheetsAdapter` | ledger table, activity table, external Sheet | write_intake, write_lead, status, test_connection | external effect outside the transaction, lost answers, retries, mode changes | one Sheet row, one success per record, ledger and activity tell the truth |
| Jessie intake store `agents/jessie/src` | JSON file, two lists in memory | create_intake, update_status, reads | whole-file rewrite, failed writes, several processes | confirmed intakes are kept, the view is what is saved |
| Jessie API `agents/jessie/api`, `reporting_service.py` | counters, rate windows, feature flags | intake and sandbox routes, summary, security report | requests that pass each other, restarts, a polling dashboard | counters add up, the window is exact, the number shown is one there was |
| Refresh tokens `core/auth.py` | `refresh_tokens` table | login, refresh, logout | two rotations of one token at once, a deployment without its secret | a session is one chain of tokens |
| Startup `core/database/database.py`, `create_app` | schema, `schema_migrations`, `users` | migrate, bootstrap admin | several processes start at once, or are killed between two statements | who serves has a whole schema, a failed start is somebody else's race |
| Connection pool `core/database/database.py` | connections checked out | one session, nested sessions | every thread holds a connection and waits for another | requests end, few status requests block nobody |
| CRM `crm/` | parties, status history, activities, notes, documents | create, update, delete, add | change against change, change against delete | the history is a chain that ends in the status, a deleted party is closed |
| Call center `callcenter/` | calls with a timeline | receive, update, analytics | read-then-commit, seven counts | state, outcome and timeline agree, the analytics add up |
| Persistent memory `core/memory/persistent.py` | `memories` table | remember, conversation, summarize, search | stamps drawn before commits | the past of a conversation stands |
| Agents' memory files `core/memory/manager.py`, `agents/michelle` | JSON files | remember, create_task, complete_task | rewrite in place by threads, stops in a write | what was saved is kept |
| Core API runtime `core/messaging.py`, `agents/ju`, `agents/michelle` | heaps, lists and dicts in memory | send, receive, delegate, create_task, report | threads without a lock, a failure between two stores | messages in order and once, what is told of a task is so |
| Content command `agents/content` | a file, or an object in a bucket | run, archive | stops between write and chmod, a bucket that is reconfigured | a reported batch is whole and closed |
| Rate limits (Sheets router, Jessie API) | window per key | check_limit | boundary of the window, threads | at most n requests a window |
| Sandbox providers `integrations/*_sandbox`, `sandbox_providers.py` | none here, events, drafts and executions there | create, delete, trigger, generic operations | late and lost answers, odd bodies, settings that change | what a client was told agrees with what is at the provider |
| Inbound webhooks of the sandboxes (Twilio, ElevenLabs, n8n) | none | verify a signature, answer | – | – |
| Status adapters `integrations/jesse_status_adapter.py`, `make_adapter.py` | none | get status | requests that fail one by one, odd answers | the status names what failed |
| External configuration sync `scripts/external_config_sync.py` | manifests | export, validate, deploy | recursion over nested data, edits on both sides, a draft next to what is live | what the tests of the code know as a secret or placeholder does not travel; a deploy puts back what was read |
| System monitor, orchestrator, notifications, content system `core/` | none, or one INSERT | snapshot, delegate, send, plan | – | – |
| Deployment gates `agents/jessie/deployment` | none | deploy, rollback | – | production only after every gate |
| Dashboards `src/pages`, workflows, vendored packages | – | – | – | – |

The components talk by direct calls inside one process and by shared tables and files: the
orchestrator enqueues tasks the worker claims; the Sheets sandbox reads CRM leads and the intake
file the Jessie API writes; `/system/status` reads queue, worker and appointments over nested sessions;
the dashboard polls the Jessie API and Make.

## 2. Modules

| module | about |
|---|---|
| `TaskLifecycle` | abstract: what the queue promises of each task, without threads or rows |
| `TaskQueue` | the queue table and the threads of `process_once` |
| `TaskQueueProofs` | theorems about `TaskQueue` |
| `Appointments`, `AppointmentsProofs` | the scheduling service and its theorems |
| `SheetsSandbox`, `SheetsSandboxProofs` | the manual Sheets write with its retries, ledger and activity event, and its theorems |
| `IntakeBook` | abstract: what the intake store promises while one service owns its file |
| `IntakeStore` | the intake service over its JSON file |
| `JessieGate` | the intake API around its store, and the dashboard that polls it |
| `JessieProofs` | theorems about `IntakeStore` and `JessieGate` |
| `AgentsRuntime` | message bus, Ju and Michelle under the threads of `core/api.py` |
| `MemoryFiles` | the memory files of `MemoryManager` and `MichelleAgent` |
| `ContentArchive` | the content pipeline and its two archives |
| `AgentsProofs` | theorems about the last three, and about them next to `IntakeStore` and `JessieGate` |
| `RefreshTokens` | refresh tokens |
| `Startup` | `create_app` on one database file, by several processes |
| `ConnectionPool`, `PoolProofs` | the connections of the engine under single and nested sessions, and its theorem |
| `CRM` | the CRM service over its tables |
| `CallCenter` | the call center over its table |
| `ConversationMemory` | the order of a conversation in the memories table |
| `SheetsRateLimit` | the window of the Sheets router, shared by threads |
| `ProviderSandboxes` | the Calendar, Gmail and n8n sandboxes and the generic operations next to them |
| `ConfigSync` | export, redaction, scan and deploy |
| `MakeStatus` | the three requests of a Make status |
| `ProvidersProofs` | theorems about `SheetsRateLimit`, `ProviderSandboxes`, `MakeStatus` and `ConfigSync`, one part each |
| `PlatformProofs` | theorems about `RefreshTokens`, `CRM`, `CallCenter`, `Startup` and `ConversationMemory`, one part each, and about all ten services next to each other |
| `MCTaskQueue`, `MCAppointments`, `MCSheetsSandbox`, `MCIntakeStore` | one module with a symmetry set, for TLC |
| `MCLive`, `MCPlatform`, `MCAgents` | several modules side by side, for TLC |

Components that do interact are one module: queue, worker and scheduler; the Sheets service, its adapter, its ledger
and its activity events; intake service and storage; the API with its reports and the dashboard; the bus with Ju and
Michelle. Modules that share no table and no variable are checked in one run by a *sum*: a constant `part` says which
one moves and the others stay in an initial state, so that their state spaces add up. A sum checks
neither more nor less than a run of each module; for `MCAgents` and `MCPlatform` a theorem says so (`WholeIsEveryPart`,
`PlatformIsEveryPart`): a behaviour of the sum is a behaviour of each part.

Three conventions hold everywhere.

- **A step is what nothing can cut in two.** A handler is split at every database call: the rows of a
  `SELECT` stay in variables of the thread (`seen...`) and its `UPDATE` is a later step. What the code
  does between two calls belongs to the step before or after it.
- **History variables** (marked `history:` where they are declared: `claims`, `missed`, `raced`, `granted`,
  `acked`, `crossed`, `quiet`, `overlap`, `admitted`, `lost`, `overtook`, `quoted` and others) record what happened and guard nothing. They let a property say *why* a wrong
  state may be there.
- **Slips.** An operator whose name ends in `Slip` is used nowhere. It is the definition below it with the
  mistake one could make there; `PROJECT.json` pairs it with the property that notices.

### TaskQueue

A row of `tasks` is `status`, `attempts`, `outcome` (which of `result` and `error` were written) and
`request` (the columns `enqueue` sets for good). A thread of `/workers/run-once` is `pc`, its local `task`
(`held`) and the row its session read.

| code | action |
|---|---|
| `enqueue`: `created_at` is drawn, INSERT, an error | `Stamp`, `Enqueue`, `EnqueueRaises` |
| `claim`: SELECT, UPDATE, an error | `ClaimRead`, `ClaimCommit`, `ClaimRaises` |
| `process_once`: `status = "running"`, handler returns or raises | `StartHandler`, `HandlerReturns`, `HandlerRaises` |
| `complete`: get, UPDATE, an error inside the `try` | `CompleteRead`, `CompleteCommit`, `CompleteRaises` |
| `fail`: get, UPDATE, an error inside the `except` | `FailRead`, `FailCommit`, `FailRaises` |
| `finally` | `Leave` |
| the process stops and `create_app` runs again | `Restart` |

`Flushed` is the unit of work: the status column is left out of an `UPDATE` when the new value is the one
the session read. It is why a thread can complete a task without its status being written. `created_at` is a
Python default drawn before the `INSERT` commits, so tasks do not become visible in the order of their stamps; `overtook`
remembers which tasks were selected while an earlier one was still on its way. Simplified: all tasks have one `max_attempts`;
titles, payloads and the text of results are left out; the duration is left out.

### Appointments

A datetime is an instant with an offset, and the two of a request may have different ones. The guard on their order
compares instants; the table holds wall clocks (`instant + offset`), which is what SQLite keeps and `conflicts` compares;
`startZone` and `endZone` remember the offsets that were lost. `schedule` is
`CheckSchedule`, `Insert`; `reschedule` is `CheckReschedule`, `Load`, `Update`; either may end by `Abandon`
(its commit raises, or the process stops). A stored datetime is read back naive and never equals an
aware one, so an `UPDATE` with aware datetimes writes both columns and one with naive datetimes only those
that differ from the row read (`Unchanged`). Appointments are never cancelled: no code sets another status.

### SheetsSandbox

`ledger` is the table `google_sheets_sandbox_writes` with its unique constraint, `rows` what Google holds,
`events` the activity rows. A write is `Start` (or `RefuseDuplicate`), then `Append...`, then `Record...`,
then for a lead `Note...`. `AppendRaises(c, lost)` is one transport call that raises, with the row appended
(`lost`) or not; after `max_retries` more calls `append_row` gives up. The database survives a `Restart`,
which may change `GOOGLE_SHEETS_MODE`; on Cloud Run, where the SQLite file is in `/tmp`, the ledger is lost too.
Left out: the rate limit, request ids, the redaction of a row, `status()` and `test_connection()`, and requests
for records that do not exist.

### IntakeStore

The service and its storage each have a list, `records` and `store`, of the records in the file `disk`.
`load_records` hands out the storage's own dicts and `write_records` copies them; `shared` tells which of
the two happened last, which decides whether a failed `update_status` shows up in a later file. A call
is one step (coroutines without `await`); several services may have the file. `_write_atomic` replaces the file by
`os.replace`, so a stopped process leaves the old or the new file; a power failure, against which
nothing calls `fsync`, is not modelled. A process that stops between `os.replace` and its answer is
the success of `Create` followed by `Stop`: the record counts as confirmed although nobody was told, which only
makes the properties stronger.

### JessieGate

`audit_middleware` is `Arrive`, `require_auth` is `Unknown`, `Limited` or `Admit`, and the handler `HandleIntake`,
`HandleSandbox` or `HandleSummary`, each of which answers by `Answer`. Between `Arrive` and `Admit` the body is
read; between `Admit` and the handler `get_intake_service` runs in the thread pool. What an intake write leaves behind is
`IntakeStore`'s; here it is a number that grows or not. `_redact_email` raises on an address without "@", so
`create_intake` may answer 500 where validation would have answered 400; `HandleIntake` allows both.
`/health` is open, passes no window and is counted like any other request (`HandleHealth`); a poll of the dashboard is such a
request and then one for the summary (`PollHealth`, `PollSummary`, `PollUnreached`, `PollGivesUp`). A window belongs to a token, a
client host and a route. The clock is
not set back. A list of times is filtered by age and counted, never read in order, so it is a set of entries `<<time, number>>`;
the number keeps the entries of one moment apart (`AdmissionsAreToldApart`).

### AgentsRuntime, MemoryFiles, ContentArchive

A request of `core/api.py` is its list or dict operations in order: `CreateTask`, `AttachTask`, `DrawNumber`, `PushMessage`,
`Escalate` for Michelle; `Delegate`, `DrawNumber`, `PushMessage`, `Remember` for Ju; `LookInQueue`, `PopMessage` for a
receiver; `StartReport`, three `ReportPart`s, `EndReport` for a status. `MemoryManager._save` is `DumpEntries`, `OpenFile`
(the file is empty), `WriteFile`; a later write of a shorter text over a longer one leaves a torn file. A content run is
`RunPipeline`, then `MakeDirectory` (closed to others from the start), `OpenLocal`, `WriteLocal`, `ChmodLocal` or `CheckBucket`,
`Upload`; `Kill` stops it anywhere.

### The services of the platform

`RefreshTokens`, `CRM` and `CallCenter` follow the scheme of the queue: a read with the row kept in the thread, a
commit that writes the columns that differ. A row remembers how many rows there were when the request that wrote it did its
read (`known`), so that a property can say whether two requests overlapped. `Startup` has a statement of `create_all`
per step, since SQLite commits each. `ConnectionPool` knows only when a request takes and gives back a
connection (`StatusPlan`, `PlainPlan`). `ConversationMemory` splits `remember` at its flush and its commit.
`SheetsRateLimit` takes every deque operation as a step; `admitted` is the sequence of the times it let through. `ProviderSandboxes` follows a request through
the settings (`Course`) to one call of the provider, which may act on it late, and whose answer may be lost or have a body the code cannot
read; a generic operation (`ExecuteGeneric`) never calls. Requests are told apart whatever their `X-Request-ID` says, since nothing
looks at it.

`ConfigSync` works on values that are texts, dicts with plain or secret-like keys, and texts that hold JSON. A text is known by what it
holds (a URL, a placeholder, neither) and by whether the tests of the code see it there (`bare`): a URL after a space, inside a
sentence or inside a JSON-encoded string is one that they do not see. A JSON text is laid out as `json.dumps` would or not (`tidy`), and `redact`
leaves it tidy. A scenario has a draft next to what is live: `export` reads the draft, `deploy` changes both or only what is live. `redact` and
`_scan` are recursive functions on these values, each given by its body with the calls it makes as a parameter (`RedactOnce`, `ScanOnce`). Left
out: duplicate keys of a JSON object, lists (they read like a dict under a plain key), and which key names the pattern knows as secret-like.

`Startup` lets each start find the bootstrap variables unset, a password that `create_user` refuses, or a good one, and has the `POST /users` of
a process that serves (`AddUser`). `MakeStatus` works on which of three requests failed, while the sum over the last five executions goes up
and down.

## 3. Runs

All runs are exhaustive. Sizes are in the `.cfg` files.

| run | shows | why the bounds are enough |
|---|---|---|
| `queue_threads` | two threads over two tasks, two tries, one error or crash: a running row always has somebody working on it or was lost to the fault; no task fails early; a completed one has a result; the status field never says busy when no one is | two threads give every stale read, two tries both branches of `fail`, one fault each error path |
| `queue_serial` | one thread, two owners, two priorities, scheduled tasks, one fault: refinement of `TaskLifecycle`, claims keep the order of the stamps but for tasks that became visible late | every clause of the `SELECT` decides in some state |
| `queue_live` | two tries, no fault, two threads over one task or one thread over two: each task settles for good, each due task is picked up; and three requests on a pool of two connections: each ends, and they block each other only when status requests hold the pool | with two tries a retry meets a row whose tries are used up, and one task is enough for the race of two threads; two status requests are enough to take the pool, the third request is their victim |
| `queue_settled_race` (violation) | a completed task becomes running again | the shortest race of two threads |
| `queue_crash` (violation) | a task is left running for ever by one restart | one task, one thread, one restart |
| `booking_race`, `booking_offset` (violations) | double booking by a race; by two UTC offsets one request at a time | |
| `sheets_threads` | two threads, a lead and an intake, all modes, restarts, two retries: one success per record; the ledger, the Sheet and the answers agree but for excused records; every request is answered | `MaxRows` and `MaxEvents` only stop new requests for a record that already has a surplus row or event |
| `sheets_disabled` (violation) | an activity event for a write that was refused | |
| `platform_services` | a sum of ten modules, below | below |
| `jessie_agents` | a sum of five modules, below | below |
| `intake_two` (violation) | two services erase each other's intakes | |

Parts of `platform_services` (some 606,000 states, two minutes):

| part | shows | bounds |
|---|---|---|
| `Appointments` | overlaps come only from races, an end before its start only from a race or from two offsets in one request (`WrongOnlyByRaceOrOffsets`) | three instants give touching, nested and crossing intervals; naive and aware datetimes, with one offset and with two |
| `RefreshTokens` | a token has two successors only when two rotations overlapped; a session is passed on or ended (`SessionIsOneChain`) | two requests, three rows: a fork and a row before it |
| `Startup` | who serves has the schema and its version, and a user unless the bootstrap variables are unset; a start that fails had a rival or a short password; rivals do not all fail; two users of one name take a table without its index, two starts and a `POST /users` or three starts (`StartsAreSafe`) | three processes, one kill or restart, three users |
| `CRM` | the history ends in the status and is a chain but for overlaps (`HistoryIsChain`); nothing is added to a deleted party but by requests that had found it (`DeletedPartyIsClosed`) | three threads on one party (parties do not interact), four rows |
| `CallCenter` | only crossing updates tear a call or lose an event; analytics add up when nothing moves (`CallDamagedOnlyByOverlap`, `AnalyticsAddUp`) | two threads, two updates of one call |
| `ConversationMemory` | a reader finds what it was answered before as a prefix, unless commits came out of order (`PastStands`) | three rows, three moments |
| `SheetsRateLimit` | the limit holds unless two threads were in `check_limit` at once (`ExcessOnlyByOverlap`) | two threads, a limit of two, a clock of twice the window and more |
| `ProviderSandboxes` | what a client was told was made or deleted was, what it was told was refused or a mock never is; no two requests are told they deleted one event (`AnswersMatchProvider`) | the one provider that can delete (they do not interact), a create with two requests after it |
| `ConfigSync` | of URLs and secrets only those that no test of the code sees are exported, and no placeholder becomes a value of the provider (`NoSecretTravels`); to deploy an untouched export makes live what was read, up to the layout of JSON (`UntouchedExportPutsBack`) | values nested three deep through JSON in a text; one edit on either side |
| `MakeStatus` | the status names the first request that failed, and a count was true while it was asked for (`StatusNamesFailure`) | sums up to three |

Parts of `jessie_agents` (some 600,000 states, two minutes):

| part | shows | bounds |
|---|---|---|
| `IntakeStore` | one service, failing writes, restarts: confirmed intakes are kept, the view is what is saved, refinement of `IntakeBook` | three intakes give a create over a failed create and an update between them |
| `JessieGate` | the window of a token, host and route is exact, also at its end (`LimitIsExact`); counters, answers and requests in progress add up at every moment, and the dashboard shows a number of its own time (`NumbersAreTrue`) | two connections, three requests, a limit of one in two seconds, one restart |
| `AgentsRuntime` | messages are received once and never overtaken, an empty pop had a rival (`MailInOrder`); what is told of tasks and reports is so (`TalesAreTrue`) | two threads, two items |
| `MemoryFiles` | what was saved is kept but for crossing writes and stops in a write (`MemoryIsKept`) | two threads, three entries, two tasks |
| `ContentArchive` | a reported batch is whole; others can read a batch at no moment and after no stop, unless its bucket was opened since the run looked (`ArchiveIsSound`) | two runs, counts one off each other |

`CHECK_DEADLOCK FALSE` stands where a system may come to rest: when every task is settled and
the clock is at its bound, when every appointment is booked, or when every record has its ledger row.

## 4. Fairness

`TaskQueue!Fairness`: weak fairness of `Step(w)` says that a thread of the pool keeps running the
code it is in, and that a handler returns or raises; weak fairness of `ClaimRead(w, AnyOwner)` that somebody
keeps posting `/workers/run-once` without an owner, which is how the worker is driven (`docs/platform/runtime.md`);
`Tick` that time passes. Nobody has to enqueue, and no fault or restart has to happen. With
`MaxFaults = 0` the liveness holds; `queue_crash` shows that one restart is enough to lose it under the same
fairness. `SheetsSandbox!FairSpec`: weak fairness of `Step(c)`, a thread keeps serving its request;
nothing is assumed of the transport, which may fail every time, and no request has to start.
`ConnectionPool!PoolFairness`: a thread that has a connection goes on to give it back, and one that waits is given one or
the pool's timer runs out (`pool_timeout`, 30 seconds by default); no request has to arrive. Without the timer
`RequestsEnd` is lost, which is what the mutant of that property shows.

## 5. Proofs

Every theorem is for all values of the constants that satisfy the named assumption of its module
(`ConstantsAssumption`, `AppointmentsAssumption`, `SheetsAssumption`, `IntakeAssumption`, `GateAssumption`,
`RuntimeAssumption`, `PoolAssumption`, `TokensAssumption`, `CrmAssumption`, `CallAssumption`, `StartupAssumption`,
`ConversationAssumption`, `LimitAssumption`, `MaxOperationsAssumption`, `ArchiveAssumption`), which TLC evaluates in every run that extends the module.
The assumptions give bounds and limits their range and name members of the sets (such as `"none" \in CallOutcomes`). None says that
a set of threads, records or callers is finite: where a proof counts, it shows that what it counts is finite at every moment.
The theorems hold with any number of threads unless they say otherwise. The shape is the same everywhere: an inductive
invariant, a lemma per action (or kind of action) that the action keeps it, and the property as its consequence.

| theorem | statement | argument |
|---|---|---|
| `TypeCorrect`, `RunningIsAlwaysHeld`, `FailureIsNeverPremature`, `CompletionHasResult` | type, `RunningIsHeld`, `NoPrematureFailure`, `CompletedHasResult` of `TaskQueue` | `QueueInv` |
| `ClaimsKeepOrder` | `FirstComeFirstServed`: an earlier task of the owner, no less urgent and no later due, is claimed first, unless a thread selected the later one before the `INSERT` of the earlier was committed | `QueueInv` and `OrderKept`: a selected task precedes every claimable one of its owner that is still unclaimed, and what was on its way is in `overtook` |
| `BusyReportIsAlwaysTrue` | `BusyReportIsTrue` | inductive with the stages |
| `SerialRefinement` | with one thread, `Spec => ImplementsLifecycle` | `SerialInv`: what the thread read is what the row says |
| `DoubleBookingNeedsRace` | `WrongOnlyByRaceOrOffsets`: overlaps have a race behind them, inversions a race or two offsets in one request | `CheckInv` |
| `SerialBookIsSound` | one request at a time and one offset in all requests: no double booking on the wall clock or in reality, and every end after its start | the theorem above, that one thread misses nothing, and that a row has offsets somebody asked for (`ZonesAreAsked`) |
| `SuccessIsGrantedOnce`, `AnswersStayTrue` | one success per record; what was answered stays true of the ledger | `GrantInv` |
| `DuplicatesAreExcused` | `DuplicateRowIsExcused`: a record is in the Sheet twice only after a race, a lost answer or a request cut short | `UnexcusedInv`, `WrittenInv` |
| `LedgerIsBackedBySheet` | `SheetMatchesLedger`: what the ledger calls written is in the Sheet, and a row it does not know of is being written or was left by a failure | the same two |
| `StoreIsBook`, `ConfirmedIntakesAreKept`, `ShownIntakesAreSaved` | one service: `Spec => ImplementsBook`; confirmed intakes are kept; `ViewIsSaved` | `ListInv` |
| `NumbersAreAlwaysTrue` | `NumbersAreTrue` of `JessieGate` | `CountInv` |
| `LimitIsAlwaysExact`, `AdmissionsAreToldApart` | `LimitIsExact`, and that an admission is an entry no list had | `WindowInv` |
| `MailIsAlwaysInOrder`, `TalesAreAlwaysTrue`, `AgentsTypes` | `MailInOrder`, `TalesAreTrue`, `AgentsTypeOK` of `AgentsRuntime` | `RuntimeInv` |
| `MemoryIsAlwaysKept` | `MemoryIsKept` and the types of `MemoryFiles` | `MemoryInv` |
| `ArchiveIsAlwaysSound` | `ArchiveIsSound` and the types of `ContentArchive` | `ArchiveInv` |
| `WholeIsEveryPart`, `WholeKeepsItsTypes` | a behaviour of `MCAgents` is one of each of its five parts; `TypesOK` | the parts share no variable; the type theorem of each |
| `SessionStaysOneChain` | `SessionIsOneChain` of `RefreshTokens` | `TokensInv` |
| `StallAlwaysTakesAll` | `StallTakesAllConnections` of `ConnectionPool` | `PoolInv` |
| `HistoryIsAlwaysChain` | `HistoryIsChain` of `CRM` | `CrmInv` |
| `DeletedPartiesStayClosed` | the action property `DeletedPartyIsClosed` | from `CrmInv`, action by action |
| `CallsKeepTheirTimeline` | `CallDamagedOnlyByOverlap` of `CallCenter` | `CallInv` |
| `AnalyticsAlwaysAddUp` | `AnalyticsAddUp` of `CallCenter` | `TallyInv` |
| `StartsAreAlwaysSafe` | `StartsAreSafe` of `Startup` | `StartInv` |
| `PastAlwaysStands` | the action property `PastStands` of `ConversationMemory` | `ConversationInv` |
| `ExcessAlwaysNeedsOverlap` | `ExcessOnlyByOverlap` of `SheetsRateLimit` | `LimitInv` |
| `AnswersAlwaysMatch` | `AnswersMatchProvider` of `ProviderSandboxes` | `SandboxInv` |
| `StatusAlwaysNamesFailure` | `StatusNamesFailure` of `MakeStatus` | `MakeInv` |
| `NoSecretEverTravels`, `UntouchedExportAlwaysPutsBack` | `NoSecretTravels` and the action property `UntouchedExportPutsBack` of `ConfigSync` | `ConfigInv` and five lemmas about `redact` and `_scan` |
| `PlatformIsEveryPart`, `PlatformKeepsItsTypes` | a behaviour of `MCPlatform` is one of each of its ten parts; `TypesOK` | the parts share no variable; the type theorem of each |
| `...TypeCorrect` | the type invariant of each of the other modules but `SheetsSandbox` and `ConnectionPool` (part of their invariants) | with the invariants above |

Why the strengthenings are needed:

- `QueueInv`. `RunningIsHeld` alone does not survive a commit: a thread could end its try without writing the
  status column because the row it read already said what it wants to write. `RunningWillSettle` adds that
  *some* thread at work on a running row, if it is about to write, has read "running". `NoPrematureFailure` needs
  `CountsLag`: however many increments are lost, the counts in rows and sessions are at most the number of claims.
- `CheckInv`. When a thread has passed its conflict check, it knows that its interval is clear of every row it
  has not `missed`; a row written since is in `missed`. So what it writes is clear of every row outside `raced`.
- `GrantInv`. A thread that is about to note a success is the only one of its record and nobody was
  granted yet, because the unique constraint let only its `INSERT` through.
- `UnexcusedInv`. While a record is not excused at most one thread writes it, and the row it appended is the
  only one.
- `ListInv`. Both lists in memory differ from the file only by writes that failed since the last success.
- `CountInv`. The counter of requests is ahead of the answers by the requests in progress, a finite set (`ReportsAddUp`), and
  a poll that goes on began with no more intakes than there are now (`PollIsSound`).
- `WindowInv`. The list of a key and the history of its admissions agree on what is in the window, whatever each of them
  dropped before; the entries of one moment are numbered without a gap, so the next number is a new one.
- `RuntimeInv`. An item is with one thread, in its recipient's queue or received, and in one place only (`HeldOnce`,
  `QueuedOnce`, `ReceivedOnce`). That messages are not overtaken needs `NumbersFollow`: whatever was queued before an item was
  numbered has a lower number or is received, although a number is drawn before the message is pushed. That
  an empty pop had a rival needs both threads of a pair to know of each other (`PopInv`).
- `MemoryInv`. While no two writes crossed and none was cut off, one thread at most is in `_save`, and what it is going to write
  contains all that was saved.
- `ArchiveInv`. What each place of a run says of the object it leaves: in its closed directory before the file is there,
  whole before it is reported, not whole before its upload.
- `CrmInv`. A commit continues the chain because what its request read was a row there was then (`ReadIsARow`), and the
  history knows how many rows there were: a row added since makes the request one that overlapped.
- `TokensInv`. A rotation that found its token valid knows that no row of that moment came from it, since a row with a
  successor is revoked (`ParentIsRevoked`); so a first successor that is older than the read cannot exist
  (`ReadBeforeRotation`). `SessionIsPassedOn` speaks of tokens a client holds and is not inductive, because an
  answer hands out a token that may have been revoked by then; `RevokedForCause` says it of every row.
- `CallInv`. An update whose count of commits is still the present one has read the row as it is (`ReadAgrees`), so
  what it writes agrees with the event it appends.
- `TallyInv`. As long as no call changed, each count made so far is the number of rows that match its condition now; the sums
  follow because the conditions exclude or contain each other.
- `StartInv`. Each thing in the schema says what came before it, and who made the newest one goes on (`MakerGoesOn`), so
  one start in a group gets through unless a password is short. Two users of one name take their number of starts because every
  process that may still insert before the index is there is a start of its own next to that of the table's maker
  (`StartsAreCounted`, an inequality of cardinalities that each step keeps; only users of the bootstrap count in it).
- `ConversationInv`. While every commit came after the stamps before it, the rows have different stamps and whatever a reader did not
  see is later than all it saw. So two sorted answers agree as far as the first one goes: the place of a row is the number of rows not later
  than it (`PlaceInOrder`).
- `LimitInv`. While requests come one at a time the deque is the end of the history of admissions, and what it dropped had left the
  window; so an admission and the one `Limit` places before it are never in one window (`OneAtATime`). A window then has at most
  `Limit` of them, counted from its earliest one (`WindowHasLimit`).
- `SandboxInv`. What each place of a request says of the provider (`RequestIs`): nothing of it is there before the call, and once it was
  served its write is. At most one request is served or told for a deletion (`OneDeletes`), and what is gone has a request that asked
  for it (`GoneByRequest`).
- `ConfigInv`. What a command carries, and a file nobody edited, is the redacted form of what was read (`CarriedIsChecked`), a payload on
  its way to the provider passed the scan, and a text with a placeholder inside was written by an operator (`QuotesAreWritten`). About the
  functions on values: what `redact` returns is a value (`RedactedIsValue`) without a URL or secret that it would see
  (`RedactedIsClean`), and it brings no placeholder inside a text (`RedactAddsNoQuote`); what the scan passes holds no bare
  placeholder (`ScannedIsFilled`), and where `redact` changed more than the layout the scan objects (`ScannedIsUnchanged`), which is why a deploy of
  an untouched export puts back what was read. They go by induction over how deep a value is nested (`ValueInduction`); that a recursive
  function is what its body says needs a proof of its own (`RedactIsDefined` and the three like it).
- `MakeInv`. What is in progress knows of no failure before it asked for the logs, and of at most that one after; its count is one of
  `during` (`ResultSoFar`).
- `PoolInv`. An account of the connections: free ones, first ones of a request and second ones add up to the pool. When nobody can go on,
  nothing is free and who waits is a status request with one in hand; the two counts give the stall its size.

Three models were changed to be reasoned about, and say the same of the code: `redact` and `_scan` in `ConfigSync` are recursive
functions where they were recursive operators, the window lists of `JessieGate` are sets of entries, because
the prover has no facts about `SelectSeq`, and the history of `SheetsRateLimit` is a sequence. `Startup` names the two groups of
statements of `create_all`, and `SheetsSandbox`, `Startup` and others have a specification of their own where only a composition had one.

Only model-checked: liveness (`EventuallySettled`, `DueIsPickedUp`, `EveryRequestEnds`, `RequestsEnd`), which is out of the prover's reach.

Every safety property that a passing run checks is a theorem. What `redact` and `_scan` compute is proved for the values of the model,
which reach down to a leaf in a dict in a text in a dict, and not for any depth: that would be an induction over data.

## 6. Where code and documents disagree

Each `violation` run is one disagreement; `PROJECT.json` quotes the line. More were met while modelling and are not
kept as runs of their own; the properties of the passing runs say exactly how far each goes:

- a lost increment of `attempts` lets a task be tried more than `max_attempts` times (the race of `queue_settled_race`);
- two reschedules with naive datetimes leave one start and the other end, and one request alone does it when its datetimes have
  different offsets (10:00+02:00 to 09:30+00:00 is in order, its wall clocks are not; `InvertedOnlyByRaceOrOffsets` allows exactly these);
- a task whose `created_at` is earlier is claimed later when its `INSERT` commits after a thread looked (`overtook`);
- an append whose answer is lost is repeated, and the Sheet has the record twice (`excused` in `SheetsSandbox`);
- a recorded failure refuses every later attempt with "already written" (`AlreadyWritten` looks at any row);
- the platform loads the intake file once and never sees an intake confirmed later;
- two rotations of one refresh token that overlap both succeed, and a rotation without a signing secret uses up the
  token it was given (`SessionIsOneChain`);
- two status changes or two call updates that overlap leave a broken history or a call that lacks an event
  (`HistoryIsChain`, `CallDamagedOnlyByOverlap`); a note may be added to a party that was just deleted;
- enough `/system/status` requests at once take every connection and wait for one another until the pool gives up (`ConnectionPool`);
- an intake with an address without "@" is answered with 500 and not 400, since the line that logs the refusal
  (`agents/jessie/api/main.py:315`) splits the address before the 400 is raised;
- `redact` promises to take out "credentials and outbound URLs, including JSON encoded as strings" (`scripts/external_config_sync.py:85`);
  a URL that does not begin its text, or is inside a JSON text that is itself a string, gets through it and through the scan
  (`ExportIsClean` says which ones do not);
- `deploy` of an untouched export can make a draft live, because the blueprint was read with `draft=true`; it changes the layout of JSON texts
  and takes back whatever was edited at the provider since (`UntouchedExportPutsBack`);
- the provider routers read an `X-Request-ID` (with a constant default), but nothing looks at it: a request that is sent twice writes twice;
- a provider's 2xx with a body of another shape is answered 500 after the write (`Receive`);
- `make_adapter.py` promises an "error" state "instead of raising" (its line 7), but an answer that is JSON of an
  unexpected shape raises (`OddShape`);
- a task for a blank project is refused after it was stored: no project has it and its owner is not told.

## 7. What is not modelled

`PROJECT.json` lists every component with its status and reason.

- Without state of their own: the orchestrator (it looks up an owner and enqueues, which `TaskQueue` models), the
  deployment gates (each is one condition of one call), the shells around the agents (routers, events, prompts).
- One `INSERT`, or a computation of its arguments: notifications, the content system of `core`.
- Without state at all: the inbound webhooks of the sandboxes, each one signature check and one answer.
- Static: dashboards, workflows, vendored packages.
- Reads that compute and change nothing: searches and their ranking, lists, availability, the counts of the system
  monitor, the business reports but for their number of intakes.
- Of the modelled components: wording, redaction of log lines, how a password or a signature is hashed, payloads of
  providers. The clock is never set back, disks do not lose what was written, and the interpreter's single operations on lists
  and dicts are atomic.

## 8. Plan

Done, in this order: the queue (the heart of the platform), scheduling (the other shared table users write), the Sheets
sandbox (the only external effect), the intake store (the only file of record); then tokens, startup, connection pool,
CRM, call center, conversations, the core API runtime, the agents' files, the gate of the Jessie API with its dashboard,
the provider sandboxes, the status adapters and the configuration sync; then proofs of every safety property that a passing run checks. To come:

1. Refinement of the serial `Appointments` to an abstract calendar, and of the serial `SheetsSandbox` to an abstract ledger, as
   `SerialRefinement` does for the queue.
2. Composition of `TaskQueue` with the connection pool (a worker's `complete` that finds no connection), and of
   `SheetsSandbox` with the CRM's deletion of the lead it writes.
