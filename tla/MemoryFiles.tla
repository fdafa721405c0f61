------------------------------ MODULE MemoryFiles ------------------------------
(***************************************************************************)
(* The memory files of the agents.  MemoryManager (core/memory/manager.py)  *)
(* keeps a list of entries and rewrites its file in place with every one:  *)
(* the text is made first, then the file is opened, which empties it, then *)
(* it is written.  Threads share the list, and the process may stop at any *)
(* step; a file that is no JSON keeps the next process from starting.      *)
(* MichelleAgent (agents/michelle/agent.py) has its tasks in a file of its *)
(* own and in a TaskManager that starts out empty.                         *)
(***************************************************************************)
EXTENDS Naturals, FiniteSets

CONSTANTS
  Writers,     \* threads that call remember
  Entries,     \* entries to remember
  AgentTasks   \* ids MichelleAgent gives its tasks

VARIABLES
  entries,   \* _entries, or Torn in a process that could not load them
  text,      \* the file: a set of entries, or Torn
  writing,   \* per thread: [at, entry, dump]
  saved,     \* history: entries whose remember returned
  crossing,  \* history: two threads were in remember at one time
  crashed,   \* history: the process stopped during a write
  manager,   \* MichelleAgent: TaskManager.tasks, id -> status
  stored,    \* MichelleAgent: MemoryStore.data["tasks"], as it is in the file
  made       \* history: the tasks this process created, and all that any did

memoryVars == <<entries, text, writing, saved, crossing, crashed>>
michelleVars == <<manager, stored, made>>

Torn == {"no JSON"}
Idling == [at |-> "none"]
InWrite(w) == writing[w].at = "write"
Readable == text # Torn

MemoryTypeOK ==
  /\ entries \in (SUBSET Entries) \cup {Torn} /\ saved \subseteq Entries
  /\ text \in (SUBSET Entries) \cup {Torn}
  /\ \A w \in Writers : writing[w].at \in {"none", "dump", "open", "write"}
  /\ crossing \in BOOLEAN /\ crashed \in BOOLEAN
  /\ DOMAIN manager \cup DOMAIN stored \subseteq AgentTasks
  /\ made.here \subseteq made.ever

MemoryInit ==
  /\ entries = {} /\ text = {}
  /\ writing = [w \in Writers |-> Idling]
  /\ saved = {} /\ crossing = FALSE /\ crashed = FALSE
  /\ manager = << >> /\ stored = << >>
  /\ made = [here |-> {}, ever |-> {}]
-----------------------------------------------------------------------------
\* remember appends the entry; a blank one is refused before.
AppendEntry(w, e) ==
  /\ writing[w] = Idling /\ e \notin entries \cup saved /\ entries # Torn
  /\ entries' = entries \cup {e}
  /\ writing' = [writing EXCEPT ![w] = [at |-> "dump", entry |-> e]]
  /\ crossing' = (crossing \/ \E v \in Writers : writing[v] # Idling)
  /\ UNCHANGED <<text, saved, crashed, michelleVars>>

OwnEntrySlip(w) == {writing[w].entry}
\* json.dumps of the list as it is now.
Dump(w) == entries

DumpEntries(w) ==
  /\ writing[w].at = "dump"
  /\ writing' = [writing EXCEPT ![w] = [at |-> "open", entry |-> writing[w].entry, dump |-> Dump(w)]]
  /\ UNCHANGED <<entries, text, saved, crossing, crashed, michelleVars>>

\* write_text opens the file for writing: it is empty, which is no JSON.
OpenFile(w) ==
  /\ writing[w].at = "open"
  /\ text' = Torn
  /\ writing' = [writing EXCEPT ![w].at = "write"]
  /\ UNCHANGED <<entries, saved, crossing, crashed, michelleVars>>

\* The text is written from the start of the file: over one that is longer, and
\* was written since the open, it leaves a rest behind that is no JSON.
WriteFile(w) ==
  /\ writing[w].at = "write"
  /\ text' = IF Readable /\ Cardinality(text) > Cardinality(writing[w].dump)
             THEN Torn ELSE writing[w].dump
  /\ saved' = saved \cup {writing[w].entry}
  /\ writing' = [writing EXCEPT ![w] = Idling]
  /\ UNCHANGED <<entries, crossing, crashed, michelleVars>>

\* The process stops, and another starts with the list of the file; json.loads
\* of a torn one raises, and it never is up.
RestartManager ==
  /\ crashed' = (crashed \/ \E w \in Writers : InWrite(w))
  /\ writing' = [w \in Writers |-> Idling]
  /\ entries' = text
  /\ UNCHANGED <<text, saved, crossing, michelleVars>>

\* MichelleAgent.create_task: the store appends to what the file had.
CreateAgentTask(t) ==
  /\ t \notin made.ever
  /\ manager' = [u \in DOMAIN manager \cup {t} |-> IF u = t THEN "open" ELSE manager[u]]
  /\ stored' = [u \in DOMAIN stored \cup {t} |-> IF u = t THEN "open" ELSE stored[u]]
  /\ made' = [here |-> made.here \cup {t}, ever |-> made.ever \cup {t}]
  /\ UNCHANGED memoryVars

\* The tasks complete_task leaves in the file: those of the TaskManager.
Completed(t) == [manager EXCEPT ![t] = "completed"]

CompleteAgentTask(t) ==
  /\ t \in DOMAIN manager /\ manager[t] = "open"
  /\ manager' = [manager EXCEPT ![t] = "completed"]
  /\ stored' = Completed(t)
  /\ UNCHANGED <<made, memoryVars>>

RestartAgent ==
  /\ manager' = << >>
  /\ made' = [made EXCEPT !.here = {}]
  /\ UNCHANGED <<stored, memoryVars>>

MemoryNext ==
  \/ RestartManager \/ RestartAgent
  \/ \E w \in Writers : \/ DumpEntries(w) \/ OpenFile(w) \/ WriteFile(w)
                        \/ \E e \in Entries : AppendEntry(w, e)
  \/ \E t \in AgentTasks : CreateAgentTask(t) \/ CompleteAgentTask(t)

MemorySpec == MemoryInit /\ [][MemoryNext]_<<memoryVars, michelleVars>>
-----------------------------------------------------------------------------
(* An entry whose remember returned is in the file and stays there, but    *)
(* for a write in progress, one the process died in, and threads that      *)
(* rewrote the file across each other.                                     *)
EntriesAreKept ==
  saved \subseteq text \/ crossing \/ crashed \/ \E w \in Writers : InWrite(w)

(* A task of this process is in Michelle's file; those of an earlier one   *)
(* may be dropped from it, by the first task that is completed.            *)
OwnTasksAreKept == made.here \subseteq DOMAIN stored

(* Both files keep what they were given.                                   *)
MemoryIsKept == EntriesAreKept /\ OwnTasksAreKept
=============================================================================
