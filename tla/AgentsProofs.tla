------------------------------ MODULE AgentsProofs ------------------------------
(***************************************************************************)
(* Theorems about the parts of the agents, for any number of threads,      *)
(* messages, entries and runs: the memory files, the content archive, and  *)
(* the message bus with Ju and Michelle; and about the parts together, with *)
(* Jessie's.                                                               *)
(***************************************************************************)
EXTENDS MCAgents, JessieProofs, TLAPS, FiniteSetTheorems, SequenceTheorems

-----------------------------------------------------------------------------
(* The memory files                                                        *)

\* Unless writes crossed or one was cut off, one thread at most is in
\* remember, what it will write has all that was saved, and the file is empty
\* exactly while it is being written.
OneWriter ==
  \A v, w \in Writers : writing[v] # Idling /\ writing[w] # Idling => v = w
WriteIsComplete ==
  \A w \in Writers :
    /\ writing[w].at # "none" => writing[w].entry \in entries
    /\ writing[w].at \in {"open", "write"} => saved \cup {writing[w].entry} \subseteq writing[w].dump
    /\ InWrite(w) => text = Torn
FileInv ==
  crossing \/ crashed \/ /\ OneWriter /\ WriteIsComplete /\ saved \subseteq entries
                         /\ saved \subseteq text \/ \E w \in Writers : InWrite(w)

\* What a thread in remember holds.
Held == [at : {"dump"}, entry : Entries]
          \cup [at : {"open", "write"}, entry : Entries, dump : (SUBSET Entries) \cup {Torn}]
WriterTypes ==
  /\ DOMAIN writing = Writers
  /\ \A w \in Writers : writing[w] = Idling \/ writing[w] \in Held

\* A task of this process is known to its TaskManager and is in the file.
TaskInv ==
  /\ made.here \subseteq DOMAIN manager /\ made.here \subseteq DOMAIN stored
  /\ DOMAIN manager \subseteq AgentTasks /\ DOMAIN stored \subseteq AgentTasks
  /\ made.here \subseteq made.ever

MemoryInv == MemoryTypeOK /\ WriterTypes /\ FileInv /\ TaskInv

\* At first the files are empty and nobody is writing.
LEMMA MemoryInitInv == MemoryInit => MemoryInv
<1> SUFFICES ASSUME MemoryInit PROVE MemoryInv
  OBVIOUS
<1>1. DOMAIN manager = {} /\ DOMAIN stored = {} /\ made.here = {} /\ made.ever = {}
  BY DEF MemoryInit
<1>2. MemoryTypeOK /\ TaskInv
  BY <1>1 DEF MemoryInit, MemoryTypeOK, TaskInv, Idling
<1>3. WriterTypes /\ FileInv
  BY DEF MemoryInit, WriterTypes, FileInv, OneWriter, WriteIsComplete, Idling, InWrite
<1> QED
  BY <1>2, <1>3 DEF MemoryInv

\* Every step of the memory files keeps what each writer is about to save complete.
LEMMA MemoryStep == MemoryInv /\ [MemoryNext]_<<memoryVars, michelleVars>> => MemoryInv'
<1> SUFFICES ASSUME MemoryInv, [MemoryNext]_<<memoryVars, michelleVars>>
             PROVE  MemoryInv'
  OBVIOUS
<1> USE DEF MemoryInv
<1>1. ASSUME NEW w \in Writers, NEW e \in Entries, AppendEntry(w, e)
      PROVE  MemoryInv'
  <2>1. /\ writing'[w] = [at |-> "dump", entry |-> e] /\ writing[w] = Idling
        /\ \A v \in Writers : v # w => writing'[v] = writing[v]
        /\ DOMAIN writing' = Writers
        /\ entries' = entries \cup {e} /\ entries # Torn
        /\ crossing' = (crossing \/ \E v \in Writers : writing[v] # Idling)
        /\ UNCHANGED <<text, saved, crashed, michelleVars>>
    BY <1>1 DEF AppendEntry, WriterTypes
  <2>2. WriterTypes'
    BY <2>1 DEF WriterTypes, Held, Idling
  <2>3. MemoryTypeOK'
    BY <2>1 DEF MemoryTypeOK, WriterTypes, michelleVars
  <2>4. CASE crossing' \/ crashed'
    BY <2>1, <2>2, <2>3, <2>4 DEF FileInv, TaskInv, michelleVars
  <2>5. CASE ~crossing' /\ ~crashed'
    <3>1. /\ \A v \in Writers : writing[v] = Idling
          /\ crossing \in BOOLEAN /\ saved \subseteq entries /\ saved \subseteq text
      <4>1. crossing \in BOOLEAN
        BY DEF MemoryTypeOK
      <4>2. ~crossing /\ ~crashed /\ \A v \in Writers : writing[v] = Idling
        BY <2>1, <2>5, <4>1
      <4> QED
        BY <4>1, <4>2 DEF FileInv, InWrite, Idling
    <3>2. OneWriter' /\ WriteIsComplete'
      BY <2>1, <3>1 DEF OneWriter, WriteIsComplete, InWrite, Idling
    <3> QED
      BY <2>1, <2>2, <2>3, <3>1, <3>2 DEF FileInv, TaskInv, michelleVars
  <2> QED
    BY <2>4, <2>5
<1>2. ASSUME NEW w \in Writers, DumpEntries(w)
      PROVE  MemoryInv'
  <2>1. /\ writing[w].at = "dump"
        /\ writing'[w] = [at |-> "open", entry |-> writing[w].entry, dump |-> entries]
        /\ \A v \in Writers : v # w => writing'[v] = writing[v]
        /\ DOMAIN writing' = Writers
        /\ UNCHANGED <<entries, text, saved, crossing, crashed, michelleVars>>
    BY <1>2 DEF DumpEntries, Dump, WriterTypes
  <2>2. WriterTypes'
    BY <2>1 DEF WriterTypes, Held, MemoryTypeOK, Idling
  <2>3. MemoryTypeOK'
    BY <2>1 DEF MemoryTypeOK, WriterTypes, michelleVars
  <2>4. FileInv'
    <3> SUFFICES ASSUME ~crossing, ~crashed PROVE FileInv'
      BY <2>1 DEF FileInv
    <3>1. OneWriter /\ WriteIsComplete /\ saved \subseteq entries
      BY DEF FileInv
    <3>2. OneWriter'
      BY <2>1, <3>1 DEF OneWriter, WriterTypes, Held, Idling
    <3>3. WriteIsComplete'
      BY <2>1, <3>1 DEF WriteIsComplete, InWrite
    <3>4. saved \subseteq text \/ \E v \in Writers : InWrite(v)'
      BY <2>1 DEF FileInv, InWrite
    <3> QED
      BY <2>1, <3>1, <3>2, <3>3, <3>4 DEF FileInv
  <2> QED
    BY <2>1, <2>2, <2>3, <2>4 DEF TaskInv, michelleVars
<1>3. ASSUME NEW w \in Writers, OpenFile(w)
      PROVE  MemoryInv'
  <2>1. /\ writing[w].at = "open" /\ text' = Torn
        /\ writing' = [writing EXCEPT ![w].at = "write"]
        /\ UNCHANGED <<entries, saved, crossing, crashed, michelleVars>>
    BY <1>3 DEF OpenFile
  <2>2. /\ \A v \in Writers : v # w => writing'[v] = writing[v]
        /\ DOMAIN writing' = Writers
        /\ writing'[w].entry = writing[w].entry /\ writing'[w].dump = writing[w].dump
    BY <2>1 DEF WriterTypes
  <2>3. writing'[w].at = "write"
    BY <2>1 DEF WriterTypes, Held, Idling
  <2>4. WriterTypes'
    BY <2>1, <2>2, <2>3 DEF WriterTypes, Held, Idling
  <2>5. MemoryTypeOK'
    BY <2>1, <2>2, <2>3 DEF MemoryTypeOK, michelleVars
  <2>6. FileInv'
    <3> SUFFICES ASSUME ~crossing, ~crashed PROVE FileInv'
      BY <2>1 DEF FileInv
    <3>1. OneWriter /\ WriteIsComplete /\ saved \subseteq entries
      BY DEF FileInv
    <3>2. OneWriter'
      BY <2>1, <2>2, <3>1 DEF OneWriter, WriterTypes, Held, Idling
    <3>3. WriteIsComplete'
      BY <2>1, <2>2, <2>3, <3>1 DEF WriteIsComplete, InWrite
    <3> QED
      BY <2>1, <2>3, <3>1, <3>2, <3>3 DEF FileInv, InWrite
  <2> QED
    BY <2>1, <2>4, <2>5, <2>6 DEF TaskInv, michelleVars
<1>4. ASSUME NEW w \in Writers, WriteFile(w)
      PROVE  MemoryInv'
  <2>1. /\ writing[w].at = "write" /\ writing'[w] = Idling
        /\ text' = Torn \/ text' = writing[w].dump
        /\ text = Torn => text' = writing[w].dump
        /\ saved' = saved \cup {writing[w].entry}
        /\ \A v \in Writers : v # w => writing'[v] = writing[v]
        /\ DOMAIN writing' = Writers
        /\ UNCHANGED <<entries, crossing, crashed, michelleVars>>
    BY <1>4 DEF WriteFile, Readable, WriterTypes
  <2>2. WriterTypes'
    BY <2>1 DEF WriterTypes, Held, Idling
  <2>3. writing[w].entry \in Entries /\ writing[w].dump \in (SUBSET Entries) \cup {Torn}
    BY <2>1 DEF WriterTypes, Held, Idling
  <2>4. text' \in (SUBSET Entries) \cup {Torn} /\ saved' \subseteq Entries
    BY <2>1, <2>3 DEF MemoryTypeOK
  <2>5. MemoryTypeOK'
    <3>1. \A v \in Writers : writing'[v].at \in {"none", "dump", "open", "write"}
      BY <2>1 DEF MemoryTypeOK, Idling
    <3> QED
      BY <2>1, <2>4, <3>1 DEF MemoryTypeOK, michelleVars
  <2>6. FileInv'
    <3> SUFFICES ASSUME ~crossing, ~crashed PROVE FileInv'
      BY <2>1 DEF FileInv
    <3>1. OneWriter /\ WriteIsComplete /\ saved \subseteq entries
      BY DEF FileInv
    <3>2. text = Torn /\ saved' \subseteq writing[w].dump
      BY <2>1, <3>1 DEF WriteIsComplete, InWrite
    <3>3. \A v \in Writers : writing'[v] = Idling
      BY <2>1, <3>1 DEF OneWriter, WriterTypes, Held, Idling
    <3>4. OneWriter' /\ WriteIsComplete'
      BY <3>3 DEF OneWriter, WriteIsComplete, InWrite, Idling
    <3>5. saved' \subseteq text' /\ saved' \subseteq entries'
      BY <2>1, <3>1, <3>2 DEF WriteIsComplete
    <3> QED
      BY <2>1, <3>4, <3>5 DEF FileInv
  <2> QED
    BY <2>1, <2>2, <2>5, <2>6 DEF TaskInv, michelleVars
<1>5. CASE RestartManager
  BY <1>5 DEF RestartManager, MemoryTypeOK, WriterTypes, FileInv, OneWriter, WriteIsComplete, InWrite,
              TaskInv, Idling, michelleVars
<1>6. ASSUME NEW t \in AgentTasks, CreateAgentTask(t)
      PROVE  MemoryInv'
  BY <1>6 DEF CreateAgentTask, MemoryTypeOK, WriterTypes, FileInv, OneWriter, WriteIsComplete, InWrite,
              TaskInv, memoryVars
<1>7. ASSUME NEW t \in AgentTasks, CompleteAgentTask(t)
      PROVE  MemoryInv'
  BY <1>7 DEF CompleteAgentTask, Completed, MemoryTypeOK, WriterTypes, FileInv, OneWriter, WriteIsComplete,
              InWrite, TaskInv, memoryVars
<1>8. CASE RestartAgent
  BY <1>8 DEF RestartAgent, MemoryTypeOK, WriterTypes, FileInv, OneWriter, WriteIsComplete,
              InWrite, TaskInv, memoryVars
<1>9. CASE UNCHANGED <<memoryVars, michelleVars>>
  BY <1>9 DEF MemoryTypeOK, WriterTypes, FileInv, OneWriter, WriteIsComplete, InWrite, TaskInv,
              memoryVars, michelleVars
<1> QED
  BY <1>1, <1>2, <1>3, <1>4, <1>5, <1>6, <1>7, <1>8, <1>9 DEF MemoryNext

(* MemoryManager.remember and MichelleAgent.create_task: what was saved is *)
(* in its file, but for writes in progress, writes that crossed and writes *)
(* the process died in.                                                    *)
THEOREM MemoryIsAlwaysKept == MemorySpec => [](MemoryTypeOK /\ MemoryIsKept)
<1>1. MemoryInv => MemoryTypeOK /\ MemoryIsKept
  BY DEF MemoryInv, FileInv, TaskInv, MemoryIsKept, EntriesAreKept, OwnTasksAreKept
<1> QED
  BY <1>1, MemoryInitInv, MemoryStep, PTL DEF MemorySpec
-----------------------------------------------------------------------------
(* The content archive                                                     *)

SaveRecords == [at : {"new", "made", "inside", "opened", "written", "checked", "reported", "failed"},
                want : Nat, got : Nat]
ObjectRecords == [whole : BOOLEAN, inside : BOOLEAN, shut : BOOLEAN, drafts : Nat]
ArchiveTypes ==
  /\ saves \in [Saves -> SaveRecords] /\ objects \in [Saves -> ObjectRecords]
  /\ closed \in BOOLEAN
  /\ reopened \subseteq Saves

\* What a run has left, from the place it is at: a file only inside its
\* directory, and an object only after a look that found the bucket closed.
Hidden(s) == Private(s) \/ (backend = "gcs" /\ s \in reopened)
RunInv(s) ==
  /\ Hidden(s)
  /\ saves[s].at \in {"new", "made"} => ~objects[s].whole /\ objects[s].shut
  /\ saves[s].at \in {"made", "inside", "opened", "checked"} => saves[s].got = saves[s].want
  /\ saves[s].at \in {"inside", "opened", "written"} => backend = "local" /\ objects[s].inside
  /\ saves[s].at = "checked" =>
       /\ backend = "gcs" /\ ~objects[s].whole /\ objects[s].shut
       /\ closed \/ s \in reopened
  /\ saves[s].at \in {"written", "reported"} => objects[s].whole /\ objects[s].drafts = saves[s].want

ArchiveInv == ArchiveTypes /\ \A s \in Saves : RunInv(s)

\* A step of one run leaves the others as they are.
OneRun(s) ==
  /\ \A t \in Saves : t # s => saves'[t] = saves[t] /\ objects'[t] = objects[t]
  /\ reopened \subseteq reopened'
  /\ UNCHANGED <<backend, closed>>

\* When a run keeps its own part, what the other runs say of their objects stays true.
LEMMA OtherRuns ==
  ASSUME ArchiveInv, ArchiveTypes', NEW s \in Saves, OneRun(s),
         RunInv(s)'
  PROVE  ArchiveInv'
<1>1. ASSUME NEW t \in Saves, t # s
      PROVE  RunInv(t)'
  BY <1>1 DEF ArchiveInv, OneRun, RunInv, Hidden, Private
<1> QED
  BY <1>1 DEF ArchiveInv

\* At first no run has an object and nothing is reported.
LEMMA ArchiveInitInv == ArchiveInit => ArchiveInv
<1> SUFFICES ASSUME ArchiveInit PROVE ArchiveInv
  OBVIOUS
<1>1. /\ saves = [s \in Saves |-> [at |-> "new", want |-> 0, got |-> 0]]
      /\ objects = [s \in Saves |-> [whole |-> FALSE, inside |-> FALSE, shut |-> TRUE, drafts |-> 0]]
      /\ closed \in BOOLEAN /\ reopened = {}
  BY DEF ArchiveInit, Nothing
<1>2. ArchiveTypes
  BY <1>1 DEF ArchiveTypes, SaveRecords, ObjectRecords
<1>3. ASSUME NEW s \in Saves
      PROVE  RunInv(s)
  BY <1>1 DEF RunInv, Hidden, Private, Private
<1> QED
  BY <1>2, <1>3 DEF ArchiveInv

\* Every step of a pipeline run keeps its objects whole or private.
LEMMA ArchiveStep == ArchiveInv /\ [ArchiveNext]_archiveVars => ArchiveInv'
<1> SUFFICES ASSUME ArchiveInv, [ArchiveNext]_archiveVars PROVE ArchiveInv'
  OBVIOUS
<1>0. ArchiveTypes /\ \A s \in Saves : RunInv(s)
  BY DEF ArchiveInv
<1>1. ASSUME NEW s \in Saves, NEW q \in Quantities, NEW n \in Quantities, RunPipeline(s, q, n)
      PROVE  ArchiveInv'
  <2>1. PICK at \in {"made", "failed"} :
          /\ saves' = [saves EXCEPT ![s] = [at |-> at, want |-> q, got |-> n]]
          /\ at = "made" => n = q
    BY <1>1 DEF RunPipeline, Acceptable
  <2>2. q \in Nat /\ n \in Nat
    BY ArchiveAssumption
  <2>3. /\ saves[s].at = "new"
        /\ UNCHANGED <<backend, closed, objects, reopened>>
    BY <1>1 DEF RunPipeline
  <2>4. ArchiveTypes'
    BY <1>0, <2>1, <2>2, <2>3 DEF ArchiveTypes, SaveRecords
  <2>5. saves'[s].at = at /\ saves'[s].want = q /\ saves'[s].got = n /\ OneRun(s)
    BY <1>0, <2>1, <2>3 DEF ArchiveTypes, OneRun
  <2>6. RunInv(s)'
    BY <1>0, <2>1, <2>3, <2>5 DEF RunInv, Hidden, Private
  <2> QED
    BY <2>1, <2>4, <2>5, <2>6, OtherRuns
<1>2. ASSUME NEW s \in Saves, MakeDirectory(s)
      PROVE  ArchiveInv'
  <2>1. /\ saves[s].at = "made" /\ backend = "local"
        /\ objects' = [objects EXCEPT ![s].inside = TRUE]
        /\ saves' = [saves EXCEPT ![s].at = "inside"]
        /\ UNCHANGED <<backend, closed, reopened>>
    BY <1>2 DEF MakeDirectory, Moves
  <2>2. saves[s] \in SaveRecords /\ objects[s] \in ObjectRecords
    BY <1>0 DEF ArchiveTypes
  <2>3. ArchiveTypes'
    BY <1>0, <2>1, <2>2 DEF ArchiveTypes, ObjectRecords, SaveRecords
  <2>4. /\ objects'[s].inside
        /\ saves'[s].at = "inside" /\ saves'[s].want = saves[s].want /\ saves'[s].got = saves[s].got
    BY <1>0, <2>1, <2>2 DEF ArchiveTypes, ObjectRecords, SaveRecords
  <2>5. OneRun(s)
    BY <1>0, <2>1 DEF ArchiveTypes, OneRun
  <2>6. RunInv(s)'
    BY <1>0, <2>1, <2>4 DEF RunInv, Hidden, Private
  <2> QED
    BY <2>3, <2>5, <2>6, OtherRuns
<1>10. ASSUME NEW s \in Saves, OpenLocal(s)
      PROVE  ArchiveInv'
  <2>1. /\ saves[s].at = "inside"
        /\ objects' = [objects EXCEPT ![s].shut = FALSE]
        /\ saves' = [saves EXCEPT ![s].at = "opened"]
        /\ UNCHANGED <<backend, closed, reopened>>
    BY <1>10 DEF OpenLocal, Moves
  <2>2. saves[s] \in SaveRecords /\ objects[s] \in ObjectRecords
    BY <1>0 DEF ArchiveTypes
  <2>3. ArchiveTypes'
    BY <1>0, <2>1, <2>2 DEF ArchiveTypes, ObjectRecords, SaveRecords
  <2>4. /\ objects'[s].inside = objects[s].inside
        /\ saves'[s].at = "opened" /\ saves'[s].want = saves[s].want /\ saves'[s].got = saves[s].got
    BY <1>0, <2>1, <2>2 DEF ArchiveTypes, ObjectRecords, SaveRecords
  <2>5. OneRun(s)
    BY <1>0, <2>1 DEF ArchiveTypes, OneRun
  <2>6. RunInv(s)'
    BY <1>0, <2>1, <2>4 DEF RunInv, Hidden, Private
  <2> QED
    BY <2>3, <2>5, <2>6, OtherRuns
<1>3. ASSUME NEW s \in Saves, WriteLocal(s)
      PROVE  ArchiveInv'
  <2>1. /\ saves[s].at = "opened"
        /\ objects' = [objects EXCEPT ![s].whole = TRUE, ![s].drafts = saves[s].got]
        /\ saves' = [saves EXCEPT ![s].at = "written"]
        /\ UNCHANGED <<backend, closed, reopened>>
    BY <1>3 DEF WriteLocal, Moves
  <2>2. saves[s] \in SaveRecords /\ objects[s] \in ObjectRecords
    BY <1>0 DEF ArchiveTypes
  <2>3. ArchiveTypes'
    BY <1>0, <2>1, <2>2 DEF ArchiveTypes, ObjectRecords, SaveRecords
  <2>4. /\ objects'[s].whole /\ objects'[s].drafts = saves[s].got /\ objects'[s].inside = objects[s].inside
        /\ saves'[s].at = "written" /\ saves'[s].want = saves[s].want /\ saves'[s].got = saves[s].got
    BY <1>0, <2>1, <2>2 DEF ArchiveTypes, ObjectRecords, SaveRecords
  <2>5. OneRun(s)
    BY <1>0, <2>1 DEF ArchiveTypes, OneRun
  <2>6. RunInv(s)'
    BY <1>0, <2>1, <2>4 DEF RunInv, Hidden, Private
  <2> QED
    BY <2>3, <2>5, <2>6, OtherRuns
<1>4. ASSUME NEW s \in Saves, ChmodLocal(s)
      PROVE  ArchiveInv'
  <2>1. /\ saves[s].at = "written"
        /\ objects' = [objects EXCEPT ![s].shut = TRUE]
        /\ saves' = [saves EXCEPT ![s].at = "reported"]
        /\ UNCHANGED <<backend, closed, reopened>>
    BY <1>4 DEF ChmodLocal, Moves
  <2>2. saves[s] \in SaveRecords /\ objects[s] \in ObjectRecords
    BY <1>0 DEF ArchiveTypes
  <2>3. ArchiveTypes'
    BY <1>0, <2>1, <2>2 DEF ArchiveTypes, ObjectRecords, SaveRecords
  <2>4. /\ objects'[s].inside = objects[s].inside /\ objects'[s].whole = objects[s].whole
        /\ objects'[s].drafts = objects[s].drafts
        /\ saves'[s].at = "reported" /\ saves'[s].want = saves[s].want /\ saves'[s].got = saves[s].got
    BY <1>0, <2>1, <2>2 DEF ArchiveTypes, ObjectRecords, SaveRecords
  <2>5. OneRun(s)
    BY <1>0, <2>1 DEF ArchiveTypes, OneRun
  <2>6. RunInv(s)'
    BY <1>0, <2>1, <2>4 DEF RunInv, Hidden, Private
  <2> QED
    BY <2>3, <2>5, <2>6, OtherRuns
<1>5. ASSUME NEW s \in Saves, CheckBucket(s)
      PROVE  ArchiveInv'
  <2>1. PICK at \in {"checked", "failed"} :
          /\ saves' = [saves EXCEPT ![s].at = at]
          /\ at = "checked" => closed
    BY <1>5 DEF CheckBucket, Moves
  <2>2. /\ saves[s].at = "made" /\ backend = "gcs"
        /\ UNCHANGED <<backend, closed, objects, reopened>>
    BY <1>5 DEF CheckBucket
  <2>3. saves[s] \in SaveRecords
    BY <1>0 DEF ArchiveTypes
  <2>4. ArchiveTypes'
    BY <1>0, <2>1, <2>2, <2>3 DEF ArchiveTypes, SaveRecords
  <2>5. saves'[s].at = at /\ saves'[s].want = saves[s].want /\ saves'[s].got = saves[s].got
    BY <1>0, <2>1, <2>3 DEF ArchiveTypes, SaveRecords
  <2>6. OneRun(s)
    BY <1>0, <2>1, <2>2 DEF ArchiveTypes, OneRun
  <2>7. RunInv(s)'
    BY <1>0, <2>1, <2>2, <2>5 DEF RunInv, Hidden, Private
  <2> QED
    BY <2>1, <2>4, <2>5, <2>6, <2>7, OtherRuns
<1>6. ASSUME NEW s \in Saves, Upload(s)
      PROVE  ArchiveInv'
  <2> DEFINE new == [whole |-> TRUE, inside |-> FALSE, shut |-> closed, drafts |-> saves[s].got]
  <2>1. PICK at \in {"reported", "failed"} :
          /\ saves' = [saves EXCEPT ![s].at = at]
          /\ \/ objects' = [objects EXCEPT ![s] = new]
             \/ at = "failed" /\ objects' = objects
    BY <1>6 DEF Upload, Moves, Nothing
  <2>2. saves[s].at = "checked" /\ UNCHANGED <<backend, closed, reopened>>
    BY <1>6 DEF Upload
  <2>3. saves[s] \in SaveRecords /\ objects[s] \in ObjectRecords
    BY <1>0 DEF ArchiveTypes
  <2>4. saves'[s].at = at /\ saves'[s].want = saves[s].want
    BY <1>0, <2>1, <2>3 DEF ArchiveTypes, SaveRecords
  <2>5. OneRun(s)
    BY <1>0, <2>1, <2>2 DEF ArchiveTypes, OneRun
  <2>6. saves' \in [Saves -> SaveRecords] /\ saves[s].got \in Nat /\ closed \in BOOLEAN
    BY <1>0, <2>1, <2>3 DEF ArchiveTypes, SaveRecords
  <2>7. CASE objects' = [objects EXCEPT ![s] = new]
    <3>1. new \in ObjectRecords
      BY <2>6 DEF ObjectRecords
    <3>2. ArchiveTypes'
      BY <1>0, <2>2, <2>6, <2>7, <3>1 DEF ArchiveTypes
    <3>3. objects'[s].whole /\ objects'[s].shut = closed /\ objects'[s].drafts = saves[s].got
      BY <1>0, <2>7 DEF ArchiveTypes
    <3>4. RunInv(s)'
      BY <1>0, <2>1, <2>2, <2>4, <3>3 DEF RunInv, Hidden, Private
    <3> QED
      BY <2>1, <2>4, <2>5, <3>2, <3>4, OtherRuns
  <2>8. CASE at = "failed" /\ objects' = objects
    <3>1. ArchiveTypes'
      BY <1>0, <2>2, <2>6, <2>8 DEF ArchiveTypes
    <3>2. RunInv(s)'
      BY <1>0, <2>2, <2>4, <2>8 DEF RunInv, Hidden, Private
    <3> QED
      BY <2>4, <2>5, <2>8, <3>1, <3>2, OtherRuns
  <2> QED
    BY <2>1, <2>7, <2>8
<1>7. ASSUME NEW s \in Saves, Kill(s)
      PROVE  ArchiveInv'
  <2>1. /\ saves' = [saves EXCEPT ![s].at = "failed"]
        /\ UNCHANGED <<backend, closed, objects, reopened>>
    BY <1>7 DEF Kill, Moves
  <2>2. saves[s] \in SaveRecords
    BY <1>0 DEF ArchiveTypes
  <2>3. ArchiveTypes'
    BY <1>0, <2>1, <2>2 DEF ArchiveTypes, SaveRecords
  <2>4. saves'[s].at = "failed" /\ OneRun(s)
    BY <1>0, <2>1, <2>2 DEF ArchiveTypes, SaveRecords, OneRun
  <2>5. RunInv(s)'
    BY <1>0, <2>1, <2>4 DEF RunInv, Hidden, Private
  <2> QED
    BY <2>3, <2>4, <2>5, OtherRuns
<1>8. CASE Reconfigure
  <2>1. /\ closed' = ~closed /\ UNCHANGED <<backend, saves>>
        /\ reopened \subseteq reopened' /\ reopened' \subseteq Saves
        /\ closed => \A s \in Saves : saves[s].at \in {"checked", "reported", "failed"} => s \in reopened'
    BY <1>0, <1>8 DEF Reconfigure, ArchiveTypes
  <2>2. CASE backend = "gcs"
    <3>1. objects' = [s \in Saves |-> [objects[s] EXCEPT !.shut = ~objects[s].whole \/ ~closed]]
      BY <1>8, <2>2 DEF Reconfigure
    <3>2. ASSUME NEW s \in Saves
          PROVE  /\ objects'[s] \in ObjectRecords
                 /\ objects'[s].whole = objects[s].whole /\ objects'[s].drafts = objects[s].drafts
                 /\ objects'[s].inside = objects[s].inside
                 /\ objects'[s].shut <=> ~objects[s].whole \/ ~closed
      <4> DEFINE shut == ~objects[s].whole \/ ~closed
      <4>1. objects'[s] = [objects[s] EXCEPT !.shut = shut] /\ shut \in BOOLEAN
        BY <3>1
      <4>2. objects[s] \in ObjectRecords
        BY <1>0 DEF ArchiveTypes
      <4>3. shut <=> ~objects[s].whole \/ ~closed
        OBVIOUS
      <4> HIDE DEF shut
      <4> QED
        BY <4>1, <4>2, <4>3 DEF ObjectRecords
    <3>3. ArchiveTypes'
      BY <1>0, <2>1, <3>1, <3>2 DEF ArchiveTypes
    <3>4. ASSUME NEW s \in Saves
          PROVE  RunInv(s)'
      <4>1. saves[s].at \in {"new", "made", "inside", "opened", "written", "checked", "reported", "failed"}
        BY <1>0 DEF ArchiveTypes, SaveRecords
      <4>2. objects[s].whole => saves[s].at \in {"reported", "failed"}
        BY <1>0, <2>2, <4>1 DEF RunInv
      <4>3. Hidden(s)'
        BY <2>1, <2>2, <3>2, <4>2 DEF Hidden, Private
      <4> QED
        BY <1>0, <2>1, <2>2, <3>2, <4>2, <4>3 DEF RunInv
    <3> QED
      BY <1>0, <2>1, <3>3, <3>4 DEF ArchiveInv
  <2>3. CASE backend # "gcs"
    <3>1. objects' = objects
      BY <1>8, <2>3 DEF Reconfigure
    <3>2. ArchiveTypes'
      BY <1>0, <2>1, <3>1 DEF ArchiveTypes
    <3>3. ASSUME NEW s \in Saves
          PROVE  RunInv(s)'
      BY <1>0, <2>1, <2>3, <3>1 DEF RunInv, Hidden, Private
    <3> QED
      BY <1>0, <2>1, <3>2, <3>3 DEF ArchiveInv
  <2> QED
    BY <2>2, <2>3
<1>9. CASE UNCHANGED archiveVars
  BY <1>0, <1>9 DEF archiveVars, ArchiveInv, ArchiveTypes, RunInv, Hidden, Private
<1> QED
  BY <1>1, <1>2, <1>3, <1>4, <1>5, <1>6, <1>7, <1>8, <1>9, <1>10 DEF ArchiveNext

(* ContentPipeline.run and the archives' save: a batch that is reported is *)
(* whole and has the drafts asked for, and nobody else can read one at any *)
(* moment, however the command is stopped, unless its bucket was opened    *)
(* after the look: for any number of runs.                                 *)
THEOREM ArchiveIsAlwaysSound == ArchiveSpec => [](ArchiveTypeOK /\ ArchiveIsSound)
<1>1. ArchiveInv => ArchiveTypeOK
  BY DEF ArchiveInv, ArchiveTypes, SaveRecords, ObjectRecords, ArchiveTypeOK
<1>2. ArchiveInv => ReportedIsWhole
  BY DEF ArchiveInv, RunInv, ReportedIsWhole
<1>3. ArchiveInv => ExposedOnlyByBucket
  BY DEF ArchiveInv, RunInv, Hidden, ExposedOnlyByBucket
<1> QED
  BY <1>1, <1>2, <1>3, ArchiveInitInv, ArchiveStep, PTL DEF ArchiveSpec, ArchiveIsSound
-----------------------------------------------------------------------------
(* The message bus with Ju and Michelle                                    *)

Records == [kind : {"task", "delegation", "message"}, to : Names, priority : Urgencies,
            blank : BOOLEAN]
Requests == [at : {"attach", "draw"}, id : Nat]
              \cup [at : {"push", "remember", "escalate"}, id : Nat, number : Nat]
Receivers == [at : {"pop"}, name : Names, rival : BOOLEAN]
Reports == [at : {"report"}, parts : Seq(Nat), size : Nat]

RuntimeTypes ==
  /\ items \in Seq(Records) /\ Len(items) <= MaxItems
  /\ before \in Seq(SUBSET Nat) /\ Len(before) = Len(items)
  /\ delivered \in Seq(Nat) /\ sequence \in Nat
  /\ queues \in [Names -> SUBSET [id : Nat, priority : Urgencies, number : Nat]]
  /\ work \in [Clients -> {NoWork} \cup Requests \cup Receivers \cup Reports]

\* A thread whose item has no number yet, one whose item is not in a queue
\* yet, and one that has anything left to do for its item.
Numberless(c) == work[c].at \in {"attach", "draw"}
Holds(c) == Numberless(c) \/ work[c].at = "push"
Serves(c) == Holds(c) \/ work[c].at \in {"remember", "escalate"}

IsQueued(i) == \E n \in Names : \E e \in queues[n] : e.id = i
IsDelivered(i) == \E k \in DOMAIN delivered : delivered[k] = i

\* An item is with one thread, in its recipient's queue, or received.
HeldOnce ==
  /\ \A c \in Clients : Serves(c) => work[c].id \in ItemIds
  /\ \A c \in Clients : Holds(c) => ~IsQueued(work[c].id) /\ ~IsDelivered(work[c].id)
  /\ \A c, d \in Clients : Holds(c) /\ Holds(d) /\ work[c].id = work[d].id => c = d
QueuedOnce ==
  \A n \in Names : \A e \in queues[n] :
    /\ e.id \in ItemIds /\ items[e.id].to = n /\ e.priority = items[e.id].priority
    /\ e.number < sequence
    /\ \A f \in queues[n] : e.id = f.id => e = f
ReceivedOnce ==
  /\ \A k \in DOMAIN delivered : delivered[k] \in ItemIds /\ ~IsQueued(delivered[k])
  /\ \A j, k \in DOMAIN delivered : delivered[j] = delivered[k] => j = k

\* Those that were queued before item i was numbered are received, or in
\* their queues with a lower number.
Covered(i, number) ==
  \A b \in before[i] :
    IsDelivered(b) \/ \E f \in queues[items[b].to] : f.id = b /\ f.number < number
NumbersFollow ==
  /\ \A i \in ItemIds : before[i] \subseteq ItemIds
  /\ \A c \in Clients : work[c].at = "push" => work[c].number < sequence /\ Covered(work[c].id, work[c].number)
  /\ \A n \in Names : \A e \in queues[n] : Covered(e.id, e.number)

MailInv == HeldOnce /\ QueuedOnce /\ ReceivedOnce /\ NumbersFollow /\ NoOvertaking

\* A receiver without a rival has a message waiting.
PopInv ==
  /\ \A c \in Clients : work[c].at = "pop" => work[c].rival \/ queues[work[c].name] # {}
  /\ \A c, d \in Clients :
       c # d /\ work[c].at = "pop" /\ work[d].at = "pop" /\ work[c].name = work[d].name
         => work[c].rival /\ work[d].rival
  /\ ~starved

\* What a thread has left to tell of is in the lists.
ThreadTales(c) ==
  /\ work[c].at = "attach" => items[work[c].id].kind = "task"
  /\ work[c].at = "remember" => items[work[c].id].kind = "delegation"
  /\ work[c].at = "escalate" => items[work[c].id].kind = "task"
  /\ Serves(c) /\ items[work[c].id].kind = "delegation" => work[c].id \in delegations
  /\ Serves(c) /\ items[work[c].id].kind = "task" /\ work[c].at # "attach"
       => work[c].id \in attached

\* A task is told of once it is in a project, and is held until it is told of.
ItemTales(i) ==
  /\ IsQueued(i) \/ IsDelivered(i) \/ i \in escalated => i \in attached
  /\ \/ items[i].blank \/ IsQueued(i) \/ IsDelivered(i)
     \/ \E c \in Clients : Holds(c) /\ work[c].id = i

TalesInv ==
  /\ attached \subseteq ItemIds /\ delegations \subseteq ItemIds
  /\ remembered \subseteq delegations /\ escalated \subseteq ItemIds
  /\ \A i \in attached : ~items[i].blank
  /\ \A c \in Clients : ThreadTales(c)
  /\ \A i \in ItemIds : items[i].kind = "task" => ItemTales(i)

\* The parts of a report grow with the delegations.
Rising(c) ==
  /\ Len(work[c].parts) <= 3
  /\ \A p \in 1 .. Len(work[c].parts) :
       /\ work[c].parts[p] <= Cardinality(delegations)
       /\ \A r \in 1 .. p : work[c].parts[r] <= work[c].parts[p]
ReportInv == \A c \in Clients : work[c].at = "report" => Rising(c)

\* As many items have a number as were drawn.
SequenceInv ==
  \E drawn \in SUBSET ItemIds :
    /\ Cardinality(drawn) = sequence
    /\ \A c \in Clients : Numberless(c) => work[c].id \notin drawn

RuntimeInv == RuntimeTypes /\ MailInv /\ PopInv /\ TalesInv /\ ReportInv /\ SequenceInv

\* Only thread c moves.
Only(c) == \A d \in Clients : d # c => work'[d] = work[d]

\* What each place of a thread says of the shape of its record.
LEMMA WorkShape ==
  ASSUME RuntimeTypes, NEW c \in Clients
  PROVE  /\ Serves(c) => work[c] \in Requests
         /\ work[c].at = "push" => work[c].number \in Nat
         /\ work[c].at = "pop" => work[c] \in Receivers
         /\ work[c].at = "report" => work[c] \in Reports
         /\ work[c] = NoWork <=> work[c].at = "none"
<1>1. work[c] \in {NoWork} \cup Requests \cup Receivers \cup Reports
  BY DEF RuntimeTypes
<1>2. CASE work[c] = NoWork
  BY <1>2 DEF NoWork, Serves, Holds, Numberless
<1>3. CASE work[c] \in Requests
  BY <1>3 DEF NoWork, Serves, Holds, Numberless, Requests
<1>4. CASE work[c] \in Receivers
  BY <1>4 DEF NoWork, Serves, Holds, Numberless, Receivers
<1>5. CASE work[c] \in Reports
  BY <1>5 DEF NoWork, Serves, Holds, Numberless, Reports
<1> QED
  BY <1>1, <1>2, <1>3, <1>4, <1>5

\* The fields of an item.
LEMMA ItemShape ==
  ASSUME RuntimeTypes, NEW i \in ItemIds
  PROVE  items[i] \in Records /\ items[i].to \in Names /\ items[i].priority \in Nat
<1>1. items[i] \in Records
  BY DEF RuntimeTypes, ItemIds
<1> QED
  BY <1>1, RuntimeAssumption DEF Records

\* The fields of an entry of a queue.
LEMMA EntryShape ==
  ASSUME RuntimeTypes, NEW n \in Names, NEW e \in queues[n]
  PROVE  e.number \in Nat /\ e.priority \in Nat /\ e.priority \in Urgencies /\ e.id \in Nat
<1>1. e \in [id : Nat, priority : Urgencies, number : Nat]
  BY DEF RuntimeTypes
<1> QED
  BY <1>1, RuntimeAssumption

\* A new request adds one item, which no thread, queue or receiver had.
LEMMA BeginEffect ==
  ASSUME RuntimeTypes, NEW c \in Clients, NEW item \in Records, NEW at \in {"attach", "draw"},
         Begin(c, item, at)
  PROVE  /\ RuntimeTypes' /\ Only(c)
         /\ work[c].at = "none" /\ work'[c].at = at /\ work'[c].id = Len(items) + 1
         /\ Len(items) + 1 \notin ItemIds /\ ItemIds' = ItemIds \cup {Len(items) + 1}
         /\ \A i \in ItemIds : items'[i] = items[i] /\ before'[i] = before[i]
         /\ items'[Len(items) + 1] = item /\ before'[Len(items) + 1] = {}
         /\ Len(items') = Len(items) + 1
         /\ UNCHANGED <<queues, sequence, delivered, starved>>
<1>0. /\ items \in Seq(Records) /\ before \in Seq(SUBSET Nat) /\ Len(before) = Len(items)
      /\ Len(items) \in Nat /\ MaxItems \in Nat
  BY RuntimeAssumption DEF RuntimeTypes
<1>1. /\ items' = Append(items, item) /\ before' = Append(before, {})
      /\ Len(items) < MaxItems /\ work[c] = NoWork
      /\ work' = [work EXCEPT ![c] = [at |-> at, id |-> Len(items) + 1]]
      /\ UNCHANGED <<queues, sequence, delivered, starved>>
  BY DEF Begin
<1>2. /\ items' \in Seq(Records) /\ Len(items') = Len(items) + 1
      /\ items'[Len(items) + 1] = item
      /\ \A i \in 1 .. Len(items) : items'[i] = items[i]
  BY <1>0, <1>1
<1>3. /\ before' \in Seq(SUBSET Nat) /\ Len(before') = Len(before) + 1
      /\ before'[Len(before) + 1] = {}
      /\ \A i \in 1 .. Len(before) : before'[i] = before[i]
  <2>1. {} \in SUBSET Nat
    OBVIOUS
  <2> QED
    BY <1>0, <1>1, <2>1
<1>4. [at |-> at, id |-> Len(items) + 1] \in Requests
  BY <1>0 DEF Requests
<1>5. work' \in [Clients -> {NoWork} \cup Requests \cup Receivers \cup Reports]
  BY <1>1, <1>4 DEF RuntimeTypes
<1>6. RuntimeTypes'
  BY <1>0, <1>1, <1>2, <1>3, <1>5 DEF RuntimeTypes
<1>7. work'[c] = [at |-> at, id |-> Len(items) + 1] /\ Only(c)
  BY <1>1 DEF RuntimeTypes, Only
<1>8. Len(items) + 1 \notin ItemIds /\ ItemIds' = ItemIds \cup {Len(items) + 1}
  BY <1>0, <1>2 DEF ItemIds
<1>9. work[c].at = "none"
  BY <1>1 DEF NoWork
<1> QED
  BY <1>0, <1>1, <1>2, <1>3, <1>6, <1>7, <1>8, <1>9 DEF ItemIds

\* The number is the next one, and what is queued is noted.
LEMMA DrawEffect ==
  ASSUME RuntimeTypes, NEW c \in Clients, DrawNumber(c), work[c].id \in ItemIds
  PROVE  /\ RuntimeTypes' /\ Only(c)
         /\ work[c].at = "draw" /\ work'[c].at = "push" /\ work'[c].id = work[c].id
         /\ work'[c].number = sequence /\ sequence' = sequence + 1
         /\ \A i \in ItemIds : i # work[c].id => before'[i] = before[i]
         /\ before'[work[c].id] = Queued
         /\ ItemIds' = ItemIds
         /\ UNCHANGED <<items, agentVars, queues, delivered, starved>>
<1>1. /\ work[c].at = "draw" /\ sequence' = sequence + 1
      /\ work' = [work EXCEPT ![c] = [at |-> "push", id |-> work[c].id, number |-> sequence]]
      /\ before' = [before EXCEPT ![work[c].id] = Queued]
      /\ UNCHANGED <<items, agentVars, queues, delivered, starved>>
  BY DEF DrawNumber
<1>2. work[c].id \in Nat /\ sequence \in Nat
  BY <1>1, WorkShape DEF Serves, Holds, Numberless, Requests, RuntimeTypes
<1>3. Queued \in SUBSET Nat
  BY DEF Queued, RuntimeTypes
<1>4. before \in Seq(SUBSET Nat) /\ Len(before) = Len(items) /\ Len(items) \in Nat
  BY DEF RuntimeTypes
<1>5. before' \in Seq(SUBSET Nat) /\ Len(before') = Len(before)
  BY <1>1, <1>3, <1>4 DEF ItemIds
<1>6. /\ before'[work[c].id] = Queued
      /\ \A i \in ItemIds : i # work[c].id => before'[i] = before[i]
  BY <1>1, <1>4 DEF ItemIds
<1>7. [at |-> "push", id |-> work[c].id, number |-> sequence] \in Requests
  BY <1>2 DEF Requests
<1>8. /\ work' \in [Clients -> {NoWork} \cup Requests \cup Receivers \cup Reports]
      /\ work'[c] = [at |-> "push", id |-> work[c].id, number |-> sequence] /\ Only(c)
  BY <1>1, <1>7 DEF RuntimeTypes, Only
<1>9. RuntimeTypes'
  BY <1>1, <1>2, <1>4, <1>5, <1>8 DEF RuntimeTypes
<1> QED
  BY <1>1, <1>6, <1>8, <1>9 DEF ItemIds

\* The entry is added to the queue of its recipient.
LEMMA PushEffect ==
  ASSUME RuntimeTypes, NEW c \in Clients, PushMessage(c), work[c].id \in ItemIds
  PROVE  LET i == work[c].id IN
         /\ RuntimeTypes' /\ Only(c) /\ work[c].at = "push"
         /\ items[i] \in Records
         /\ queues' = [queues EXCEPT ![items[i].to] =
                         @ \cup {[id |-> i, priority |-> items[i].priority, number |-> work[c].number]}]
         /\ \/ work'[c].at = "none"
            \/ work'[c].at = "remember" /\ work'[c].id = i /\ items[i].kind = "delegation"
            \/ work'[c].at = "escalate" /\ work'[c].id = i /\ items[i].kind = "task"
         /\ ItemIds' = ItemIds
         /\ UNCHANGED <<items, agentVars, sequence, delivered, before, starved>>
<1> DEFINE i == work[c].id
           entry == [id |-> i, priority |-> items[i].priority, number |-> work[c].number]
<1>1. /\ work[c].at = "push"
      /\ queues' = [queues EXCEPT ![items[i].to] = @ \cup {entry}]
      /\ UNCHANGED <<items, agentVars, sequence, delivered, before, starved>>
  BY DEF PushMessage
<1>2. work[c] \in Requests /\ work[c].number \in Nat
  BY <1>1, WorkShape DEF Serves, Holds
<1>3. i \in Nat /\ items[i] \in Records
  BY <1>2 DEF Requests, RuntimeTypes, ItemIds
<1>4. entry \in [id : Nat, priority : Urgencies, number : Nat] /\ items[i].to \in Names
  BY <1>2, <1>3 DEF Records
<1>5. queues' \in [Names -> SUBSET [id : Nat, priority : Urgencies, number : Nat]]
  <2> HIDE DEF entry, i
  <2>1. queues \in [Names -> SUBSET [id : Nat, priority : Urgencies, number : Nat]]
    BY DEF RuntimeTypes
  <2> QED
    BY <1>1, <1>4, <2>1
<1>6. \/ work' = [work EXCEPT ![c] = NoWork]
      \/ work' = [work EXCEPT ![c].at = "remember"] /\ items[i].kind = "delegation"
      \/ work' = [work EXCEPT ![c].at = "escalate"] /\ items[i].kind = "task"
  BY DEF PushMessage, Goes, Ends
<1>7. /\ work'[c] = NoWork \/ work'[c] \in Requests
      /\ \/ work'[c].at = "none"
         \/ work'[c].at = "remember" /\ work'[c].id = i /\ items[i].kind = "delegation"
         \/ work'[c].at = "escalate" /\ work'[c].id = i /\ items[i].kind = "task"
  <2>1. CASE work' = [work EXCEPT ![c] = NoWork]
    BY <2>1 DEF NoWork, RuntimeTypes
  <2>2. work[c] = [at |-> "push", id |-> i, number |-> work[c].number]
    BY <1>1, <1>2 DEF Requests
  <2>3. ASSUME NEW at \in {"remember", "escalate"}, work' = [work EXCEPT ![c].at = at]
        PROVE  work'[c] = [at |-> at, id |-> i, number |-> work[c].number]
    BY <2>2, <2>3 DEF RuntimeTypes
  <2>4. ASSUME NEW at \in {"remember", "escalate"}, work' = [work EXCEPT ![c].at = at]
        PROVE  work'[c] \in Requests /\ work'[c].at = at /\ work'[c].id = i
    <3>1. work'[c] = [at |-> at, id |-> i, number |-> work[c].number]
      BY <2>3, <2>4
    <3> QED
      BY <1>2, <1>3, <3>1 DEF Requests
  <2> QED
    BY <1>6, <2>1, <2>4
<1>8. work' \in [Clients -> {NoWork} \cup Requests \cup Receivers \cup Reports] /\ Only(c)
  BY <1>6, <1>7 DEF RuntimeTypes, Only
<1>9. RuntimeTypes'
  BY <1>1, <1>5, <1>8 DEF RuntimeTypes
<1> QED
  BY <1>1, <1>3, <1>7, <1>8, <1>9 DEF ItemIds

\* A thread that ends its request leaves the bus and the lists alone, and so
\* does one that goes on with it.
LEMMA EndsEffect ==
  ASSUME RuntimeTypes, NEW c \in Clients, Ends(c),
         UNCHANGED <<items, before, delivered, sequence, queues>>
  PROVE  RuntimeTypes' /\ Only(c) /\ work'[c] = NoWork /\ work'[c].at = "none"
<1>1. work'[c] = NoWork /\ Only(c)
  BY DEF Ends, Only, RuntimeTypes
<1>2. work' \in [Clients -> {NoWork} \cup Requests \cup Receivers \cup Reports]
  BY DEF Ends, RuntimeTypes
<1> QED
  BY <1>1, <1>2 DEF RuntimeTypes, NoWork

\* The project of a task is named, and it is attached, or it is not.
LEMMA AttachEffect ==
  ASSUME RuntimeTypes, NEW c \in Clients, AttachTask(c), work[c].id \in ItemIds
  PROVE  /\ RuntimeTypes' /\ Only(c) /\ work[c].at = "attach"
         /\ \/ items[work[c].id].blank /\ work'[c].at = "none" /\ UNCHANGED attached
            \/ /\ ~items[work[c].id].blank /\ work'[c].at = "draw" /\ work'[c].id = work[c].id
               /\ attached' = attached \cup {work[c].id}
         /\ UNCHANGED <<items, delegations, remembered, escalated, busVars>>
<1>1. /\ work[c].at = "attach"
      /\ UNCHANGED <<items, delegations, remembered, escalated, busVars>>
  BY DEF AttachTask
<1>2. UNCHANGED <<items, before, delivered, sequence, queues>>
  BY <1>1 DEF busVars
<1>3. CASE items[work[c].id].blank
  <2>1. Ends(c) /\ UNCHANGED attached
    BY <1>3 DEF AttachTask
  <2> QED
    BY <1>1, <1>2, <1>3, <2>1, EndsEffect
<1>4. CASE ~items[work[c].id].blank
  <2>1. work' = [work EXCEPT ![c].at = "draw"] /\ attached' = attached \cup {work[c].id}
    BY <1>4 DEF AttachTask, Goes
  <2>2. work[c] \in Requests
    BY <1>1, WorkShape DEF Serves, Holds, Numberless
  <2>3. work[c] = [at |-> "attach", id |-> work[c].id] /\ work[c].id \in Nat
    BY <1>1, <2>2 DEF Requests
  <2>4. work'[c] = [at |-> "draw", id |-> work[c].id] /\ Only(c)
    BY <2>1, <2>3 DEF RuntimeTypes, Only
  <2>5. work'[c] \in Requests /\ work'[c].at = "draw" /\ work'[c].id = work[c].id
    BY <2>3, <2>4 DEF Requests
  <2>6. work' \in [Clients -> {NoWork} \cup Requests \cup Receivers \cup Reports]
    BY <2>1, <2>5 DEF RuntimeTypes
  <2>7. RuntimeTypes'
    BY <1>2, <2>6 DEF RuntimeTypes
  <2> QED
    BY <1>1, <1>4, <2>1, <2>4, <2>5, <2>7
<1> QED
  BY <1>3, <1>4

\* One thread looks at queue n, and those that are about to take from it have
\* a rival from now on.
LEMMA LookEffect ==
  ASSUME RuntimeTypes, NEW c \in Clients, NEW n \in Names, LookInQueue(c, n)
  PROVE  /\ RuntimeTypes' /\ work[c].at = "none" /\ queues[n] # {}
         /\ work'[c].at = "pop" /\ work'[c].name = n
         /\ \A d \in Clients : d # c /\ work[d].at = "pop" =>
              /\ work'[d].at = "pop" /\ work'[d].name = work[d].name
              /\ work[d].name = n => work'[c].rival /\ work'[d].rival
              /\ work[d].rival => work'[d].rival
         /\ \A d \in Clients : d # c /\ work[d].at # "pop" => work'[d] = work[d]
         /\ UNCHANGED <<items, agentVars, busVars>>
<1> DEFINE other == \E d \in Clients : work[d].at = "pop" /\ work[d].name = n
<1>1. /\ work[c] = NoWork /\ queues[n] # {}
      /\ work' = [w \in Clients |->
           IF w = c THEN [at |-> "pop", name |-> n, rival |-> other]
           ELSE IF work[w].at = "pop" /\ work[w].name = n THEN [work[w] EXCEPT !.rival = TRUE] ELSE work[w]]
      /\ UNCHANGED <<items, agentVars, busVars>>
  BY DEF LookInQueue
<1>2. other \in BOOLEAN /\ (other <=> \E d \in Clients : work[d].at = "pop" /\ work[d].name = n)
  OBVIOUS
<1> HIDE DEF other
<1>3. work'[c] = [at |-> "pop", name |-> n, rival |-> other]
  BY <1>1
<1>4. work'[c] \in Receivers /\ work'[c].at = "pop" /\ work'[c].name = n /\ work'[c].rival = other
  BY <1>2, <1>3 DEF Receivers
<1>5. ASSUME NEW d \in Clients, d # c, work[d].at = "pop", work[d].name = n
      PROVE  work'[d] \in Receivers /\ work'[d].at = "pop" /\ work'[d].name = n /\ work'[d].rival
  <2>1. work[d] \in Receivers
    BY <1>5, WorkShape
  <2>2. work'[d] = [work[d] EXCEPT !.rival = TRUE]
    BY <1>1, <1>5
  <2> QED
    BY <1>5, <2>1, <2>2 DEF Receivers
<1>6. ASSUME NEW d \in Clients, d # c, ~(work[d].at = "pop" /\ work[d].name = n)
      PROVE  work'[d] = work[d]
  BY <1>1, <1>6
<1>7. ASSUME NEW d \in Clients
      PROVE  work'[d] \in {NoWork} \cup Requests \cup Receivers \cup Reports
  BY <1>4, <1>5, <1>6 DEF RuntimeTypes
<1>8. work' \in [Clients -> {NoWork} \cup Requests \cup Receivers \cup Reports]
  BY <1>1, <1>7
<1>9. RuntimeTypes'
  BY <1>1, <1>8 DEF RuntimeTypes, busVars
<1>10. work[c].at = "none"
  BY <1>1 DEF NoWork
<1> QED
  BY <1>1, <1>2, <1>4, <1>5, <1>6, <1>9, <1>10

\* A receiver takes an entry that precedes all others of its queue, or finds
\* none.
LEMMA PopEffect ==
  ASSUME RuntimeTypes, NEW c \in Clients, PopMessage(c)
  PROVE  /\ RuntimeTypes' /\ Only(c) /\ work[c].at = "pop" /\ work'[c].at = "none"
         /\ work[c].name \in Names
         /\ \/ /\ queues[work[c].name] = {} /\ UNCHANGED <<queues, delivered>>
               /\ starved' = (starved \/ ~work[c].rival)
            \/ \E e \in queues[work[c].name] :
                 /\ \A f \in queues[work[c].name] : Precedes(e, f)
                 /\ queues' = [queues EXCEPT ![work[c].name] = @ \ {e}]
                 /\ Len(delivered') = Len(delivered) + 1
                 /\ \A k \in DOMAIN delivered : delivered'[k] = delivered[k]
                 /\ delivered'[Len(delivered) + 1] = e.id
                 /\ UNCHANGED starved
         /\ ItemIds' = ItemIds
         /\ UNCHANGED <<items, agentVars, sequence, before>>
<1> DEFINE n == work[c].name
<1>1. /\ work[c].at = "pop" /\ Ends(c)
      /\ UNCHANGED <<items, agentVars, sequence, before>>
  BY DEF PopMessage
<1>2. work'[c] = NoWork /\ Only(c)
  BY <1>1 DEF Ends, Only, RuntimeTypes
<1>3. work'[c].at = "none"
  BY <1>2 DEF NoWork
<1>4. work' \in [Clients -> {NoWork} \cup Requests \cup Receivers \cup Reports]
  BY <1>1 DEF Ends, RuntimeTypes
<1>5. n \in Names
  BY <1>1, WorkShape DEF Receivers
<1>6. CASE queues[n] = {} /\ UNCHANGED <<queues, delivered>> /\ starved' = (starved \/ ~work[c].rival)
  <2>1. RuntimeTypes'
    BY <1>1, <1>4, <1>6 DEF RuntimeTypes
  <2> QED
    BY <1>1, <1>2, <1>3, <1>5, <1>6, <2>1 DEF ItemIds
<1>7. ASSUME NEW e \in queues[n],
             \A f \in queues[n] : Precedes(e, f),
             queues' = [queues EXCEPT ![n] = @ \ {e}],
             delivered' = Append(delivered, e.id),
             UNCHANGED starved
      PROVE  /\ RuntimeTypes'
             /\ Len(delivered') = Len(delivered) + 1
             /\ \A k \in DOMAIN delivered : delivered'[k] = delivered[k]
             /\ delivered'[Len(delivered) + 1] = e.id
  <2>1. e.id \in Nat /\ delivered \in Seq(Nat)
    BY <1>5 DEF RuntimeTypes
  <2>2. /\ delivered' \in Seq(Nat) /\ Len(delivered') = Len(delivered) + 1
        /\ \A k \in 1 .. Len(delivered) : delivered'[k] = delivered[k]
        /\ delivered'[Len(delivered) + 1] = e.id
    BY <1>7, <2>1
  <2>3. queues' \in [Names -> SUBSET [id : Nat, priority : Urgencies, number : Nat]]
    BY <1>5, <1>7 DEF RuntimeTypes
  <2>4. RuntimeTypes'
    BY <1>1, <1>4, <2>2, <2>3 DEF RuntimeTypes
  <2>5. DOMAIN delivered = 1 .. Len(delivered)
    BY <2>1
  <2> QED
    BY <2>2, <2>4, <2>5
<1>8. \/ queues[n] = {} /\ UNCHANGED <<queues, delivered>> /\ starved' = (starved \/ ~work[c].rival)
      \/ \E e \in queues[n] :
           /\ \A f \in queues[n] : Precedes(e, f)
           /\ queues' = [queues EXCEPT ![n] = @ \ {e}]
           /\ delivered' = Append(delivered, e.id)
           /\ UNCHANGED starved
  BY DEF PopMessage
<1> QED
  BY <1>1, <1>2, <1>3, <1>5, <1>6, <1>7, <1>8 DEF ItemIds

\* A report starts, gets a part or ends; it changes nothing else.
ReportAction(c) == StartReport(c) \/ ReportPart(c) \/ EndReport(c)
\* A call of a report changes only the thread that makes it.
LEMMA ReportEffect ==
  ASSUME RuntimeTypes, NEW c \in Clients, ReportAction(c), Cardinality(delegations) \in Nat
  PROVE  /\ RuntimeTypes' /\ Only(c) /\ work[c].at \in {"none", "report"}
         /\ \/ work'[c].at = "none"
            \/ work'[c].at = "report" /\ Len(work'[c].parts) = 0
            \/ /\ work[c].at = "report" /\ work'[c].at = "report"
               /\ work[c].parts \in Seq(Nat) /\ Len(work[c].parts) < 3
               /\ work'[c].parts = Append(work[c].parts, Cardinality(delegations))
         /\ ItemIds' = ItemIds
         /\ UNCHANGED <<items, agentVars, busVars>>
<1>1. UNCHANGED <<items, agentVars, busVars>>
  BY DEF ReportAction, StartReport, ReportPart, EndReport
<1>2. UNCHANGED <<items, before, delivered, sequence, queues>> /\ ItemIds' = ItemIds
  BY <1>1 DEF busVars, ItemIds
<1>3. CASE StartReport(c)
  <2>1. /\ work[c].at = "none"
        /\ work' = [work EXCEPT ![c] = [at |-> "report", parts |-> << >>, size |-> Cardinality(delegations)]]
    BY <1>3 DEF StartReport, NoWork
  <2>2. [at |-> "report", parts |-> << >>, size |-> Cardinality(delegations)] \in Reports
    BY DEF Reports
  <2>3. work'[c].at = "report" /\ Len(work'[c].parts) = 0 /\ Only(c)
    BY <2>1 DEF RuntimeTypes, Only
  <2>4. RuntimeTypes'
    BY <1>2, <2>1, <2>2 DEF RuntimeTypes
  <2> QED
    BY <1>1, <1>2, <2>1, <2>3, <2>4
<1>4. ASSUME work[c].at = "report", Ends(c)
      PROVE  RuntimeTypes' /\ Only(c) /\ work'[c].at = "none"
  BY <1>2, <1>4, EndsEffect
<1>5. ASSUME work[c].at = "report", Len(work[c].parts) < 3,
             work' = [work EXCEPT ![c].parts = Append(@, Cardinality(delegations)),
                                  ![c].size = Cardinality(delegations)]
      PROVE  /\ RuntimeTypes' /\ Only(c) /\ work'[c].at = "report"
             /\ work[c].parts \in Seq(Nat)
             /\ work'[c].parts = Append(work[c].parts, Cardinality(delegations))
  <2> DEFINE many == Cardinality(delegations)
  <2>1. work[c] \in Reports
    BY <1>5, WorkShape
  <2>2. work[c].parts \in Seq(Nat) /\ work[c] = [at |-> "report", parts |-> work[c].parts, size |-> work[c].size]
    BY <2>1 DEF Reports
  <2>3. Append(work[c].parts, many) \in Seq(Nat)
    BY <2>2
  <2> HIDE DEF many
  <2>4. work' = [work EXCEPT ![c].parts = Append(@, many), ![c].size = many]
    BY <1>5 DEF many
  <2>5. work'[c] = [work[c] EXCEPT !.parts = Append(@, many), !.size = many] /\ Only(c)
    BY <2>4 DEF RuntimeTypes, Only
  <2>6. many \in Nat
    BY DEF many
  <2>7. /\ work'[c] \in Reports /\ work'[c].at = "report"
        /\ work'[c].parts = Append(work[c].parts, many)
    BY <2>1, <2>3, <2>5, <2>6 DEF Reports
  <2>8. work' \in [Clients -> {NoWork} \cup Requests \cup Receivers \cup Reports]
    BY <2>4, <2>7 DEF RuntimeTypes
  <2>9. RuntimeTypes'
    BY <1>2, <2>8 DEF RuntimeTypes
  <2> QED
    BY <2>2, <2>5, <2>7, <2>9 DEF many
<1>6. CASE ReportPart(c)
  BY <1>1, <1>2, <1>4, <1>5, <1>6 DEF ReportPart
<1>7. CASE EndReport(c)
  BY <1>1, <1>2, <1>4, <1>7 DEF EndReport
<1> QED
  BY <1>3, <1>6, <1>7 DEF ReportAction

\* A new request: Michelle's begins with the project, and Ju's delegation is
\* stored first.
BeginWork(c, item) ==
  /\ Begin(c, item, IF item.kind = "task" THEN "attach" ELSE "draw")
  /\ delegations' = IF item.kind = "delegation" THEN delegations \cup {Len(items) + 1} ELSE delegations
  /\ UNCHANGED <<attached, remembered, escalated>>

\* A step is one of these, by one thread.
LEMMA NextCases ==
  ASSUME RuntimeTypes, AgentsNext
  PROVE  \E c \in Clients :
           \/ \E item \in Records : BeginWork(c, item)
           \/ AttachTask(c) \/ DrawNumber(c) \/ PushMessage(c) \/ Remember(c) \/ Escalate(c)
           \/ PopMessage(c) \/ ReportAction(c) \/ \E n \in Names : LookInQueue(c, n)
<1>1. ASSUME NEW c \in Clients, NEW u \in Urgencies, NEW n \in Names, Send(c, n, u)
      PROVE  \E item \in Records : BeginWork(c, item)
  <2> DEFINE item == [kind |-> "message", to |-> n, priority |-> u, blank |-> FALSE]
  <2>1. item \in Records /\ item.kind = "message"
    BY DEF Records
  <2>2. Begin(c, item, "draw") /\ UNCHANGED agentVars
    BY <1>1 DEF Send
  <2> QED
    BY <2>1, <2>2 DEF BeginWork, agentVars
<1>2. ASSUME NEW c \in Clients, NEW u \in Urgencies, NEW a \in Registered, Delegate(c, a, u)
      PROVE  \E item \in Records : BeginWork(c, item)
  <2> DEFINE item == [kind |-> "delegation", to |-> a, priority |-> u, blank |-> FALSE]
  <2>1. item \in Records /\ item.kind = "delegation"
    BY RuntimeAssumption DEF Records
  <2>2. /\ Begin(c, item, "draw") /\ delegations' = delegations \cup {Len(items')}
        /\ UNCHANGED <<attached, remembered, escalated>>
    BY <1>2 DEF Delegate
  <2> HIDE DEF item
  <2>3. Len(items') = Len(items) + 1
    BY <2>1, <2>2, BeginEffect
  <2> QED
    BY <2>1, <2>2, <2>3 DEF BeginWork
<1>3. ASSUME NEW c \in Clients, NEW u \in Urgencies, NEW a \in Registered, NEW b \in BOOLEAN,
             CreateTask(c, a, u, b)
      PROVE  \E item \in Records : BeginWork(c, item)
  <2> DEFINE item == [kind |-> "task", to |-> a, priority |-> u, blank |-> b]
  <2>1. item \in Records /\ item.kind = "task"
    BY RuntimeAssumption DEF Records
  <2>2. Begin(c, item, "attach") /\ UNCHANGED agentVars
    BY <1>3 DEF CreateTask, AfterCreate
  <2> QED
    BY <2>1, <2>2 DEF BeginWork, agentVars
<1> QED
  BY <1>1, <1>2, <1>3 DEF AgentsNext, ReportAction

\* A thread that begins with an item is the only one to change, and the item is new.
LEMMA NewEffect ==
  ASSUME RuntimeTypes, NEW c \in Clients, NEW item \in Records, BeginWork(c, item)
  PROVE  /\ RuntimeTypes' /\ Only(c)
         /\ work[c].at = "none" /\ work'[c].id = Len(items) + 1
         /\ work'[c].at = IF item.kind = "task" THEN "attach" ELSE "draw"
         /\ Len(items) + 1 \notin ItemIds /\ ItemIds' = ItemIds \cup {Len(items) + 1}
         /\ \A i \in ItemIds : items'[i] = items[i] /\ before'[i] = before[i]
         /\ items'[Len(items) + 1] = item /\ before'[Len(items) + 1] = {}
         /\ delegations' = IF item.kind = "delegation" THEN delegations \cup {Len(items) + 1} ELSE delegations
         /\ UNCHANGED <<queues, sequence, delivered, starved, attached, remembered, escalated>>
<1>1. PICK at \in {"attach", "draw"} :
        at = (IF item.kind = "task" THEN "attach" ELSE "draw") /\ Begin(c, item, at)
  BY DEF BeginWork
<1>2. /\ delegations' = IF item.kind = "delegation" THEN delegations \cup {Len(items) + 1} ELSE delegations
      /\ UNCHANGED <<attached, remembered, escalated>>
  BY DEF BeginWork
<1> QED
  BY <1>1, <1>2, BeginEffect

\* The steps that only take a thread further with its request, or end it.
Calm ==
  /\ \A d \in Clients :
       /\ Serves(d)' => Serves(d) /\ work'[d].id = work[d].id
       /\ Holds(d)' => Holds(d)
       /\ Numberless(d)' => Numberless(d)
       /\ work'[d].at = "push" => work[d].at = "push" /\ work'[d].number = work[d].number
  /\ UNCHANGED <<items, queues, sequence, delivered, before>>

\* A step that moves no message keeps the mail in order.
LEMMA CalmMail == ASSUME MailInv, Calm PROVE MailInv'
<1>0. /\ ItemIds' = ItemIds
      /\ \A i : IsQueued(i)' = IsQueued(i) /\ IsDelivered(i)' = IsDelivered(i)
  BY DEF Calm, IsQueued, IsDelivered, ItemIds
<1>1. HeldOnce'
  <2>1. \A d \in Clients : Holds(d)' => Holds(d) /\ work'[d].id = work[d].id
    BY DEF Calm, Serves
  <2>2. \A d \in Clients : Serves(d)' => Serves(d) /\ work'[d].id = work[d].id
    BY DEF Calm
  <2> QED
    BY <1>0, <2>1, <2>2 DEF MailInv, HeldOnce
<1>2. QueuedOnce' /\ ReceivedOnce' /\ NoOvertaking'
  BY DEF MailInv, QueuedOnce, ReceivedOnce, NoOvertaking, Calm, IsQueued, ItemIds
<1>3. \A d \in Clients : work'[d].at = "push" => work[d].at = "push" /\ Serves(d) /\ work'[d].id = work[d].id
  BY DEF Calm, Serves, Holds
<1>4. NumbersFollow'
  BY <1>3 DEF MailInv, NumbersFollow, Calm, Covered, IsDelivered, ItemIds
<1> QED
  BY <1>1, <1>2, <1>4 DEF MailInv

\* The steps that move no message.
LEMMA CalmSteps ==
  ASSUME RuntimeTypes, HeldOnce, NEW c \in Clients,
         \/ AttachTask(c) \/ Remember(c) \/ Escalate(c)
         \/ ReportAction(c) /\ Cardinality(delegations) \in Nat
         \/ \E n \in Names : LookInQueue(c, n)
  PROVE  Calm /\ RuntimeTypes' /\ starved' = starved
<1>1. CASE AttachTask(c)
  <2>1. work[c].at = "attach"
    BY <1>1 DEF AttachTask
  <2>2. work[c].id \in ItemIds
    BY <2>1 DEF HeldOnce, Serves, Holds, Numberless
  <2> QED
    BY <1>1, <2>1, <2>2, AttachEffect DEF Calm, Only, Serves, Holds, Numberless, busVars
<1>2. CASE Remember(c) \/ Escalate(c)
  <2>1. Ends(c) /\ UNCHANGED <<items, before, delivered, sequence, queues, starved>>
    BY <1>2 DEF Remember, Escalate, busVars
  <2> QED
    BY <2>1, EndsEffect DEF Calm, Only, Serves, Holds, Numberless
<1>3. CASE ReportAction(c) /\ Cardinality(delegations) \in Nat
  BY <1>3, ReportEffect DEF Calm, Only, Serves, Holds, Numberless, busVars
<1>4. ASSUME NEW n \in Names, LookInQueue(c, n)
      PROVE  Calm /\ RuntimeTypes' /\ starved' = starved
  BY <1>4, LookEffect DEF Calm, Serves, Holds, Numberless, busVars
<1> QED
  BY <1>1, <1>2, <1>3, <1>4

\* A new item is in no queue and was not received.
LEMMA NewMail ==
  ASSUME RuntimeTypes, MailInv, NEW c \in Clients, NEW item \in Records, BeginWork(c, item)
  PROVE  MailInv'
<1> DEFINE new == Len(items) + 1
<1>1. /\ Only(c) /\ work[c].at = "none" /\ work'[c].id = new /\ Numberless(c)'
      /\ new \notin ItemIds /\ ItemIds' = ItemIds \cup {new}
      /\ \A i \in ItemIds : items'[i] = items[i] /\ before'[i] = before[i]
      /\ before'[new] = {}
      /\ UNCHANGED <<queues, sequence, delivered>>
  BY NewEffect DEF Numberless
<1> HIDE DEF new
<1>2. \A i : IsQueued(i)' = IsQueued(i) /\ IsDelivered(i)' = IsDelivered(i)
  BY <1>1 DEF IsQueued, IsDelivered
<1>3. ~IsQueued(new) /\ ~IsDelivered(new)
  BY <1>1 DEF MailInv, QueuedOnce, ReceivedOnce, IsQueued, IsDelivered
<1>4. \A d \in Clients : d # c =>
        /\ Holds(d)' = Holds(d) /\ Serves(d)' = Serves(d) /\ work'[d] = work[d]
  BY <1>1 DEF Only, Holds, Serves, Numberless
<1>5. \A d \in Clients : d # c /\ Serves(d) => work[d].id \in ItemIds /\ work[d].id # new
  BY <1>1 DEF MailInv, HeldOnce
<1>6. \A d \in Clients : Holds(d) => Serves(d)
  BY DEF Serves
<1>7. HeldOnce'
  BY <1>1, <1>2, <1>3, <1>4, <1>5, <1>6 DEF MailInv, HeldOnce
<1>8. QueuedOnce' /\ ReceivedOnce'
  BY <1>1, <1>2 DEF MailInv, QueuedOnce, ReceivedOnce
<1>9. \A i \in ItemIds : before[i] \subseteq ItemIds
  BY DEF MailInv, NumbersFollow
<1>10. ASSUME NEW i \in ItemIds, NEW k, Covered(i, k)
       PROVE  Covered(i, k)'
  BY <1>1, <1>2, <1>9, <1>10 DEF Covered
<1>11. work'[c].at # "push"
  BY <1>1 DEF Numberless
<1>12. \A d \in Clients : work[d].at = "push" => Serves(d)
  BY DEF Serves, Holds
<1>13. NumbersFollow'
  <2>1. \A i \in ItemIds' : before'[i] \subseteq ItemIds'
    BY <1>1, <1>9
  <2>2. ASSUME NEW d \in Clients, work'[d].at = "push"
        PROVE  work'[d].number < sequence' /\ Covered(work[d].id, work[d].number)'
    BY <1>1, <1>4, <1>5, <1>10, <1>11, <1>12, <2>2 DEF MailInv, NumbersFollow
  <2>3. ASSUME NEW n \in Names, NEW e \in queues'[n]
        PROVE  Covered(e.id, e.number)'
    <3>1. e \in queues[n] /\ e.id \in ItemIds
      BY <1>1 DEF MailInv, QueuedOnce
    <3> QED
      BY <1>10, <3>1 DEF MailInv, NumbersFollow
  <2> QED
    BY <2>1, <2>2, <2>3 DEF NumbersFollow
<1>14. NoOvertaking'
  <2>1. ASSUME NEW k \in DOMAIN delivered
        PROVE  /\ delivered[k] \in ItemIds /\ before'[delivered[k]] = before[delivered[k]]
               /\ items'[delivered[k]] = items[delivered[k]]
               /\ \A b \in before[delivered[k]] : items'[b] = items[b]
    BY <1>1, <1>9 DEF MailInv, ReceivedOnce
  <2> QED
    BY <1>1, <2>1 DEF MailInv, NoOvertaking
<1> QED
  BY <1>7, <1>8, <1>13, <1>14 DEF MailInv

\* A number that was drawn is higher than those of the messages queued before.
LEMMA DrawMail ==
  ASSUME RuntimeTypes, MailInv, NEW c \in Clients, DrawNumber(c)
  PROVE  MailInv'
<1>0. work[c].at = "draw" /\ work[c].id \in ItemIds
  BY DEF DrawNumber, MailInv, HeldOnce, Serves, Holds, Numberless
<1> DEFINE it == work[c].id
<1>1. /\ Only(c) /\ work[c].at = "draw" /\ work'[c].at = "push" /\ work'[c].id = it
      /\ work'[c].number = sequence /\ sequence' = sequence + 1 /\ sequence \in Nat
      /\ \A i \in ItemIds : i # it => before'[i] = before[i]
      /\ before'[it] = Queued /\ it \in ItemIds
      /\ ItemIds' = ItemIds
      /\ UNCHANGED <<items, queues, delivered>>
  BY <1>0, DrawEffect DEF RuntimeTypes
<1> HIDE DEF it
<1>2. \A i : IsQueued(i)' = IsQueued(i) /\ IsDelivered(i)' = IsDelivered(i)
  BY <1>1 DEF IsQueued, IsDelivered
<1>3. \A d \in Clients : /\ Holds(d)' = Holds(d) /\ Serves(d)' = Serves(d) /\ work'[d].id = work[d].id
                         /\ d # c => work'[d] = work[d]
  BY <1>1 DEF Only, Holds, Serves, Numberless, it
<1>4. HeldOnce'
  BY <1>1, <1>2, <1>3 DEF MailInv, HeldOnce
<1>5. ~IsQueued(it) /\ ~IsDelivered(it)
  BY <1>0 DEF MailInv, HeldOnce, Holds, Numberless, it
<1>6. \A n \in Names : \A e \in queues[n] : e.number \in Nat
  BY DEF RuntimeTypes
<1>7. QueuedOnce' /\ ReceivedOnce'
  BY <1>1, <1>2, <1>6 DEF MailInv, QueuedOnce, ReceivedOnce
<1>8. ASSUME NEW i \in ItemIds, i # it, NEW k, Covered(i, k)
      PROVE  Covered(i, k)'
  BY <1>1, <1>2, <1>8 DEF Covered
<1>9. NumbersFollow'
  <2>1. \A b \in Queued : IsQueued(b) /\ b \in ItemIds /\ \E f \in queues[items[b].to] : f.id = b /\ f.number < sequence
    BY DEF Queued, IsQueued, MailInv, QueuedOnce
  <2>2. \A i \in ItemIds' : before'[i] \subseteq ItemIds'
    BY <1>1, <2>1 DEF MailInv, NumbersFollow
  <2>3. ASSUME NEW d \in Clients, work'[d].at = "push"
        PROVE  work'[d].number < sequence' /\ Covered(work[d].id, work[d].number)'
    <3>1. CASE d = c
      BY <1>1, <2>1, <3>1 DEF Covered
    <3>2. CASE d # c
      <4>1. work'[d] = work[d] /\ work[d].at = "push"
        BY <1>3, <2>3, <3>2
      <4>2. work[d].id \in ItemIds /\ work[d].id # it /\ work[d].number \in Nat
        BY <1>0, <3>2, <4>1, WorkShape DEF MailInv, HeldOnce, Serves, Holds, Numberless, it
      <4>3. work[d].number < sequence /\ Covered(work[d].id, work[d].number)
        BY <4>1 DEF MailInv, NumbersFollow
      <4> QED
        BY <1>1, <1>8, <4>1, <4>2, <4>3
    <3> QED
      BY <3>1, <3>2
  <2>4. ASSUME NEW n \in Names, NEW e \in queues'[n]
        PROVE  Covered(e.id, e.number)'
    <3>1. e \in queues[n] /\ e.id \in ItemIds /\ e.id # it
      BY <1>1, <1>5 DEF MailInv, QueuedOnce, IsQueued
    <3> QED
      BY <1>8, <3>1 DEF MailInv, NumbersFollow
  <2> QED
    BY <2>2, <2>3, <2>4 DEF NumbersFollow
<1>10. NoOvertaking'
  <2>1. ASSUME NEW k \in DOMAIN delivered
        PROVE  before'[delivered[k]] = before[delivered[k]]
    BY <1>1, <1>5 DEF MailInv, ReceivedOnce, IsDelivered
  <2> QED
    BY <1>1, <2>1 DEF MailInv, NoOvertaking
<1> QED
  BY <1>4, <1>7, <1>9, <1>10 DEF MailInv

\* A message that is pushed is queued once, after all that its recipient had by then.
LEMMA PushMail ==
  ASSUME RuntimeTypes, MailInv, NEW c \in Clients, PushMessage(c)
  PROVE  MailInv'
<1>0. work[c].at = "push" /\ work[c].id \in ItemIds /\ Holds(c) /\ Serves(c)
  BY DEF PushMessage, MailInv, HeldOnce, Serves, Holds
<1> DEFINE i == work[c].id
           n == items[i].to
           entry == [id |-> i, priority |-> items[i].priority, number |-> work[c].number]
<1>1. /\ Only(c) /\ i \in ItemIds /\ n \in Names
      /\ queues' = [queues EXCEPT ![n] = @ \cup {entry}] /\ DOMAIN queues = Names
      /\ work'[c].at \in {"none", "remember", "escalate"}
      /\ work'[c].at # "none" => work'[c].id = i
      /\ ItemIds' = ItemIds
      /\ UNCHANGED <<items, sequence, delivered, before>>
  BY <1>0, PushEffect DEF Records, RuntimeTypes
<1>2. /\ entry.id = i /\ entry.priority = items[i].priority /\ entry.number = work[c].number
      /\ entry.number < sequence /\ Covered(i, entry.number)
  BY <1>0 DEF MailInv, NumbersFollow
<1>3. ~IsQueued(i) /\ ~IsDelivered(i)
  BY <1>0 DEF MailInv, HeldOnce
<1>n. items[i].to = n
  OBVIOUS
<1>h. /\ \A d \in Clients : d # c /\ Holds(d) => work[d].id # i
      /\ \A d \in Clients : d # c => work'[d] = work[d]
      /\ ~Holds(c)' /\ (Serves(c)' => work'[c].id = i)
  BY <1>0, <1>1 DEF MailInv, HeldOnce, Only, Holds, Serves, Numberless
<1> HIDE DEF i, n, entry
<1>4. /\ queues'[n] = queues[n] \cup {entry}
      /\ \A m \in Names : m # n => queues'[m] = queues[m]
  BY <1>1
<1>5. \A j : /\ IsDelivered(j)' = IsDelivered(j)
             /\ IsQueued(j)' <=> IsQueued(j) \/ j = i
  BY <1>1, <1>2, <1>4 DEF IsQueued, IsDelivered
<1>6. \A d \in Clients : d # c => Holds(d)' = Holds(d) /\ Serves(d)' = Serves(d)
  BY <1>h DEF Holds, Serves, Numberless
<1>7. HeldOnce'
  BY <1>1, <1>5, <1>6, <1>h DEF MailInv, HeldOnce
<1>8. QueuedOnce'
  <2>1. \A f \in queues[n] : f.id # i
    BY <1>1, <1>3 DEF IsQueued
  <2>2. ASSUME NEW m \in Names, NEW e \in queues'[m]
        PROVE  /\ e.id \in ItemIds /\ items[e.id].to = m /\ e.priority = items[e.id].priority
               /\ e.number < sequence
               /\ \A f \in queues'[m] : e.id = f.id => e = f
    <3>1. CASE m # n
      BY <1>4, <2>2, <3>1 DEF MailInv, QueuedOnce
    <3>2. CASE m = n /\ e # entry
      BY <1>2, <1>4, <2>1, <2>2, <3>2 DEF MailInv, QueuedOnce
    <3>3. CASE m = n /\ e = entry
      BY <1>1, <1>2, <1>4, <1>n, <2>1, <3>3
    <3> QED
      BY <3>1, <3>2, <3>3
  <2> QED
    BY <1>1, <2>2 DEF QueuedOnce
<1>9. ReceivedOnce'
  BY <1>1, <1>3, <1>5 DEF MailInv, ReceivedOnce, IsDelivered
<1>10. ASSUME NEW j \in ItemIds, NEW k, Covered(j, k)
       PROVE  Covered(j, k)'
  <2>1. \A m \in Names : queues[m] \subseteq queues'[m]
    BY <1>4
  <2>2. \A b \in before[j] : items[b].to \in Names
    BY ItemShape DEF MailInv, NumbersFollow
  <2> QED
    BY <1>1, <1>5, <1>10, <2>1, <2>2 DEF Covered
<1>11. NumbersFollow'
  <2>1. \A j \in ItemIds' : before'[j] \subseteq ItemIds'
    BY <1>1 DEF MailInv, NumbersFollow
  <2>2. ASSUME NEW d \in Clients, work'[d].at = "push"
        PROVE  work'[d].number < sequence' /\ Covered(work[d].id, work[d].number)'
    <3>1. d # c /\ work'[d] = work[d]
      BY <1>1, <1>h, <2>2
    <3>2. work[d].id \in ItemIds
      BY <2>2, <3>1 DEF MailInv, HeldOnce, Serves, Holds
    <3> QED
      BY <1>1, <1>10, <2>2, <3>1, <3>2 DEF MailInv, NumbersFollow
  <2>3. ASSUME NEW m \in Names, NEW e \in queues'[m]
        PROVE  Covered(e.id, e.number)'
    <3>1. CASE e \in queues[m]
      BY <1>10, <3>1 DEF MailInv, NumbersFollow, QueuedOnce
    <3>2. CASE e = entry
      BY <1>1, <1>2, <1>10, <3>2
    <3> QED
      BY <1>4, <2>3, <3>1, <3>2
  <2> QED
    BY <2>1, <2>2, <2>3 DEF NumbersFollow
<1>12. NoOvertaking'
  BY <1>1 DEF MailInv, NoOvertaking
<1> QED
  BY <1>7, <1>8, <1>9, <1>11, <1>12 DEF MailInv

\* A message that is popped is the first of its queue, and received once.
LEMMA PopMail ==
  ASSUME RuntimeTypes, MailInv, NEW c \in Clients, PopMessage(c)
  PROVE  MailInv'
<1> DEFINE n == work[c].name
<1>1. /\ Only(c) /\ work[c].at = "pop" /\ work'[c].at = "none" /\ n \in Names
      /\ ItemIds' = ItemIds /\ UNCHANGED <<items, sequence, before>>
      /\ delivered \in Seq(Nat)
  BY PopEffect DEF RuntimeTypes
<1>2. \A d \in Clients : /\ Holds(d)' = Holds(d) /\ Serves(d)' = Serves(d) /\ Numberless(d)' = Numberless(d)
                         /\ Serves(d) => work'[d] = work[d]
                         /\ work'[d].at = "push" => work'[d] = work[d]
  BY <1>1 DEF Only, Holds, Serves, Numberless
<1>3. CASE UNCHANGED <<queues, delivered>>
  <2>1. Calm
    BY <1>1, <1>2, <1>3 DEF Calm
  <2> QED
    BY <2>1, CalmMail
<1>4. ASSUME NEW e \in queues[n],
             \A f \in queues[n] : Precedes(e, f),
             queues' = [queues EXCEPT ![n] = @ \ {e}],
             Len(delivered') = Len(delivered) + 1,
             \A k \in DOMAIN delivered : delivered'[k] = delivered[k],
             delivered'[Len(delivered) + 1] = e.id,
             delivered' \in Seq(Nat)
      PROVE  MailInv'
  <2> DEFINE last == Len(delivered) + 1
  <2>1. /\ DOMAIN delivered' = DOMAIN delivered \cup {last} /\ last \notin DOMAIN delivered
        /\ DOMAIN delivered \subseteq Nat /\ \A k \in DOMAIN delivered : k <= last
        /\ last \in Nat /\ \A k \in DOMAIN delivered : k >= 1
        /\ last >= 1
    BY <1>1, <1>4
  <2>2. delivered'[last] = e.id
    BY <1>4
  <2>d. DOMAIN delivered = 1 .. (last - 1) /\ DOMAIN delivered' = 1 .. last
    BY <1>1, <1>4
  <2> HIDE DEF last, n
  <2>3. /\ queues'[n] = queues[n] \ {e}
        /\ \A m \in Names : m # n => queues'[m] = queues[m]
        /\ \A m \in Names : queues'[m] \subseteq queues[m]
    BY <1>1, <1>4 DEF RuntimeTypes
  <2>4. /\ e.id \in ItemIds /\ items[e.id].to = n /\ IsQueued(e.id) /\ e.priority = items[e.id].priority
        /\ Covered(e.id, e.number)
        /\ e.number \in Nat /\ e.priority \in Nat
    BY <1>1, EntryShape DEF MailInv, QueuedOnce, IsQueued, NumbersFollow
  <2>5. ~IsQueued(e.id)'
    BY <1>1, <1>4, <2>3, <2>4 DEF MailInv, QueuedOnce, IsQueued
  <2>6. \A j : /\ IsQueued(j)' => IsQueued(j)
               /\ IsDelivered(j)' <=> IsDelivered(j) \/ j = e.id
    BY <1>4, <2>1, <2>2, <2>3 DEF IsQueued, IsDelivered
  <2>7. \A k \in DOMAIN delivered : delivered[k] # e.id
    BY <2>4 DEF MailInv, ReceivedOnce
  <2>8. HeldOnce'
    BY <1>1, <1>2, <2>4, <2>6 DEF MailInv, HeldOnce, Serves
  <2>9. QueuedOnce'
    BY <1>1, <2>3 DEF MailInv, QueuedOnce
  <2>10. ReceivedOnce'
    <3>1. ASSUME NEW j \in DOMAIN delivered', NEW k \in DOMAIN delivered', delivered'[j] = delivered'[k]
          PROVE  j = k
      BY <1>4, <2>1, <2>2, <2>7, <3>1 DEF MailInv, ReceivedOnce
    <3>2. \A k \in DOMAIN delivered' : delivered'[k] \in ItemIds' /\ (~IsQueued(delivered[k]))'
      BY <1>1, <1>4, <2>1, <2>2, <2>4, <2>5, <2>6 DEF MailInv, ReceivedOnce
    <3> QED
      BY <3>1, <3>2 DEF ReceivedOnce
  <2>11. ASSUME NEW j \in ItemIds, NEW k, Covered(j, k)
         PROVE  Covered(j, k)'
    <3> SUFFICES ASSUME NEW b \in before[j]
                 PROVE  IsDelivered(b)' \/ \E f \in queues'[items[b].to] : f.id = b /\ f.number < k
      BY <1>1 DEF Covered
    <3>1. CASE IsDelivered(b)
      BY <2>6, <3>1
    <3>2. ASSUME NEW f \in queues[items[b].to], f.id = b, f.number < k
          PROVE  IsDelivered(b)' \/ \E g \in queues'[items[b].to] : g.id = b /\ g.number < k
      <4>1. items[b].to \in Names
        BY ItemShape DEF MailInv, NumbersFollow
      <4> QED
        BY <2>3, <2>6, <3>2, <4>1
    <3> QED
      BY <2>11, <3>1, <3>2 DEF Covered
  <2>12. NumbersFollow'
    <3>1. ASSUME NEW d \in Clients, work'[d].at = "push"
          PROVE  work'[d].number < sequence' /\ Covered(work[d].id, work[d].number)'
      <4>1. work'[d] = work[d]
        BY <1>2, <3>1
      <4>2. work[d].id \in ItemIds
        BY <3>1, <4>1 DEF MailInv, HeldOnce, Serves, Holds
      <4> QED
        BY <1>1, <2>11, <3>1, <4>1, <4>2 DEF MailInv, NumbersFollow
    <3>2. ASSUME NEW m \in Names, NEW f \in queues'[m]
          PROVE  Covered(f.id, f.number)'
      BY <2>3, <2>11 DEF MailInv, NumbersFollow, QueuedOnce
    <3> QED
      BY <1>1, <3>1, <3>2 DEF MailInv, NumbersFollow
  <2>13. NoOvertaking'
    <3>1. ASSUME NEW k \in DOMAIN delivered', NEW i \in before[delivered'[k]],
                 items[i].to = items[delivered'[k]].to,
                 items[i].priority <= items[delivered'[k]].priority
          PROVE  \E j \in 1 .. k : delivered'[j] = i
      <4>1. CASE k \in DOMAIN delivered
        <5>1. PICK j \in 1 .. k : delivered[j] = i
          BY <1>4, <3>1, <4>1 DEF MailInv, NoOvertaking
        <5>2. j \in DOMAIN delivered
          BY <2>1, <2>d, <4>1
        <5> QED
          BY <1>4, <5>1, <5>2
      <4>2. CASE k = last
        <5>1. IsDelivered(i)
          <6> SUFFICES ASSUME NEW f \in queues[n], f.id = i, f.number < e.number
                       PROVE  FALSE
            BY <2>2, <2>4, <3>1, <4>2 DEF Covered
          <6>1. Precedes(e, f) /\ f.priority = items[i].priority /\ f.number \in Nat /\ f.priority \in Nat
            BY <1>1, <1>4, EntryShape DEF MailInv, QueuedOnce
          <6>2. f.priority <= e.priority
            BY <2>2, <2>4, <3>1, <4>2, <6>1
          <6> QED
            BY <2>4, <6>1, <6>2 DEF Precedes
        <5>2. PICK j \in DOMAIN delivered : delivered[j] = i
          BY <5>1 DEF IsDelivered
        <5> QED
          BY <1>4, <2>d, <4>2, <5>2
      <4> QED
        BY <2>1, <4>1, <4>2
    <3> QED
      BY <1>1, <3>1 DEF NoOvertaking
  <2> QED
    BY <2>8, <2>9, <2>10, <2>12, <2>13 DEF MailInv
<1>5. delivered' \in Seq(Nat)
  BY PopEffect DEF RuntimeTypes
<1> QED
  BY <1>3, <1>4, <1>5, PopEffect

\* Items are finitely many, so those of any kind can be counted.
LEMMA FiniteItems ==
  ASSUME RuntimeTypes, NEW S, S \subseteq ItemIds
  PROVE  IsFiniteSet(S) /\ Cardinality(S) \in Nat /\ Cardinality(S) <= Len(items)
<1>1. Len(items) \in Nat
  BY DEF RuntimeTypes
<1>2. IsFiniteSet(ItemIds) /\ Cardinality(ItemIds) = Len(items)
  BY <1>1, FS_Interval DEF ItemIds
<1>3. IsFiniteSet(S) /\ Cardinality(S) <= Cardinality(ItemIds)
  BY <1>2, FS_Subset
<1> QED
  BY <1>2, <1>3, FS_CardinalityType

\* Nothing is told of a new item.
LEMMA NewTales ==
  ASSUME RuntimeTypes, MailInv, TalesInv, NEW c \in Clients, NEW item \in Records,
         BeginWork(c, item)
  PROVE  TalesInv'
<1> DEFINE new == Len(items) + 1
<1>1. /\ Only(c) /\ work[c].at = "none" /\ work'[c].id = new
      /\ work'[c].at = IF item.kind = "task" THEN "attach" ELSE "draw"
      /\ new \notin ItemIds /\ ItemIds' = ItemIds \cup {new}
      /\ \A i \in ItemIds : items'[i] = items[i]
      /\ items'[new] = item
      /\ delegations' = IF item.kind = "delegation" THEN delegations \cup {new} ELSE delegations
      /\ UNCHANGED <<queues, delivered, attached, remembered, escalated>>
  BY NewEffect
<1> HIDE DEF new
<1>2. \A i : IsQueued(i)' = IsQueued(i) /\ IsDelivered(i)' = IsDelivered(i)
  BY <1>1 DEF IsQueued, IsDelivered
<1>3. ~IsQueued(new) /\ ~IsDelivered(new) /\ new \notin attached /\ new \notin escalated
  BY <1>1 DEF MailInv, QueuedOnce, ReceivedOnce, IsQueued, IsDelivered, TalesInv
<1>4. \A d \in Clients : d # c =>
        /\ Holds(d)' = Holds(d) /\ Serves(d)' = Serves(d) /\ work'[d] = work[d]
  BY <1>1 DEF Only, Holds, Serves, Numberless
<1>5. \A d \in Clients : Serves(d) => work[d].id \in ItemIds
  BY DEF MailInv, HeldOnce
<1>6. ~Serves(c) /\ ~Holds(c) /\ Holds(c)'
  BY <1>1 DEF Serves, Holds, Numberless
<1>7. /\ attached' \subseteq ItemIds' /\ delegations' \subseteq ItemIds'
      /\ remembered' \subseteq delegations' /\ escalated' \subseteq ItemIds'
      /\ \A i \in attached' : ~items'[i].blank
  BY <1>1 DEF TalesInv
<1>8. ASSUME NEW d \in Clients
      PROVE  ThreadTales(d)'
  <2>1. CASE d = c
    BY <1>1, <2>1 DEF Records, ThreadTales
  <2>2. CASE d # c
    <3>1. work[d].at \in {"attach", "remember", "escalate"} => Serves(d)
      BY DEF Serves, Holds, Numberless
    <3> QED
      BY <1>1, <1>4, <1>5, <2>2, <3>1 DEF TalesInv, ThreadTales
  <2> QED
    BY <2>1, <2>2
<1>9. ASSUME NEW i \in ItemIds', items'[i].kind = "task"
      PROVE  ItemTales(i)'
  <2>1. CASE i = new
    BY <1>1, <1>2, <1>3, <1>6, <2>1 DEF ItemTales
  <2>2. CASE i # new
    BY <1>1, <1>2, <1>4, <1>6, <1>9, <2>2 DEF TalesInv, ItemTales
  <2> QED
    BY <2>1, <2>2
<1> QED
  BY <1>7, <1>8, <1>9 DEF TalesInv

\* The steps that leave the lists, and what is queued or received, as they are.
LEMMA QuietTales ==
  ASSUME TalesInv, UNCHANGED <<items, agentVars>>,
         \A i \in ItemIds : IsQueued(i)' \/ IsDelivered(i)' <=> IsQueued(i) \/ IsDelivered(i),
         \A d \in Clients : /\ Holds(d) => Holds(d)' /\ work'[d].id = work[d].id
                            /\ Serves(d)' => Serves(d) /\ work'[d].id = work[d].id
                            /\ work'[d].at \in {"attach", "remember", "escalate"} => work'[d].at = work[d].at
                            /\ work[d].at = "attach" => work'[d].at = "attach"
  PROVE  TalesInv'
<1>1. ItemIds' = ItemIds
  BY DEF ItemIds
<1>2. /\ attached' \subseteq ItemIds' /\ delegations' \subseteq ItemIds'
      /\ remembered' \subseteq delegations' /\ escalated' \subseteq ItemIds'
      /\ \A i \in attached' : ~items'[i].blank
  BY <1>1 DEF TalesInv, agentVars
<1>3. \A d \in Clients : work'[d].at \in {"attach", "remember", "escalate"} => Serves(d)'
  BY DEF Serves, Holds, Numberless
<1>4. ASSUME NEW d \in Clients
      PROVE  ThreadTales(d)'
  BY <1>3 DEF TalesInv, agentVars, ThreadTales
<1>5. ASSUME NEW i \in ItemIds', items'[i].kind = "task"
      PROVE  ItemTales(i)'
  BY <1>1, <1>5 DEF TalesInv, agentVars, ItemTales
<1> QED
  BY <1>2, <1>4, <1>5 DEF TalesInv

\* A task is put into the list of a project that is not blank, and may be told of then.
LEMMA AttachTales ==
  ASSUME RuntimeTypes, MailInv, TalesInv, NEW c \in Clients, AttachTask(c)
  PROVE  TalesInv'
<1> DEFINE it == work[c].id
<1>0. work[c].at = "attach" /\ it \in ItemIds
  BY DEF AttachTask, MailInv, HeldOnce, Serves, Holds, Numberless
<1>1. /\ Only(c)
      /\ \/ items[it].blank /\ work'[c].at = "none" /\ UNCHANGED attached
         \/ /\ ~items[it].blank /\ work'[c].at = "draw" /\ work'[c].id = it
            /\ attached' = attached \cup {it}
      /\ UNCHANGED <<items, delegations, remembered, escalated, queues, delivered>>
  BY <1>0, AttachEffect DEF busVars
<1>2. items[it].kind = "task"
  BY <1>0 DEF TalesInv, ThreadTales
<1> HIDE DEF it
<1>3. \A i : IsQueued(i)' = IsQueued(i) /\ IsDelivered(i)' = IsDelivered(i)
  BY <1>1 DEF IsQueued, IsDelivered
<1>4. ItemIds' = ItemIds
  BY <1>1 DEF ItemIds
<1>5. \A d \in Clients : d # c =>
        /\ Holds(d)' = Holds(d) /\ Serves(d)' = Serves(d) /\ work'[d] = work[d]
  BY <1>1 DEF Only, Holds, Serves, Numberless
<1>6. /\ work'[c].at = "none" => ~Serves(c)'
      /\ work'[c].at = "draw" => Serves(c)' /\ Holds(c)'
  BY DEF Serves, Holds, Numberless
<1>7. /\ attached' \subseteq ItemIds' /\ delegations' \subseteq ItemIds'
      /\ remembered' \subseteq delegations' /\ escalated' \subseteq ItemIds'
      /\ \A i \in attached' : ~items'[i].blank
      /\ attached \subseteq attached'
  BY <1>0, <1>1, <1>4 DEF TalesInv, it
<1>8. ASSUME NEW d \in Clients
      PROVE  ThreadTales(d)'
  <2>1. CASE d = c
    BY <1>1, <1>2, <1>6, <2>1 DEF ThreadTales
  <2>2. CASE d # c
    BY <1>1, <1>5, <1>7, <2>2 DEF TalesInv, ThreadTales
  <2> QED
    BY <2>1, <2>2
<1>9. ASSUME NEW i \in ItemIds', items'[i].kind = "task"
      PROVE  ItemTales(i)'
  <2>1. IsQueued(i)' \/ IsDelivered(i)' \/ i \in escalated' => i \in attached'
    BY <1>1, <1>3, <1>4, <1>7, <1>9 DEF TalesInv, ItemTales
  <2>2. CASE i = it
    BY <1>1, <1>6, <2>1, <2>2 DEF ItemTales
  <2>3. CASE i # it
    BY <1>1, <1>3, <1>4, <1>5, <1>9, <2>1, <2>3 DEF TalesInv, it, ItemTales
  <2> QED
    BY <2>2, <2>3
<1> QED
  BY <1>7, <1>8, <1>9 DEF TalesInv

\* What is pushed is told of an item that is where it should be.
LEMMA PushTales ==
  ASSUME RuntimeTypes, MailInv, TalesInv, NEW c \in Clients, PushMessage(c)
  PROVE  TalesInv'
<1> DEFINE it == work[c].id
           n == items[it].to
<1>0. work[c].at = "push" /\ it \in ItemIds /\ Serves(c)
  BY DEF PushMessage, MailInv, HeldOnce, Serves, Holds
<1>1. /\ Only(c) /\ n \in Names
      /\ queues' = [queues EXCEPT ![n] =
                      @ \cup {[id |-> it, priority |-> items[it].priority, number |-> work[c].number]}]
      /\ \/ work'[c].at = "none"
         \/ work'[c].at = "remember" /\ work'[c].id = it /\ items[it].kind = "delegation"
         \/ work'[c].at = "escalate" /\ work'[c].id = it /\ items[it].kind = "task"
      /\ ItemIds' = ItemIds
      /\ UNCHANGED <<items, attached, delegations, remembered, escalated, delivered>>
  BY <1>0, PushEffect, ItemShape DEF agentVars
<1>2. /\ items[it].kind = "task" => it \in attached
      /\ items[it].kind = "delegation" => it \in delegations
  BY <1>0 DEF TalesInv, ThreadTales
<1> DEFINE entry == [id |-> it, priority |-> items[it].priority, number |-> work[c].number]
<1>3. entry.id = it
  OBVIOUS
<1> HIDE DEF it, n, entry
<1>4. \A i : /\ IsDelivered(i)' = IsDelivered(i)
             /\ IsQueued(i)' <=> IsQueued(i) \/ i = it
  <2>1. /\ queues'[n] = queues[n] \cup {entry}
        /\ \A m \in Names : m # n => queues'[m] = queues[m]
    BY <1>1 DEF RuntimeTypes, entry
  <2> QED
    BY <1>1, <1>3, <2>1 DEF IsQueued, IsDelivered
<1>5. \A d \in Clients : d # c =>
        /\ Holds(d)' = Holds(d) /\ Serves(d)' = Serves(d) /\ work'[d] = work[d]
  BY <1>1 DEF Only, Holds, Serves, Numberless
<1>6. work'[c].at = "none" => ~Serves(c)'
  BY DEF Serves, Holds, Numberless
<1>7. ASSUME NEW d \in Clients
      PROVE  ThreadTales(d)'
  <2>1. CASE d = c
    BY <1>1, <1>2, <1>6, <2>1 DEF ThreadTales
  <2>2. CASE d # c
    BY <1>1, <1>5, <2>2 DEF TalesInv, ThreadTales
  <2> QED
    BY <2>1, <2>2
<1>8. ASSUME NEW i \in ItemIds', items'[i].kind = "task"
      PROVE  ItemTales(i)'
  BY <1>1, <1>2, <1>4, <1>5, <1>8 DEF TalesInv, it, ItemTales
<1> QED
  BY <1>1, <1>7, <1>8 DEF TalesInv

\* What Ju and Michelle note after a message is of the same item.
LEMMA LastCallTales ==
  ASSUME RuntimeTypes, MailInv, TalesInv, NEW c \in Clients, Remember(c) \/ Escalate(c)
  PROVE  TalesInv'
<1> DEFINE it == work[c].id
<1>0. /\ work[c].at \in {"remember", "escalate"} /\ Serves(c) /\ ~Holds(c) /\ it \in ItemIds
      /\ work[c].at = "remember" => it \in delegations
      /\ work[c].at = "escalate" => it \in attached
  BY DEF Remember, Escalate, MailInv, HeldOnce, TalesInv, ThreadTales, Serves, Holds, Numberless
<1>1. /\ Only(c) /\ work'[c].at = "none" /\ ItemIds' = ItemIds
      /\ UNCHANGED <<items, attached, delegations, queues, delivered>>
      /\ remembered' \subseteq remembered \cup delegations
      /\ escalated' = escalated \/ (it \in attached /\ escalated' = escalated \cup {it})
  <2>1. Ends(c) /\ UNCHANGED <<items, before, delivered, sequence, queues, attached, delegations>>
    BY DEF Remember, Escalate, busVars
  <2>2. Only(c) /\ work'[c].at = "none" /\ ItemIds' = ItemIds
    BY <2>1, EndsEffect DEF ItemIds
  <2>3. CASE Remember(c)
    <3>1. remembered' = remembered \cup {it} /\ UNCHANGED escalated /\ work[c].at = "remember"
      BY <2>3 DEF Remember
    <3>2. it \in delegations
      BY <1>0, <3>1
    <3> HIDE DEF it
    <3>3. remembered' \subseteq remembered \cup delegations
      BY <3>1, <3>2
    <3> QED
      BY <2>1, <2>2, <3>1, <3>3
  <2>4. CASE Escalate(c)
    <3>1. escalated' = escalated \cup {it} /\ UNCHANGED remembered /\ work[c].at = "escalate"
      BY <2>4 DEF Escalate
    <3> QED
      BY <1>0, <2>1, <2>2, <3>1
  <2> QED
    BY <2>3, <2>4
<1> HIDE DEF it
<1>2. \A i : IsQueued(i)' = IsQueued(i) /\ IsDelivered(i)' = IsDelivered(i)
  BY <1>1 DEF IsQueued, IsDelivered
<1>3. \A d \in Clients : /\ Serves(d)' => Serves(d) /\ d # c /\ work'[d] = work[d]
                         /\ Holds(d) => Holds(d)' /\ work'[d] = work[d]
                         /\ work'[d].at \in {"attach", "remember", "escalate"} => work'[d] = work[d]
  BY <1>0, <1>1 DEF Only, Holds, Serves, Numberless
<1>4. /\ attached' \subseteq ItemIds' /\ delegations' \subseteq ItemIds'
      /\ remembered' \subseteq delegations' /\ escalated' \subseteq ItemIds'
      /\ \A i \in attached' : ~items'[i].blank
  BY <1>0, <1>1 DEF TalesInv
<1>5. ASSUME NEW d \in Clients
      PROVE  ThreadTales(d)'
  BY <1>1, <1>3 DEF TalesInv, ThreadTales
<1>6. ASSUME NEW i \in ItemIds', items'[i].kind = "task"
      PROVE  ItemTales(i)'
  BY <1>1, <1>2, <1>3, <1>6 DEF TalesInv, ItemTales
<1> QED
  BY <1>4, <1>5, <1>6 DEF TalesInv

\* A step that takes no message: queues grow, and receivers stay as they are.
LEMMA GrowingPop ==
  ASSUME RuntimeTypes, PopInv, starved' = starved,
         \A n \in Names : queues[n] \subseteq queues'[n],
         \A d \in Clients : work'[d].at = "pop" => work'[d] = work[d]
  PROVE  PopInv'
<1>1. ASSUME NEW d \in Clients, work'[d].at = "pop"
      PROVE  work'[d].rival \/ queues'[work'[d].name] # {}
  <2>1. work'[d] = work[d] /\ work[d].at = "pop" /\ work[d].name \in Names
    BY <1>1, WorkShape DEF Receivers
  <2> QED
    BY <2>1 DEF PopInv
<1> QED
  BY <1>1 DEF PopInv

\* A thread that finds a message waiting knows whom it may lose it to.
LEMMA LookPop ==
  ASSUME RuntimeTypes, PopInv, NEW c \in Clients, NEW n \in Names, LookInQueue(c, n)
  PROVE  PopInv'
<1>1. /\ work[c].at = "none" /\ queues[n] # {}
      /\ work'[c].at = "pop" /\ work'[c].name = n
      /\ \A d \in Clients : d # c /\ work[d].at = "pop" =>
           /\ work'[d].at = "pop" /\ work'[d].name = work[d].name
           /\ work[d].name = n => work'[c].rival /\ work'[d].rival
           /\ work[d].rival => work'[d].rival
      /\ \A d \in Clients : d # c /\ work[d].at # "pop" => work'[d] = work[d]
      /\ UNCHANGED <<queues, starved>>
  BY LookEffect DEF busVars
<1>2. \A d \in Clients : d # c /\ work'[d].at = "pop" => work[d].at = "pop"
  BY <1>1
<1>3. ASSUME NEW d \in Clients, work'[d].at = "pop"
      PROVE  work'[d].rival \/ queues'[work'[d].name] # {}
  BY <1>1, <1>2, <1>3 DEF PopInv
<1>4. ASSUME NEW d \in Clients, NEW e \in Clients, d # e, work'[d].at = "pop", work'[e].at = "pop",
             work'[d].name = work'[e].name
      PROVE  work'[d].rival /\ work'[e].rival
  <2>1. CASE d = c
    BY <1>1, <1>2, <1>4, <2>1
  <2>2. CASE e = c
    BY <1>1, <1>2, <1>4, <2>2
  <2>3. CASE d # c /\ e # c
    BY <1>1, <1>2, <1>4, <2>3 DEF PopInv
  <2> QED
    BY <2>1, <2>2, <2>3
<1> QED
  BY <1>1, <1>3, <1>4 DEF PopInv

\* A pop that comes too late had a rival, which took the message.
LEMMA PopPop ==
  ASSUME RuntimeTypes, PopInv, NEW c \in Clients, PopMessage(c)
  PROVE  PopInv'
<1> DEFINE n == work[c].name
<1>1. Only(c) /\ work[c].at = "pop" /\ work'[c].at = "none" /\ n \in Names
  BY PopEffect
<1>2. \A d \in Clients : work'[d].at = "pop" => d # c /\ work'[d] = work[d]
  BY <1>1 DEF Only
<1>3. ~starved' /\ \A m \in Names : m # n => queues'[m] = queues[m]
  <2>1. CASE queues[n] = {} /\ UNCHANGED <<queues, delivered>> /\ starved' = (starved \/ ~work[c].rival)
    BY <1>1, <2>1 DEF PopInv
  <2>2. ASSUME NEW e \in queues[n], queues' = [queues EXCEPT ![n] = @ \ {e}], UNCHANGED starved
        PROVE  ~starved' /\ \A m \in Names : m # n => queues'[m] = queues[m]
    BY <2>2 DEF PopInv, RuntimeTypes
  <2> QED
    BY <2>1, <2>2, PopEffect
<1>4. ASSUME NEW d \in Clients, work'[d].at = "pop"
      PROVE  work'[d].rival \/ queues'[work'[d].name] # {}
  <2>1. d # c /\ work'[d] = work[d] /\ work[d].at = "pop"
    BY <1>2, <1>4
  <2>2. work[d].name \in Names
    BY <2>1, WorkShape DEF Receivers
  <2> QED
    BY <1>1, <1>3, <2>1, <2>2 DEF PopInv
<1> QED
  BY <1>2, <1>3, <1>4 DEF PopInv

\* A step that is not of a report: delegations grow.
LEMMA GrowingReport ==
  ASSUME RuntimeTypes, ReportInv,
         delegations \subseteq delegations', IsFiniteSet(delegations'),
         \A d \in Clients : work'[d].at = "report" => work'[d] = work[d]
  PROVE  ReportInv'
<1>1. /\ Cardinality(delegations) <= Cardinality(delegations')
      /\ Cardinality(delegations) \in Nat /\ Cardinality(delegations') \in Nat
  BY FS_Subset, FS_CardinalityType
<1>2. ASSUME NEW d \in Clients, work'[d].at = "report"
      PROVE  Rising(d)'
  <2>1. work'[d] = work[d] /\ work[d].parts \in Seq(Nat)
    BY <1>2, WorkShape DEF Reports
  <2>2. \A p \in 1 .. Len(work[d].parts) : work[d].parts[p] \in Nat
    BY <2>1
  <2>3. Rising(d)
    BY <1>2, <2>1 DEF ReportInv
  <2>4. ASSUME NEW p \in 1 .. Len(work[d].parts)
        PROVE  work[d].parts[p] <= Cardinality(delegations')
    <3>1. work[d].parts[p] <= Cardinality(delegations)
      BY <2>3 DEF Rising
    <3> QED
      BY <1>1, <2>2, <3>1
  <2> QED
    BY <2>1, <2>3, <2>4 DEF Rising
<1> QED
  BY <1>2 DEF ReportInv

\* Each part of a report counts the delegations there are at its time.
LEMMA ReportReport ==
  ASSUME RuntimeTypes, ReportInv, NEW c \in Clients, ReportAction(c), IsFiniteSet(delegations)
  PROVE  ReportInv'
<1> DEFINE total == Cardinality(delegations)
<1>1. total \in Nat
  BY FS_CardinalityType
<1>2. Only(c) /\ UNCHANGED delegations
  BY <1>1, ReportEffect DEF agentVars
<1>3. ASSUME work'[c].at = "report"
      PROVE  Rising(c)'
  <2>1. CASE Len(work'[c].parts) = 0
    BY <2>1 DEF Rising
  <2>2. ASSUME work[c].at = "report", work[c].parts \in Seq(Nat), Len(work[c].parts) < 3,
               work'[c].parts = Append(work[c].parts, total)
        PROVE  Rising(c)'
    <3> DEFINE s == work[c].parts
    <3>1. \A p \in 1 .. Len(s) : s[p] <= total /\ s[p] \in Nat /\ \A r \in 1 .. p : s[r] <= s[p]
      BY <2>2 DEF ReportInv, Rising
    <3>2. s \in Seq(Nat) /\ Len(s) \in Nat /\ Len(s) < 3
      BY <2>2
    <3> HIDE DEF s, total
    <3>3. /\ Len(Append(s, total)) = Len(s) + 1 /\ Append(s, total)[Len(s) + 1] = total
          /\ \A p \in 1 .. Len(s) : Append(s, total)[p] = s[p]
      BY <1>1, <3>2
    <3>4. ASSUME NEW p \in 1 .. Len(s) + 1, NEW r \in 1 .. p
          PROVE  Append(s, total)[p] <= total /\ Append(s, total)[r] <= Append(s, total)[p]
      <4>1. CASE p \in 1 .. Len(s)
        <5>1. r \in 1 .. Len(s)
          BY <3>2, <4>1
        <5> QED
          BY <3>1, <3>3, <4>1, <5>1
      <4>2. CASE p = Len(s) + 1
        <5>1. r \in 1 .. Len(s) \/ r = Len(s) + 1
          BY <3>2, <4>2
        <5> QED
          BY <1>1, <3>1, <3>3, <4>2, <5>1
      <4> QED
        BY <3>2, <4>1, <4>2
    <3>5. \A p \in 1 .. Len(s) + 1 : p \in 1 .. p
      BY <3>2
    <3>6. work'[c].parts = Append(s, total)
      BY <2>2 DEF s, total
    <3> QED
      BY <1>2, <3>2, <3>3, <3>4, <3>5, <3>6 DEF total, Rising
  <2> QED
    BY <1>1, <1>3, <2>1, <2>2, ReportEffect
<1>4. ASSUME NEW d \in Clients, d # c, work'[d].at = "report"
      PROVE  Rising(d)'
  BY <1>2, <1>4 DEF Only, ReportInv, Rising
<1> QED
  BY <1>2, <1>3, <1>4 DEF ReportInv

\* A step that draws no number leaves the sequence as it is.
LEMMA SequenceSteps ==
  ASSUME RuntimeTypes, SequenceInv, ItemIds \subseteq ItemIds', sequence' = sequence,
         \A d \in Clients : Numberless(d)' =>
           \/ Numberless(d) /\ work'[d].id = work[d].id
           \/ work'[d].id \notin ItemIds
  PROVE  SequenceInv'
<1>1. PICK drawn \in SUBSET ItemIds :
        /\ Cardinality(drawn) = sequence
        /\ \A d \in Clients : Numberless(d) => work[d].id \notin drawn
  BY DEF SequenceInv
<1>2. /\ drawn \in SUBSET ItemIds' /\ Cardinality(drawn) = sequence'
      /\ \A d \in Clients : Numberless(d)' => work'[d].id \notin drawn
  BY <1>1
<1> QED
  BY <1>2 DEF SequenceInv

\* Who draws gets the next number, which nobody had.
LEMMA DrawSequence ==
  ASSUME RuntimeTypes, MailInv, SequenceInv, NEW c \in Clients, DrawNumber(c)
  PROVE  SequenceInv'
<1>0. work[c].at = "draw" /\ work[c].id \in ItemIds /\ Numberless(c) /\ Holds(c)
  BY DEF DrawNumber, MailInv, HeldOnce, Serves, Holds, Numberless
<1> DEFINE it == work[c].id
<1>1. /\ Only(c) /\ work'[c].at = "push" /\ sequence' = sequence + 1 /\ ItemIds' = ItemIds
  BY <1>0, DrawEffect
<1>2. PICK drawn \in SUBSET ItemIds :
        /\ Cardinality(drawn) = sequence
        /\ \A d \in Clients : Numberless(d) => work[d].id \notin drawn
  BY DEF SequenceInv
<1>3. IsFiniteSet(drawn) /\ it \notin drawn
  BY <1>0, <1>2, FiniteItems
<1>4. Cardinality(drawn \cup {it}) = sequence'
  BY <1>1, <1>2, <1>3, FS_AddElement
<1>5. \A d \in Clients : Numberless(d)' => work'[d].id \notin drawn \cup {it}
  BY <1>0, <1>1, <1>2 DEF Numberless, Only, MailInv, HeldOnce, Holds
<1>6. drawn \cup {it} \in SUBSET ItemIds'
  BY <1>0, <1>1
<1> QED
  BY <1>4, <1>5, <1>6 DEF SequenceInv

\* At first there is no item, no message and nobody at work.
LEMMA RuntimeInitInv == AgentsInit => RuntimeInv
<1> SUFFICES ASSUME AgentsInit PROVE RuntimeInv
  OBVIOUS
<1>1. /\ items = << >> /\ before = << >> /\ delivered = << >> /\ sequence = 0
      /\ queues = [n \in Names |-> {}] /\ work = [c \in Clients |-> NoWork]
      /\ attached = {} /\ delegations = {} /\ remembered = {} /\ escalated = {} /\ ~starved
  BY DEF AgentsInit
<1>2. RuntimeTypes
  BY <1>1, RuntimeAssumption DEF RuntimeTypes
<1>3. ItemIds = {} /\ \A c \in Clients : work[c].at = "none"
  BY <1>1 DEF ItemIds, NoWork
<1>4. MailInv
  BY <1>1, <1>3 DEF MailInv, HeldOnce, QueuedOnce, ReceivedOnce, NumbersFollow, NoOvertaking,
                    Serves, Holds, Numberless
<1>5. PopInv /\ ReportInv /\ TalesInv
  BY <1>1, <1>3 DEF PopInv, ReportInv, TalesInv, ThreadTales, Serves, Holds, Numberless
<1>6. SequenceInv
  BY <1>1, <1>3, FS_EmptySet DEF SequenceInv, Numberless
<1> QED
  BY <1>2, <1>4, <1>5, <1>6 DEF RuntimeInv

\* Every step of the runtime keeps all parts of the invariant.
LEMMA RuntimeStep == RuntimeInv /\ [AgentsNext]_runtimeVars => RuntimeInv'
<1> SUFFICES ASSUME RuntimeInv, [AgentsNext]_runtimeVars PROVE RuntimeInv'
  OBVIOUS
<1>0. RuntimeTypes /\ MailInv /\ PopInv /\ TalesInv /\ ReportInv /\ SequenceInv /\ HeldOnce
  BY DEF RuntimeInv, MailInv
<1>f. IsFiniteSet(delegations) /\ Cardinality(delegations) \in Nat
  BY <1>0, FiniteItems DEF TalesInv
<1>r. \A d \in Clients : Holds(d) => Serves(d)
  BY DEF Serves
<1>1. ASSUME NEW c \in Clients, NEW item \in Records, BeginWork(c, item)
      PROVE  RuntimeInv'
  <2>1. /\ RuntimeTypes' /\ Only(c) /\ work'[c].at \in {"attach", "draw"}
        /\ work'[c].id \notin ItemIds /\ ItemIds \subseteq ItemIds'
        /\ delegations \subseteq delegations'
        /\ UNCHANGED <<queues, sequence, starved>>
    BY <1>0, <1>1, NewEffect
  <2>2. MailInv' /\ TalesInv'
    BY <1>0, <1>1, NewMail, NewTales
  <2>3. PopInv'
    BY <1>0, <2>1, GrowingPop DEF Only
  <2>4. IsFiniteSet(delegations')
    <3>1. delegations' \subseteq delegations \cup {Len(items) + 1}
      BY <1>0, <1>1, NewEffect
    <3>2. IsFiniteSet(delegations \cup {Len(items) + 1})
      BY <1>f, FS_AddElement
    <3> QED
      BY <3>1, <3>2, FS_Subset
  <2>5. ReportInv'
    BY <1>0, <2>1, <2>4, GrowingReport DEF Only
  <2>6. SequenceInv'
    BY <1>0, <2>1, SequenceSteps DEF Only, Numberless
  <2> QED
    BY <2>1, <2>2, <2>3, <2>5, <2>6 DEF RuntimeInv
<1>2. ASSUME NEW c \in Clients, DrawNumber(c)
      PROVE  RuntimeInv'
  <2>1. work[c].at = "draw" /\ work[c].id \in ItemIds
    BY <1>0, <1>2 DEF DrawNumber, HeldOnce, Serves, Holds, Numberless
  <2>2. /\ RuntimeTypes' /\ Only(c) /\ work'[c].at = "push" /\ work'[c].id = work[c].id
        /\ UNCHANGED <<items, agentVars, queues, delivered, starved>>
    BY <1>0, <1>2, <2>1, DrawEffect
  <2>3. MailInv' /\ SequenceInv'
    BY <1>0, <1>2, DrawMail, DrawSequence
  <2>4. PopInv'
    BY <1>0, <2>2, GrowingPop DEF Only
  <2>5. ReportInv'
    BY <1>0, <1>f, <2>2, GrowingReport DEF Only, agentVars
  <2>6. TalesInv'
    <3>1. \A i \in ItemIds : IsQueued(i)' \/ IsDelivered(i)' <=> IsQueued(i) \/ IsDelivered(i)
      BY <2>2 DEF IsQueued, IsDelivered
    <3>2. \A d \in Clients : /\ Holds(d) => Holds(d)' /\ work'[d].id = work[d].id
                             /\ Serves(d)' => Serves(d) /\ work'[d].id = work[d].id
                             /\ work'[d].at \in {"attach", "remember", "escalate"} => work'[d].at = work[d].at
                             /\ work[d].at = "attach" => work'[d].at = "attach"
      BY <2>1, <2>2 DEF Only, Serves, Holds, Numberless
    <3> QED
      BY <1>0, <2>2, <3>1, <3>2, QuietTales
  <2> QED
    BY <2>2, <2>3, <2>4, <2>5, <2>6 DEF RuntimeInv
<1>3. ASSUME NEW c \in Clients, PushMessage(c)
      PROVE  RuntimeInv'
  <2>1. work[c].at = "push" /\ work[c].id \in ItemIds
    BY <1>0, <1>3 DEF PushMessage, HeldOnce, Serves, Holds
  <2>2. /\ RuntimeTypes' /\ Only(c) /\ work'[c].at \in {"none", "remember", "escalate"}
        /\ ItemIds' = ItemIds /\ UNCHANGED <<delegations, sequence, starved>>
    BY <1>0, <1>3, <2>1, PushEffect DEF agentVars
  <2>3. MailInv' /\ TalesInv'
    BY <1>0, <1>3, PushMail, PushTales
  <2>4. \A n \in Names : queues[n] \subseteq queues'[n]
    BY <1>0, <1>3, <2>1, PushEffect DEF RuntimeTypes
  <2>5. PopInv'
    BY <1>0, <2>2, <2>4, GrowingPop DEF Only
  <2>6. ReportInv'
    BY <1>0, <1>f, <2>2, GrowingReport DEF Only
  <2>7. SequenceInv'
    BY <1>0, <2>2, SequenceSteps DEF Only, Numberless
  <2> QED
    BY <2>2, <2>3, <2>5, <2>6, <2>7 DEF RuntimeInv
<1>4. ASSUME NEW c \in Clients, PopMessage(c)
      PROVE  RuntimeInv'
  <2>1. /\ RuntimeTypes' /\ Only(c) /\ work[c].at = "pop" /\ work'[c].at = "none"
        /\ ItemIds' = ItemIds /\ UNCHANGED <<items, agentVars, sequence>>
    BY <1>0, <1>4, PopEffect
  <2>2. MailInv' /\ PopInv'
    BY <1>0, <1>4, PopMail, PopPop
  <2>3. ReportInv'
    BY <1>0, <1>f, <2>1, GrowingReport DEF Only, agentVars
  <2>4. SequenceInv'
    BY <1>0, <2>1, SequenceSteps DEF Only, Numberless
  <2>5. \A i \in ItemIds : IsQueued(i)' \/ IsDelivered(i)' <=> IsQueued(i) \/ IsDelivered(i)
    <3> DEFINE n == work[c].name
    <3>1. CASE UNCHANGED <<queues, delivered>>
      BY <3>1 DEF IsQueued, IsDelivered
    <3>2. ASSUME NEW e \in queues[n], queues' = [queues EXCEPT ![n] = @ \ {e}],
                 Len(delivered') = Len(delivered) + 1,
                 \A k \in DOMAIN delivered : delivered'[k] = delivered[k],
                 delivered'[Len(delivered) + 1] = e.id
          PROVE  \A i \in ItemIds : IsQueued(i)' \/ IsDelivered(i)' <=> IsQueued(i) \/ IsDelivered(i)
      <4>1. n \in Names
        BY <1>0, <1>4, PopEffect
      <4>2. DOMAIN delivered' = DOMAIN delivered \cup {Len(delivered) + 1}
        BY <1>0, <2>1, <3>2 DEF RuntimeTypes
      <4>3. \A i : IsDelivered(i)' <=> IsDelivered(i) \/ i = e.id
        BY <3>2, <4>2 DEF IsDelivered
      <4>4. /\ queues'[n] = queues[n] \ {e}
            /\ \A m \in Names : m # n => queues'[m] = queues[m]
        BY <1>0, <3>2, <4>1 DEF RuntimeTypes
      <4>5. \A i : IsQueued(i)' \/ i = e.id <=> IsQueued(i)
        BY <3>2, <4>1, <4>4 DEF IsQueued
      <4> QED
        BY <4>3, <4>5
    <3> QED
      BY <1>0, <1>4, <3>1, <3>2, PopEffect
  <2>6. \A d \in Clients : /\ Holds(d) => Holds(d)' /\ work'[d].id = work[d].id
                           /\ Serves(d)' => Serves(d) /\ work'[d].id = work[d].id
                           /\ work'[d].at \in {"attach", "remember", "escalate"} => work'[d].at = work[d].at
                           /\ work[d].at = "attach" => work'[d].at = "attach"
    BY <2>1 DEF Only, Serves, Holds, Numberless
  <2>7. TalesInv'
    BY <1>0, <2>1, <2>5, <2>6, QuietTales
  <2> QED
    BY <2>1, <2>2, <2>3, <2>4, <2>7 DEF RuntimeInv
<1>5. ASSUME NEW c \in Clients,
             \/ AttachTask(c) \/ Remember(c) \/ Escalate(c) \/ ReportAction(c)
             \/ \E n \in Names : LookInQueue(c, n)
      PROVE  RuntimeInv'
  <2>1. Calm /\ RuntimeTypes' /\ starved' = starved
    BY <1>0, <1>f, <1>5, CalmSteps
  <2>2. MailInv' /\ ItemIds' = ItemIds /\ UNCHANGED <<sequence, queues>>
    BY <1>0, <2>1, CalmMail DEF Calm, ItemIds
  <2>3. SequenceInv'
    BY <1>0, <1>r, <2>1, <2>2, SequenceSteps DEF Calm, Serves, Holds
  <2>4. ASSUME ~\E n \in Names : LookInQueue(c, n)
        PROVE  PopInv'
    <3>1. Only(c) /\ work'[c].at # "pop"
      <4>1. CASE AttachTask(c)
        <5>1. work[c].at = "attach" /\ work[c].id \in ItemIds
          BY <1>0, <4>1 DEF AttachTask, HeldOnce, Serves, Holds, Numberless
        <5> QED
          BY <1>0, <4>1, <5>1, AttachEffect
      <4>2. CASE Remember(c) \/ Escalate(c)
        BY <1>0, <4>2 DEF Remember, Escalate, Ends, RuntimeTypes, Only, NoWork
      <4>3. CASE ReportAction(c)
        BY <1>0, <1>f, <4>3, ReportEffect
      <4> QED
        BY <1>5, <2>4, <4>1, <4>2, <4>3
    <3> QED
      BY <1>0, <2>1, <2>2, <3>1, GrowingPop DEF Only
  <2>5. PopInv'
    BY <1>0, <1>5, <2>4, LookPop
  <2>6. CASE AttachTask(c)
    <3>1. work[c].at = "attach" /\ work[c].id \in ItemIds
      BY <1>0, <2>6 DEF AttachTask, HeldOnce, Serves, Holds, Numberless
    <3>2. Only(c) /\ work'[c].at # "report" /\ UNCHANGED delegations
      BY <1>0, <2>6, <3>1, AttachEffect
    <3>3. ReportInv'
      BY <1>0, <1>f, <3>2, GrowingReport DEF Only
    <3> QED
      BY <1>0, <2>1, <2>2, <2>3, <2>5, <2>6, <3>3, AttachTales DEF RuntimeInv
  <2>7. CASE Remember(c) \/ Escalate(c)
    <3>1. Only(c) /\ work'[c].at # "report" /\ UNCHANGED delegations
      BY <1>0, <2>7 DEF Remember, Escalate, Ends, RuntimeTypes, Only, NoWork
    <3>2. ReportInv'
      BY <1>0, <1>f, <3>1, GrowingReport DEF Only
    <3> QED
      BY <1>0, <2>1, <2>2, <2>3, <2>5, <2>7, <3>2, LastCallTales DEF RuntimeInv
  <2>8. ASSUME UNCHANGED <<items, agentVars, busVars>>,
               \A d \in Clients : Serves(d) \/ Serves(d)' => work'[d] = work[d]
        PROVE  TalesInv'
    <3>1. \A i \in ItemIds : IsQueued(i)' \/ IsDelivered(i)' <=> IsQueued(i) \/ IsDelivered(i)
      BY <2>8 DEF IsQueued, IsDelivered, busVars
    <3>2. \A d \in Clients : /\ Holds(d) => Holds(d)' /\ work'[d].id = work[d].id
                             /\ Serves(d)' => Serves(d) /\ work'[d].id = work[d].id
                             /\ work'[d].at \in {"attach", "remember", "escalate"} => work'[d].at = work[d].at
                             /\ work[d].at = "attach" => work'[d].at = "attach"
      BY <2>8 DEF Serves, Holds, Numberless
    <3> QED
      BY <1>0, <2>8, <3>1, <3>2, QuietTales
  <2>9. CASE ReportAction(c)
    <3>1. ReportInv'
      BY <1>0, <1>f, <2>9, ReportReport
    <3>2. /\ UNCHANGED <<items, agentVars, busVars>>
          /\ \A d \in Clients : Serves(d) \/ Serves(d)' => work'[d] = work[d]
      BY <1>0, <1>f, <2>9, ReportEffect DEF Only, Serves, Holds, Numberless
    <3> QED
      BY <2>1, <2>2, <2>3, <2>5, <2>8, <3>1, <3>2 DEF RuntimeInv
  <2>10. ASSUME NEW n \in Names, LookInQueue(c, n)
         PROVE  RuntimeInv'
    <3>1. /\ UNCHANGED <<items, agentVars, busVars>>
          /\ \A d \in Clients : Serves(d) \/ Serves(d)' => work'[d] = work[d]
          /\ \A d \in Clients : work'[d].at = "report" => work'[d] = work[d]
      BY <1>0, <2>10, LookEffect DEF Serves, Holds, Numberless
    <3>2. ReportInv'
      BY <1>0, <1>f, <3>1, GrowingReport DEF agentVars
    <3> QED
      BY <2>1, <2>2, <2>3, <2>5, <2>8, <3>1, <3>2 DEF RuntimeInv
  <2> QED
    BY <1>5, <2>6, <2>7, <2>9, <2>10
<1>6. CASE UNCHANGED runtimeVars
  <2>1. Calm /\ RuntimeTypes'
    BY <1>0, <1>6 DEF runtimeVars, Calm, Serves, Holds, Numberless, RuntimeTypes
  <2>2. MailInv'
    BY <1>0, <2>1, CalmMail
  <2>3. PopInv' /\ ReportInv'
    BY <1>0, <1>6 DEF runtimeVars, PopInv, ReportInv, Rising
  <2>4. TalesInv'
    BY <1>0, <1>6 DEF runtimeVars, TalesInv, ThreadTales, ItemTales, Serves, Holds, Numberless, IsQueued, IsDelivered, ItemIds
  <2>5. SequenceInv'
    BY <1>0, <1>6, SequenceSteps DEF runtimeVars, Numberless, ItemIds
  <2> QED
    BY <2>1, <2>2, <2>3, <2>4, <2>5 DEF RuntimeInv
<1> QED
  BY <1>0, <1>1, <1>2, <1>3, <1>4, <1>5, <1>6, NextCases

\* The invariant of the runtime, from which its theorems follow.
LEMMA RuntimeIsInvariant == AgentsSpec => []RuntimeInv
BY RuntimeInitInv, RuntimeStep, PTL DEF AgentsSpec

(* MessageBus: what a thread sends is queued or received, never twice;     *)
(* what was queued before and is no less urgent is received before; and a  *)
(* pop fails only if another receiver came between.                        *)
THEOREM MailIsAlwaysInOrder == AgentsSpec => []MailInOrder
<1>1. RuntimeInv => MailInOrder
  <2> SUFFICES ASSUME RuntimeInv PROVE MailInOrder
    OBVIOUS
  <2>1. \A i : i \in Queued <=> IsQueued(i)
    BY DEF Queued, IsQueued
  <2>2. DeliveredOnce
    BY <2>1 DEF RuntimeInv, MailInv, ReceivedOnce, DeliveredOnce
  <2>3. NoOvertaking /\ StarvedOnlyByRival
    BY DEF RuntimeInv, MailInv, PopInv, StarvedOnlyByRival
  <2> QED
    BY <2>2, <2>3 DEF MailInOrder
<1> QED
  BY <1>1, RuntimeIsInvariant, PTL

(* MichelleRuntime.create_task and OrchestrationEngine.report: who is told *)
(* of a task finds it in a project, and no part of a report counts more    *)
(* delegations than the next one.                                          *)
THEOREM TalesAreAlwaysTrue == AgentsSpec => []TalesAreTrue
<1>1. RuntimeInv => ToldTasksAreTracked
  <2> SUFFICES ASSUME RuntimeInv, NEW i \in ItemIds, items[i].kind = "task"
               PROVE  /\ i \in Sent \cup escalated => i \in attached
                      /\ ~Working(i) => (i \in Sent <=> ~items[i].blank)
    BY DEF ToldTasksAreTracked
  <2>1. i \in Sent <=> IsQueued(i) \/ IsDelivered(i)
    BY DEF Sent, Queued, IsQueued, IsDelivered
  <2>2. /\ IsQueued(i) \/ IsDelivered(i) \/ i \in escalated => i \in attached
        /\ items[i].blank \/ IsQueued(i) \/ IsDelivered(i) \/ \E c \in Clients : Holds(c) /\ work[c].id = i
        /\ i \in attached => ~items[i].blank
    BY DEF RuntimeInv, TalesInv, ItemTales
  <2>3. ASSUME NEW c \in Clients, Holds(c), work[c].id = i
        PROVE  Working(i)
    <3>1. work[c] \in Requests
      BY <2>3, WorkShape DEF RuntimeInv, Serves
    <3>2. "id" \in DOMAIN work[c]
      BY <3>1 DEF Requests
    <3> QED
      BY <2>3, <3>2 DEF Working
  <2> QED
    BY <2>1, <2>2, <2>3
<1>2. RuntimeInv => ReportPartsNest
  <2> SUFFICES ASSUME RuntimeInv, NEW c \in Clients, work[c].at = "report", Len(work[c].parts) = 3
               PROVE  LET seen(p) == work[c].parts[CHOOSE i \in 1 .. 3 : ReportOrder[i] = p]
                      IN seen("by_agent") <= seen("total") /\ seen("total") <= seen("items")
    BY DEF ReportPartsNest
  <2>1. ReportOrder[1] = "by_agent" /\ ReportOrder[2] = "total" /\ ReportOrder[3] = "items"
    BY DEF ReportOrder
  <2>2. /\ (CHOOSE i \in 1 .. 3 : ReportOrder[i] = "by_agent") = 1
        /\ (CHOOSE i \in 1 .. 3 : ReportOrder[i] = "total") = 2
        /\ (CHOOSE i \in 1 .. 3 : ReportOrder[i] = "items") = 3
    BY <2>1
  <2>3. \A p \in 1 .. 3 : \A r \in 1 .. p : work[c].parts[r] <= work[c].parts[p]
    BY DEF RuntimeInv, ReportInv, Rising
  <2>4. work[c].parts[1] <= work[c].parts[2] /\ work[c].parts[2] <= work[c].parts[3]
    BY <2>3
  <2> QED
    BY <2>2, <2>4
<1> QED
  BY <1>1, <1>2, RuntimeIsInvariant, PTL DEF TalesAreTrue

(* What the bus and the lists of Ju and Michelle hold are items that were  *)
(* asked for, each numbered once at most.                                  *)
THEOREM AgentsTypes == AgentsSpec => []AgentsTypeOK
<1>1. RuntimeInv => AgentsTypeOK
  <2> SUFFICES ASSUME RuntimeInv PROVE AgentsTypeOK
    OBVIOUS
  <2>1. queues \in [Names -> SUBSET [id : ItemIds, priority : Urgencies, number : Nat]]
    <3>1. queues \in [Names -> SUBSET [id : Nat, priority : Urgencies, number : Nat]]
      BY DEF RuntimeInv, RuntimeTypes
    <3>2. ASSUME NEW n \in Names, NEW e \in queues[n]
          PROVE  e \in [id : ItemIds, priority : Urgencies, number : Nat]
      <4>1. e \in [id : Nat, priority : Urgencies, number : Nat] /\ e.id \in ItemIds
        BY <3>1 DEF RuntimeInv, MailInv, QueuedOnce
      <4> HIDE DEF ItemIds
      <4> QED
        BY <4>1
    <3> QED
      BY <3>1, <3>2
  <2>2. Queued \subseteq ItemIds
    BY DEF Queued, RuntimeInv, MailInv, QueuedOnce
  <2>3. sequence <= MaxItems
    <3>1. PICK drawn \in SUBSET ItemIds : Cardinality(drawn) = sequence
      BY DEF RuntimeInv, SequenceInv
    <3>2. Cardinality(drawn) <= Len(items) /\ Cardinality(drawn) \in Nat
      BY <3>1, FiniteItems DEF RuntimeInv
    <3>3. Len(items) \in Nat /\ Len(items) <= MaxItems /\ MaxItems \in Nat
      BY RuntimeAssumption DEF RuntimeInv, RuntimeTypes
    <3> QED
      BY <3>1, <3>2, <3>3
  <2> QED
    BY <2>1, <2>2, <2>3 DEF AgentsTypeOK, RuntimeInv, TalesInv
<1> QED
  BY <1>1, RuntimeIsInvariant, PTL

-----------------------------------------------------------------------------
(* The parts together, as MCAgents composes them: a behaviour of the whole *)
(* is one of every part, so what holds of a part holds in the whole.       *)

(* Parts that share no variable do not disturb each other.                 *)
THEOREM WholeIsEveryPart == MCSpec => Spec /\ GateSpec /\ AgentsSpec /\ MemorySpec /\ ArchiveSpec
<1>1. MCInit => Init /\ GateInit /\ AgentsInit /\ MemoryInit /\ ArchiveInit
  BY DEF MCInit
<1>2. [MCNext]_<<part, vars, gateVars, runtimeVars, memVars, archiveVars>>
        => /\ [Next]_vars /\ [GateNext]_gateVars /\ [AgentsNext]_runtimeVars
           /\ [MemoryNext]_<<memoryVars, michelleVars>> /\ [ArchiveNext]_archiveVars
  BY DEF MCNext, memVars
<1> QED
  BY <1>1, <1>2, PTL DEF MCSpec, Spec, GateSpec, AgentsSpec, MemorySpec, ArchiveSpec

(* Jessie, the bus, the memory files and the archive, next to each other,  *)
(* keep their types, for any number of services, threads and runs.         *)
THEOREM WholeKeepsItsTypes == MCSpec => []TypesOK
<1>1. TypeOK /\ GateTypeOK /\ AgentsTypeOK /\ MemoryTypeOK /\ ArchiveTypeOK => TypesOK
  BY DEF TypesOK
<1> QED
  BY <1>1, WholeIsEveryPart, IntakeTypeCorrect, GateTypeCorrect, AgentsTypes, MemoryIsAlwaysKept,
     ArchiveIsAlwaysSound, PTL
=============================================================================
