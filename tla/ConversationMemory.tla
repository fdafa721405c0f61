-------------------------- MODULE ConversationMemory --------------------------
(***************************************************************************)
(* PersistentMemoryEngine (core/memory/persistent.py) on the memories      *)
(* table.  remember stamps a row when it is flushed and commits it later;  *)
(* SQLite lets one writer commit at a time, so rows may become visible in  *)
(* another order than that of their stamps.  conversation orders by the    *)
(* stamp, and rows with one stamp come in any order; summarize cuts off a  *)
(* prefix of it.                                                           *)
(***************************************************************************)
EXTENDS Naturals, SequencesExt

CONSTANTS
  Rememberers,   \* threads that call remember for the one conversation
  MaxMemories,   \* bound
  MaxClock       \* bound

ASSUME ConversationAssumption == MaxMemories \in Nat /\ MaxClock \in Nat

VARIABLES
  wallClock,       \* datetime.now
  memories,    \* committed rows: [id, at]
  remembering, \* per thread: the row it has stamped, or none
  heard,       \* what the last reader of the conversation was answered
  lateOrTied   \* history: a row was committed after one with its stamp or a later one

conversationVars == <<wallClock, memories, remembering, heard, lateOrTied>>

NotStamped == [id |-> 0, at |-> 0]
Stamped == {remembering[w].id : w \in Rememberers} \ {0}
Known == {m.id : m \in memories} \cup Stamped

ConversationTypeOK ==
  /\ wallClock \in 0 .. MaxClock /\ Known \subseteq 1 .. MaxMemories
  /\ ToSet(heard) \subseteq memories

ConversationInit ==
  /\ wallClock = 0 /\ memories = {} /\ heard = << >> /\ lateOrTied = FALSE
  /\ remembering = [w \in Rememberers |-> NotStamped]
-----------------------------------------------------------------------------
\* session.add and the flush: created_at gets the time of the writer.
Stamp(w, i) ==
  /\ remembering[w] = NotStamped /\ i \notin Known
  /\ remembering' = [remembering EXCEPT ![w] = [id |-> i, at |-> wallClock]]
  /\ UNCHANGED <<wallClock, memories, heard, lateOrTied>>

CommitMemory(w) ==
  /\ remembering[w] # NotStamped
  /\ memories' = memories \cup {remembering[w]}
  /\ lateOrTied' = (lateOrTied \/ \E m \in memories : m.at >= remembering[w].at)
  /\ remembering' = [remembering EXCEPT ![w] = NotStamped]
  /\ UNCHANGED <<wallClock, heard>>

\* No row, and remember raises.
RememberFails(w) ==
  /\ remembering[w] # NotStamped
  /\ remembering' = [remembering EXCEPT ![w] = NotStamped]
  /\ UNCHANGED <<wallClock, memories, heard, lateOrTied>>

NewestFirstSlip(s) == \A j, k \in DOMAIN s : j < k => s[j].at >= s[k].at
\* order_by(created_at).
InOrder(s) == \A j, k \in DOMAIN s : j < k => s[j].at <= s[k].at

ReadConversation ==
  /\ heard' \in {s \in SetToSeqs(memories) : InOrder(s)}
  /\ UNCHANGED <<wallClock, memories, remembering, lateOrTied>>

PassTime ==
  /\ wallClock < MaxClock /\ wallClock' = wallClock + 1
  /\ UNCHANGED <<memories, remembering, heard, lateOrTied>>

ConversationNext ==
  \/ ReadConversation \/ PassTime
  \/ \E w \in Rememberers : \/ CommitMemory(w) \/ RememberFails(w)
                            \/ \E i \in 1 .. MaxMemories : Stamp(w, i)

ConversationSpec == ConversationInit /\ [][ConversationNext]_conversationVars
-----------------------------------------------------------------------------
(* A reader that comes back finds what it was answered, and then more: the *)
(* past of a conversation changes only through rows that were committed    *)
(* out of the order of their stamps.                                       *)
PastStands == [][heard = << >> \/ lateOrTied' \/ IsPrefix(heard, heard')]_conversationVars
=============================================================================
