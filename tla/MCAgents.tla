------------------------------- MODULE MCAgents -------------------------------
(* The parts of the agents that share no variable: a behaviour is one of   *)
(* theirs, so that their states add up and do not multiply.                *)
EXTENDS IntakeStore, JessieGate, AgentsRuntime, MemoryFiles, ContentArchive, TLC

VARIABLE part

Symmetry == Permutations(Conns) \cup Permutations(Clients)

MCPermissions == {<<"dashboard", "summary">>, <<"n8n", "intakes">>}
MCAsked == {<<"n8n", "near", "intakes">>, <<"n8n", "far", "intakes">>,
            <<"admin", "near", "sheet">>, <<"n8n", "near", "sheet">>}

memVars == <<memoryVars, michelleVars>>

MCInit ==
  /\ part \in {"store", "gate", "runtime", "memory", "content"}
  /\ Init /\ GateInit /\ AgentsInit /\ MemoryInit /\ ArchiveInit
  /\ part # "gate" => flags = {}
  /\ part # "content" => backend = "local" /\ closed

MCNext ==
  /\ UNCHANGED part
  /\ \/ part = "store" /\ Next /\ UNCHANGED <<gateVars, runtimeVars, memVars, archiveVars>>
     \/ part = "gate" /\ GateNext /\ UNCHANGED <<vars, runtimeVars, memVars, archiveVars>>
     \/ part = "runtime" /\ AgentsNext /\ UNCHANGED <<vars, gateVars, memVars, archiveVars>>
     \/ part = "memory" /\ MemoryNext /\ UNCHANGED <<vars, gateVars, runtimeVars, archiveVars>>
     \/ part = "content" /\ ArchiveNext /\ UNCHANGED <<vars, gateVars, runtimeVars, memVars>>

MCSpec == MCInit /\ [][MCNext]_<<part, vars, gateVars, runtimeVars, memVars, archiveVars>>

(* Every part of the agents keeps its types.                               *)
TypesOK == TypeOK /\ GateTypeOK /\ AgentsTypeOK /\ MemoryTypeOK /\ ArchiveTypeOK
=============================================================================
