------------------------------ MODULE MCPlatform ------------------------------
(* Services of the platform that share no table and no variable: a behaviour
   is one of theirs, so that their states add up and do not multiply.
   Settings that only another part reads are fixed.                        *)
EXTENDS Appointments, RefreshTokens, Startup, CRM, CallCenter, ConversationMemory,
        SheetsRateLimit, ProviderSandboxes, ConfigSync, MakeStatus, TLC

VARIABLE part

\* Appointments from instant a to b: naive ones, and aware ones in UTC or
\* with a start two hours east of the end.
Naive(a, b) == [from |-> a, to |-> b, fromZone |-> 0, toZone |-> 0, format |-> "naive"]
Aware(a, b, z) == [from |-> a, to |-> b, fromZone |-> z, toZone |-> 0, format |-> "aware"]
Bookings == {Naive(1, 2), Naive(2, 3), Naive(1, 3), Aware(2, 3, 0), Aware(1, 2, 2)}

Symmetry == Permutations(Calls) \cup Permutations(Ids) \cup Permutations(Processes)

\* The first request creates, and the others delete what it made, are generic,
\* or create too.
RequestsMix ==
  LET first == CHOOSE r \in SandboxIds : TRUE IN
  /\ requests[first].kind = "create"
  /\ \A r \in SandboxIds : requests[r].event = IF requests[r].kind = "delete" THEN first ELSE r

records == <<vars, tokVars, startVars, crmVars, callVars, conversationVars>>
providers == <<limitVars, sandboxVars, configVars, makeVars>>

MCInit ==
  /\ part \in {"appointments", "tokens", "startup", "crm", "calls", "memory",
               "limit", "sandboxes", "config", "make"}
  /\ Init /\ TokensInit /\ StartupInit /\ CrmInit /\ CallsInit /\ ConversationInit /\ LimitInit
  /\ part # "appointments" => \A c, d \in Calls : target[c] = target[d]
  /\ SandboxInit
  /\ RequestsMix
  /\ part # "sandboxes" => settings \in [Services -> [enabled : {FALSE}, mode : {"mock"}, complete : {TRUE}]]
                             /\ \A r \in SandboxIds : requests[r].kind = "create"
  /\ MakeInit
  /\ part # "make" => configured = "no" /\ ~cursorSet
  /\ ConfigInit
  /\ part # "config" => provider = "make" /\ remote.name = (CHOOSE n \in RemoteNames : TRUE)
                         /\ remote.live = (CHOOSE v \in Remotes : TRUE)

MCNext ==
  /\ UNCHANGED part
  /\ \/ /\ UNCHANGED providers
        /\ \/ part = "appointments" /\ Next /\ UNCHANGED <<tokVars, startVars, crmVars, callVars, conversationVars>>
           \/ part = "tokens" /\ TokensNext /\ UNCHANGED <<vars, startVars, crmVars, callVars, conversationVars>>
           \/ part = "startup" /\ StartupNext /\ UNCHANGED <<vars, tokVars, crmVars, callVars, conversationVars>>
           \/ part = "crm" /\ CrmNext /\ UNCHANGED <<vars, tokVars, startVars, callVars, conversationVars>>
           \/ part = "calls" /\ CallsNext /\ UNCHANGED <<vars, tokVars, startVars, crmVars, conversationVars>>
           \/ part = "memory" /\ ConversationNext /\ UNCHANGED <<vars, tokVars, startVars, crmVars, callVars>>
     \/ /\ UNCHANGED records
        /\ \/ part = "limit" /\ LimitNext /\ UNCHANGED <<sandboxVars, configVars, makeVars>>
           \/ part = "sandboxes" /\ SandboxNext /\ UNCHANGED <<limitVars, configVars, makeVars>>
           \/ part = "config" /\ ConfigNext /\ UNCHANGED <<limitVars, sandboxVars, makeVars>>
           \/ part = "make" /\ MakeNext /\ UNCHANGED <<limitVars, sandboxVars, configVars>>

MCSpec == MCInit /\ [][MCNext]_<<part, records, providers>>

(* Every service keeps its types.                                          *)
TypesOK ==
  /\ TypeOK /\ TokensTypeOK /\ StartupTypeOK /\ CrmTypeOK /\ CallsTypeOK /\ ConversationTypeOK
  /\ LimitTypeOK /\ SandboxTypeOK /\ ConfigTypeOK /\ MakeTypeOK
=============================================================================
