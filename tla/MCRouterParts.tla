--------------------------- MODULE MCRouterParts ---------------------------
(***************************************************************************)
(* The two parts of the router that share no state with anything else: one *)
(* routing decision, and one endpoint under the health worker.  A          *)
(* behaviour is of one part; the other stays in one initial state.         *)
(***************************************************************************)
EXTENDS MCRouteDecision, HealthWorker

VARIABLE part  \* "decision" or "health"

partsVars == <<part, decisionVars, healthVars>>

Deciding ==
    /\ part = "decision"
    /\ DecisionInit
    /\ st = FreshState(TRUE) /\ probes = <<>>

Probing ==
    /\ part = "health"
    /\ HealthInit
    /\ body = Chat /\ entries = <<>> /\ walk = <<>> /\ phase = "read"

PartsInit == Deciding \/ Probing

PartsNext ==
    /\ UNCHANGED part
    /\ \/ part = "decision" /\ DecisionNext /\ UNCHANGED healthVars
       \/ part = "health" /\ HealthNext /\ UNCHANGED decisionVars

PartsSpec == PartsInit /\ [][PartsNext]_partsVars
=============================================================================
