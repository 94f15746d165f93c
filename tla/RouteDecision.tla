---------------------------- MODULE RouteDecision ----------------------------
(***************************************************************************)
(* One routing decision of proxy.ServeHTTP before any reservation: a body  *)
(* arrives, is classified, and the table's entries, met in whatever order  *)
(* Go's map iteration yields, become the ordered candidate walk.           *)
(***************************************************************************)
EXTENDS Routing

CONSTANTS
    Bodies,          \* request bodies
    Tables,          \* sets of entries the registry may hold
    ReserveTokens,   \* router.request.context_reserve_tokens
    ReservePercent   \* router.request.context_reserve_percent

\* What the JSON decoder and the manifest loader may yield; ids are distinct,
\* being the keys of the table's map.
RequestBodies ==
    [bytes : Nat, stream : BOOLEAN, maxTokens : Int, maxCompletion : Int, tools : STRING,
     parts : SUBSET STRING]
Manifests ==
    [rank : Nat, Priority : Int, MaxContext : Int, Vision : BOOLEAN, Tools : BOOLEAN,
     Streaming : BOOLEAN]
LiveStates == [Enabled : BOOLEAN, Healthy : BOOLEAN, Draining : BOOLEAN]

ASSUME BodiesAssumption == Bodies \subseteq RequestBodies
ASSUME TablesAssumption ==
    \A T \in Tables :
        /\ IsFiniteSet(T) /\ T \subseteq [Manifest : Manifests, State : LiveStates]
        /\ \A d, e \in T : d # e => d.Manifest.rank # e.Manifest.rank
ASSUME ReserveAssumption == ReserveTokens \in Int /\ ReservePercent \in Nat

VARIABLES
    body,     \* the request being routed
    entries,  \* the table in map iteration order
    walk,     \* the candidates in the order they will be tried
    phase     \* "read" or "routed"

decisionVars == <<body, entries, walk, phase>>

req == Classify(body)

reqCtx == RequiredContext(req.InputTokenEstimate, req.RequestedMaxOutput,
                          ReserveTokens, ReservePercent, body.bytes)

DecisionInit ==
    /\ body \in Bodies
    /\ \E T \in Tables : entries \in SetToSeqs(T)
    /\ walk = <<>>
    /\ phase = "read"

Route ==
    /\ phase = "read"
    /\ walk' = orderedCandidates(entries, req, reqCtx)
    /\ phase' = "routed"
    /\ UNCHANGED <<body, entries>>

DecisionNext == Route

DecisionSpec == DecisionInit /\ [][DecisionNext]_decisionVars

-----------------------------------------------------------------------------
\* Properties

Routed == phase = "routed"

\* Whatever order the map iteration met the entries in, the walk is the one
\* sequence strictly sorted by priority, context and id.
WalkIgnoresMapOrder ==
    Routed => \A i, j \in DOMAIN walk :
                  i < j => Before(walk[i].Manifest, walk[j].Manifest)

\* A candidate has room for the prompt, the requested output and both safety
\* reserves (the percentage to the nearest token), and no compatible, routable
\* entry is left out of the walk.
WalkIsWhatFits ==
    LET fixed == body.bytes \div 4 + req.RequestedMaxOutput
        Fits(m) == /\ m.MaxContext >= fixed + ReserveTokens
                   /\ 800 * (m.MaxContext - fixed) >= 2 * body.bytes * ReservePercent - 399
        Serves(e) == /\ Fits(e.Manifest)
                     /\ body.parts \cap ImageParts # {} => e.Manifest.Vision
                     /\ body.tools = "nonempty" => e.Manifest.Tools
                     /\ body.stream => e.Manifest.Streaming
                     /\ e.State.Enabled /\ e.State.Healthy /\ ~e.State.Draining
    IN  Routed => ToSet(walk) = {e \in ToSet(entries) : Serves(e)}

=============================================================================
