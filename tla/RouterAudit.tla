----------------------------- MODULE RouterAudit -----------------------------
(***************************************************************************)
(* RouterCore with what an observer remembers: which endpoints could have  *)
(* served a request all along, and which the operator had closed before it *)
(* came.  The history variables never constrain a step.                    *)
(***************************************************************************)
EXTENDS RouterCore

VARIABLES
    steady,  \* steady[r]: fit for r, routable and not full ever since r took its view
    closed,  \* the <<table, endpoint, flag>> closed by an answered admin action and not
             \* opened since
    shut     \* shut[r]: what has been closed since before r took its view

auditVars == <<vars, steady, closed, shut>>

Flag(action) == IF action \in {"drain", "undrain"} THEN "drain" ELSE "disable"

\* e can take one more request in table g.
Available(g, e) ==
    /\ state[g][e].Enabled /\ state[g][e].Healthy /\ ~state[g][e].Draining
    /\ ~Full(g, e)

\* Compatible endpoints of r's view that are available now, r's own aside.
OpenTo(r) ==
    {e \in Fits[r] : view[r] # 0 /\ e \in members[view[r]] /\ e # sel[r] /\ Available(view[r], e)}

Gate(act) == <<act.view, act.ep, Flag(act.action)>>

\* The gates some admin request is about to open.
Opening == {Gate(admin[c]) : c \in {d \in Admins : admin[d].action \in {"undrain", "enable"}}}

\* The gates whose closing is answered in this step.
ClosedNow ==
    {Gate(admin[c]) : c \in {d \in Admins : /\ admin[d].action \in {"drain", "disable"}
                                            /\ admin'[d] = NoAction}}

\* Is `gate' the gate of the same endpoint and flag in some table?
Reopened(gate, gates) == \E g \in gates : g[2] = gate[2] /\ g[3] = gate[3]

\* A gate is closed when the action that closes it is answered.  For the operator
\* it is open again as soon as an action that opens it begins, in whatever table,
\* and what a closing that overlaps with an opening leaves is unknown.
ClosedAfter == {gate \in closed \cup ClosedNow : ~Reopened(gate, Opening \cup Opening')}

AuditInit ==
    /\ Init
    /\ steady = [r \in Requests |-> {}]
    /\ closed = {}
    /\ shut = [r \in Requests |-> {}]

Observe ==
    /\ closed' = ClosedAfter
    /\ steady' = [r \in Requests |->
           CASE pc[r] = "new" -> OpenTo(r)'
             [] pc[r] \in {"filter", "connect"} -> steady[r] \cap OpenTo(r)'
             [] OTHER -> steady[r]]
    /\ shut' = [r \in Requests |->
           IF pc[r] = "new" THEN IF view'[r] # 0 THEN closed' ELSE {}
                            ELSE shut[r] \cap closed']

AuditNext == Next /\ Observe

AuditSpec == AuditInit /\ [][AuditNext]_auditVars

FairAuditSpec == AuditSpec /\ Fairness

-----------------------------------------------------------------------------
\* Properties

\* A request is not refused while a compatible endpoint has been in service and
\* free ever since it took its view, whatever the control plane and the other
\* requests did in the meantime.
NoNeedlessRefusal == \A r \in Requests : answer[r] = "503" => steady[r] = {}

\* A request is not sent to a later endpoint of the order while an earlier one
\* has been in service and free ever since it took its view.
EarliestSteadyServes ==
    \A r \in Requests : pc[r] = "connect" =>
        \A e \in steady[r] : Manifest[sel[r]].Rank < Manifest[e].Rank

\* Once a drain or a disable was answered in the table a later request routes in,
\* with no undrain or enable under way, the request is not sent to the endpoint
\* until an undrain or an enable begins, whatever the health worker and the other
\* admin requests write and in whatever order flags are read.
ClosedStaysClosed ==
    \A r \in Requests : pc[r] \in Holding =>
        \A gate \in shut[r] : <<gate[1], gate[2]>> # <<view[r], sel[r]>>

\* The same of every later table: "Drain behavior: ... No new requests assigned."
\* (ultra_fast_local_llm_router_architecture.md:1129-1133) and "Graceful drain
\* means: stop new reservations" (LLM_ROUTER_IMPLEMENTATION_HANDOFF.md:478-481)
\* name no rescan that ends it, but NewTable (table.go:64) starts every entry
\* afresh.
DrainIsRemembered ==
    \A r \in Requests : pc[r] \in Holding =>
        \A gate \in shut[r] : gate[3] = "drain" => gate[2] # sel[r]

=============================================================================
