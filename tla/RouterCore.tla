----------------------------- MODULE RouterCore -----------------------------
(***************************************************************************)
(* The router as a whole: request handlers (router/internal/proxy) against *)
(* the health worker, the discovery worker and the admin API, all sharing  *)
(* the registry's atomically swapped table (router/internal/registry).     *)
(*                                                                         *)
(* A table is a generation: generation 1 is built at boot, every rescan    *)
(* builds the next one with entries, pools and states of its own, and      *)
(* whoever took a view keeps working on the generation it saw.             *)
(*                                                                         *)
(* Two things are abstracted to what CapacityPool and RouteDecision        *)
(* establish about them: a pool is the set of requests that hold one of    *)
(* its slots, and the candidate sort is a rank on endpoints.               *)
(***************************************************************************)
EXTENDS EndpointState, FiniteSets

CONSTANTS
    Requests,       \* inference requests
    Endpoints,      \* every endpoint id
    Manifest,       \* [Endpoints -> manifest]: Enabled, StaticCapacity, Rank, Runtime, Port
    Seeds,          \* cfg.Endpoints
    Advertised,     \* the endpoints whose manifests the discovery hosts serve
    Fits,           \* [Requests -> SUBSET Endpoints]: what passes the manifest gates
    PortContracts,  \* [runtimes -> [Start, End]]: port_contracts
    NoEndpoint,     \* no endpoint
    Admins,         \* admin requests that may be under way at once
    AdminActions,   \* the endpoint actions they ask for
    MaxGen,         \* bound on the tables built
    MaxPasses,      \* bound on the health worker's passes
    MaxAdminOps     \* bound on the admin's endpoint actions

ASSUME EndpointsAssumption ==
    /\ IsFiniteSet(Requests)
    /\ NoEndpoint \notin Endpoints
    /\ Seeds \subseteq Endpoints /\ Advertised \subseteq Endpoints
    /\ Fits \in [Requests -> SUBSET Endpoints]
    /\ AdminActions \subseteq Actions
    /\ \A e \in Endpoints : /\ Manifest[e].Enabled \in BOOLEAN
                            /\ Manifest[e].StaticCapacity \in Int
                            /\ Manifest[e].Rank \in Nat
    /\ \A d, e \in Endpoints : Manifest[d].Rank = Manifest[e].Rank => d = e

ASSUME RouterBounds == MaxGen \in Nat \ {0} /\ MaxPasses \in Nat /\ MaxAdminOps \in Nat

VARIABLES
    gen,       \* the generation Registry.View() returns
    members,   \* members[g]: the endpoints of table g
    state,     \* state[g][e]: the registry.State of e in table g
    holders,   \* holders[g][e]: the requests that hold a slot of e's pool in table g
    pc,        \* pc[r]: where the handler of r is
    view,      \* view[r]: the table r routes in, 0 before it looked
    unread,    \* unread[r]: the entries the filter has not looked at
    reading,   \* reading[r]: the entry whose flags are being read, and the next flag
    cands,     \* cands[r]: the candidates not yet tried
    sel,       \* sel[r]: the endpoint reserved
    answer,    \* answer[r]: what the client was told
    poll,      \* the health worker's view and the entries it has not probed
    passes,    \* its passes so far
    admin,     \* admin[c]: the action of an admin request between its lookup and its write
    adminOps   \* the admin actions so far

tables   == <<gen, members>>
handlers == <<pc, view, unread, reading, cands, sel, answer>>
control  == <<poll, passes, admin, adminOps>>
vars     == <<tables, state, holders, handlers, control>>

Gens == 1 .. MaxGen

PCs == {"new", "filter", "connect", "stream", "stalled", "release", "done"}

Answers == {"none", "400", "502", "503", "proxied"}

NoFlag   == [ep |-> NoEndpoint, flag |-> "none"]
NoPoll   == [view |-> 0, left |-> {}]
NoAction == [view |-> 0, ep |-> NoEndpoint, action |-> "none"]

\* NewPool raises a capacity below one to one.
Capacity(e) ==
    IF Manifest[e].StaticCapacity < 1 THEN 1 ELSE Manifest[e].StaticCapacity

Full(g, e) == Cardinality(holders[g][e]) >= Capacity(e)

\* manifest.ValidatePortContract
ValidatePortContract(e) ==
    DOMAIN PortContracts # {} =>
        /\ Manifest[e].Runtime \in DOMAIN PortContracts
        /\ Manifest[e].Port \in PortContracts[Manifest[e].Runtime].Start
                                .. PortContracts[Manifest[e].Runtime].End

\* registry.NewTable: a State of its own for every entry.
NewStates == [e \in Endpoints |-> FreshState(Manifest[e].Enabled)]

\* main: the boot table holds the seeds, port contract or not.
Init ==
    /\ gen = 1
    /\ members = [g \in Gens |-> IF g = 1 THEN Seeds ELSE {}]
    /\ state = [g \in Gens |-> NewStates]
    /\ holders = [g \in Gens |-> [e \in Endpoints |-> {}]]
    /\ pc = [r \in Requests |-> "new"]
    /\ view = [r \in Requests |-> 0]
    /\ unread = [r \in Requests |-> {}]
    /\ reading = [r \in Requests |-> NoFlag]
    /\ cands = [r \in Requests |-> {}]
    /\ sel = [r \in Requests |-> NoEndpoint]
    /\ answer = [r \in Requests |-> "none"]
    /\ poll = NoPoll /\ passes = 0
    /\ admin = [c \in Admins |-> NoAction] /\ adminOps = 0

-----------------------------------------------------------------------------
\* The data plane: proxy.ServeHTTP

\* The body cannot be read: 400.
BadBody(r) ==
    /\ pc[r] = "new"
    /\ pc' = [pc EXCEPT ![r] = "done"]
    /\ answer' = [answer EXCEPT ![r] = "400"]
    /\ UNCHANGED <<tables, state, holders, view, unread, reading, cands, sel, control>>

\* The body is read and classified, and the request takes the current table.
TakeView(r) ==
    /\ pc[r] = "new"
    /\ pc' = [pc EXCEPT ![r] = "filter"]
    /\ view' = [view EXCEPT ![r] = gen]
    /\ unread' = [unread EXCEPT ![r] = members[gen]]
    /\ UNCHANGED <<tables, state, holders, reading, cands, sel, answer, control>>

\* orderedCandidates, the next entry in map order: the manifest gates, then the
\* flag Enabled.  Healthy and Draining are read later, without a lock.
FilterEnabled(r, e) ==
    /\ pc[r] = "filter" /\ reading[r] = NoFlag /\ e \in unread[r]
    /\ unread' = [unread EXCEPT ![r] = @ \ {e}]
    /\ reading' = [reading EXCEPT ![r] =
           IF e \in Fits[r] /\ state[view[r]][e].Enabled THEN [ep |-> e, flag |-> "Healthy"]
                                                         ELSE NoFlag]
    /\ UNCHANGED <<tables, state, holders, pc, view, cands, sel, answer, control>>

FilterHealthy(r) ==
    /\ reading[r].flag = "Healthy"
    /\ reading' = [reading EXCEPT ![r] =
           IF state[view[r]][@.ep].Healthy THEN [@ EXCEPT !.flag = "Draining"] ELSE NoFlag]
    /\ UNCHANGED <<tables, state, holders, pc, view, unread, cands, sel, answer, control>>

FilterDraining(r) ==
    /\ reading[r].flag = "Draining"
    /\ cands' = [cands EXCEPT ![r] =
           IF state[view[r]][reading[r].ep].Draining THEN @ ELSE @ \cup {reading[r].ep}]
    /\ reading' = [reading EXCEPT ![r] = NoFlag]
    /\ UNCHANGED <<tables, state, holders, pc, view, unread, sel, answer, control>>

Walking(r) == pc[r] = "filter" /\ unread[r] = {} /\ reading[r] = NoFlag

\* A bug to be caught: the walk starts at the wrong end.
Last(r) == CHOOSE e \in cands[r] : \A d \in cands[r] : Manifest[e].Rank >= Manifest[d].Rank

\* The head of the sorted candidate list.
First(r) == CHOOSE e \in cands[r] : \A d \in cands[r] : Manifest[e].Rank <= Manifest[d].Rank

\* A bug to be caught: the walk gives up at the first full pool.
ReserveOnce(r) ==
    /\ Walking(r) /\ cands[r] # {}
    /\ LET e == First(r)
           g == view[r]
       IN  IF Full(g, e)
           THEN /\ cands' = [cands EXCEPT ![r] = {}]
                /\ UNCHANGED <<holders, pc, sel>>
           ELSE /\ holders' = [holders EXCEPT ![g][e] = @ \cup {r}]
                /\ sel' = [sel EXCEPT ![r] = e]
                /\ pc' = [pc EXCEPT ![r] = "connect"]
                /\ UNCHANGED cands
    /\ UNCHANGED <<tables, state, view, unread, reading, answer, control>>

\* A bug to be caught: one slot too many is handed out.
ReserveOverfull(r) ==
    /\ Walking(r) /\ cands[r] # {}
    /\ LET e == First(r)
           g == view[r]
       IN  IF Cardinality(holders[g][e]) > Capacity(e)
           THEN /\ cands' = [cands EXCEPT ![r] = @ \ {e}]
                /\ UNCHANGED <<holders, pc, sel>>
           ELSE /\ holders' = [holders EXCEPT ![g][e] = @ \cup {r}]
                /\ sel' = [sel EXCEPT ![r] = e]
                /\ pc' = [pc EXCEPT ![r] = "connect"]
                /\ UNCHANGED cands
    /\ UNCHANGED <<tables, state, view, unread, reading, answer, control>>

\* Try the next candidate: take a slot of its pool, or pass on to the next.
Reserve(r) ==
    /\ Walking(r) /\ cands[r] # {}
    /\ LET e == First(r)
           g == view[r]
       IN  IF Full(g, e)
           THEN /\ cands' = [cands EXCEPT ![r] = @ \ {e}]
                /\ UNCHANGED <<holders, pc, sel>>
           ELSE /\ holders' = [holders EXCEPT ![g][e] = @ \cup {r}]
                /\ sel' = [sel EXCEPT ![r] = e]
                /\ pc' = [pc EXCEPT ![r] = "connect"]
                /\ UNCHANGED cands
    /\ UNCHANGED <<tables, state, view, unread, reading, answer, control>>

\* No candidate is left: 503, "all compatible endpoints at static capacity".
Reject(r) ==
    /\ Walking(r) /\ cands[r] = {}
    /\ answer' = [answer EXCEPT ![r] = "503"]
    /\ pc' = [pc EXCEPT ![r] = "done"]
    /\ UNCHANGED <<tables, state, holders, view, unread, reading, cands, sel, control>>

\* forwardSelected: the upstream answers with headers, and they are passed on.
Connect(r) ==
    /\ pc[r] = "connect"
    /\ pc' = [pc EXCEPT ![r] = "stream"]
    /\ answer' = [answer EXCEPT ![r] = "proxied"]
    /\ UNCHANGED <<tables, state, holders, view, unread, reading, cands, sel, control>>

\* A bug to be caught: the error path returns without the deferred release.
ConnectFailLeaks(r) ==
    /\ pc[r] = "connect"
    /\ pc' = [pc EXCEPT ![r] = "done"]
    /\ answer' = [answer EXCEPT ![r] = "502"]
    /\ UNCHANGED <<tables, state, holders, view, unread, reading, cands, sel, control>>

\* The connection fails, times out or the client cancels: 502 from this
\* endpoint, whatever the other candidates.
ConnectFail(r) ==
    /\ pc[r] = "connect"
    /\ pc' = [pc EXCEPT ![r] = "release"]
    /\ answer' = [answer EXCEPT ![r] = "502"]
    /\ UNCHANGED <<tables, state, holders, view, unread, reading, cands, sel, control>>

\* The upstream exchange ends (last byte, client gone, client.Timeout) and
\* streamResponse returns, or is blocked writing to a client that has stopped
\* reading: the server has no write timeout.
StreamEnds(r) ==
    /\ pc[r] = "stream"
    /\ \E p \in {"release", "stalled"} : pc' = [pc EXCEPT ![r] = p]
    /\ UNCHANGED <<tables, state, holders, view, unread, reading, cands, sel, answer, control>>

\* The stalled client reads again or goes away.
Unstall(r) ==
    /\ pc[r] = "stalled"
    /\ pc' = [pc EXCEPT ![r] = "release"]
    /\ UNCHANGED <<tables, state, holders, view, unread, reading, cands, sel, answer, control>>

\* A bug to be caught: the slot is given back to the current table's pool.
ReleaseCurrent(r) ==
    /\ pc[r] = "release"
    /\ holders' = [holders EXCEPT ![gen][sel[r]] = @ \ {r}]
    /\ pc' = [pc EXCEPT ![r] = "done"]
    /\ UNCHANGED <<tables, state, view, unread, reading, cands, sel, answer, control>>

\* The deferred release, to the pool the slot was taken from; nothing is left to
\* do when the watchdog has already taken the lease.
Release(r) ==
    /\ pc[r] = "release"
    /\ holders' = [holders EXCEPT ![view[r]][sel[r]] = @ \ {r}]
    /\ pc' = [pc EXCEPT ![r] = "done"]
    /\ UNCHANGED <<tables, state, view, unread, reading, cands, sel, answer, control>>

Handle(r) ==
    \/ BadBody(r)
    \/ TakeView(r)
    \/ \E e \in Endpoints : FilterEnabled(r, e)
    \/ FilterHealthy(r)
    \/ FilterDraining(r)
    \/ Reserve(r)
    \/ Reject(r)
    \/ Connect(r)
    \/ ConnectFail(r)
    \/ StreamEnds(r)
    \/ Release(r)

-----------------------------------------------------------------------------
\* The control plane: health.Worker, the admin API, discovery.Worker

\* pollAll takes its view and will probe every entry of it.
PollStart ==
    /\ poll = NoPoll /\ passes < MaxPasses /\ members[gen] # {}
    /\ poll' = [view |-> gen, left |-> members[gen]]
    /\ passes' = passes + 1
    /\ UNCHANGED <<tables, state, holders, handlers, admin, adminOps>>

\* One probe answers (or times out) and is applied to the entry it was for.
PollOne(e, ok) ==
    /\ e \in poll.left
    /\ state' = [state EXCEPT ![poll.view][e] = Apply(@, ok)]
    /\ poll' = IF poll.left = {e} THEN NoPoll ELSE [poll EXCEPT !.left = @ \ {e}]
    /\ UNCHANGED <<tables, holders, handlers, passes, admin, adminOps>>

\* handleEndpointAction finds the entry in the current table ...
AdminLookup(c, e, action) ==
    /\ admin[c] = NoAction /\ adminOps < MaxAdminOps /\ e \in members[gen]
    /\ admin' = [admin EXCEPT ![c] = [view |-> gen, ep |-> e, action |-> action]]
    /\ adminOps' = adminOps + 1
    /\ UNCHANGED <<tables, state, holders, handlers, poll, passes>>

\* A bug to be caught: the action is answered but not written.
AdminForget(c) ==
    /\ admin[c] # NoAction
    /\ admin' = [admin EXCEPT ![c] = NoAction]
    /\ UNCHANGED <<tables, state, holders, handlers, poll, passes, adminOps>>

\* ... and writes its flag, then answers ok.  The handlers run at once and take no
\* lock: others may have looked up, written or answered in the meantime.
AdminWrite(c) ==
    /\ admin[c] # NoAction
    /\ state' = [state EXCEPT ![admin[c].view][admin[c].ep] = AdminApply(@, admin[c].action)]
    /\ admin' = [admin EXCEPT ![c] = NoAction]
    /\ UNCHANGED <<tables, holders, handlers, poll, passes, adminOps>>

\* fetchManifest reads into a slice of length 0 (and capacity 64 KiB): Read
\* returns at most as many bytes as the slice is long.
ReadLength == 0

fetchManifest(e) == IF ReadLength = 0 THEN {} ELSE {e}

\* Rescan: seeds and discovered manifests, the port contract, a new table.
Rescan ==
    /\ gen < MaxGen
    /\ LET found == Seeds \cup UNION {fetchManifest(e) : e \in Advertised}
       IN  members' = [members EXCEPT ![gen + 1] = {e \in found : ValidatePortContract(e)}]
    /\ state' = [state EXCEPT ![gen + 1] = NewStates]
    /\ gen' = gen + 1
    /\ UNCHANGED <<holders, handlers, control>>

\* RunLeaseWatchdog takes the lease of a handler stalled past the hard timeout.
\* It visits the current table only.  CapacityPool shows that the lease of a
\* running exchange is never taken.
Reap(r) ==
    /\ pc[r] = "stalled" /\ view[r] = gen /\ r \in holders[gen][sel[r]]
    /\ holders' = [holders EXCEPT ![gen][sel[r]] = @ \ {r}]
    /\ UNCHANGED <<tables, state, handlers, control>>

Next ==
    \/ \E r \in Requests : Handle(r) \/ Unstall(r) \/ Reap(r)
    \/ PollStart
    \/ \E e \in Endpoints, ok \in BOOLEAN : PollOne(e, ok)
    \/ \E c \in Admins : \/ \E e \in Endpoints, a \in AdminActions : AdminLookup(c, e, a)
                        \/ AdminWrite(c)
    \/ Rescan

Spec == Init /\ [][Next]_vars

\* A handler that was started is run on: goroutines are scheduled, client.Timeout
\* ends every upstream exchange, the watchdog ticks for ever.  Nothing makes a
\* request arrive, a stalled client move or the control plane act.
Fairness == \A r \in Requests : WF_vars(Handle(r) /\ pc[r] # "new") /\ WF_vars(Reap(r))

FairSpec == Spec /\ Fairness

-----------------------------------------------------------------------------
\* Properties

\* Types: every view is a table that was built, every entry named is of the
\* view it was taken from.
TypeOK ==
    /\ gen \in Gens
    /\ members \in [Gens -> SUBSET Endpoints]
    /\ state \in [Gens -> [Endpoints -> States]]
    /\ holders \in [Gens -> [Endpoints -> SUBSET Requests]]
    /\ pc \in [Requests -> PCs] /\ answer \in [Requests -> Answers]
    /\ view \in [Requests -> 0 .. gen]
    /\ \A r \in Requests : /\ pc[r] \notin {"new", "done"} => view[r] # 0
                           /\ unread[r] \cup cands[r] \subseteq Endpoints
                           /\ reading[r].ep \in Endpoints \cup {NoEndpoint}
                           /\ reading[r].flag \in {"none", "Healthy", "Draining"}
                           /\ reading[r] = NoFlag \/ pc[r] = "filter"
    /\ sel \in [Requests -> Endpoints \cup {NoEndpoint}]
    /\ poll.view \in 0 .. gen /\ poll.left \subseteq Endpoints
    /\ \A c \in Admins : /\ admin[c].view \in 0 .. gen
                         /\ admin[c].ep \in Endpoints \cup {NoEndpoint}
    /\ passes \in 0 .. MaxPasses /\ adminOps \in 0 .. MaxAdminOps

Holding == {"connect", "stream", "stalled", "release"}

\* A pool's slots are held by the requests being served from it and by no other:
\* across any number of table swaps a slot is taken once, given back to the pool
\* it came from on every exit path, and kept while the exchange runs.
SlotsFollowRequests ==
    \A r \in Requests, g \in Gens, e \in Endpoints :
        /\ r \in holders[g][e] => pc[r] \in Holding /\ view[r] = g /\ sel[r] = e
        /\ pc[r] \in {"connect", "stream"} /\ view[r] = g /\ sel[r] = e => r \in holders[g][e]

\* Every request that was accepted is answered and its slot comes back; only a
\* stalled client can hold a handler up, and its slot stays taken only in a
\* table that has been replaced.
RequestsSettle ==
    <>[](/\ \A r \in Requests : \/ pc[r] = "new"
                                \/ pc[r] \in {"done", "stalled"} /\ answer[r] # "none"
         /\ \A g \in Gens, e \in Endpoints : \A r \in holders[g][e] :
                pc[r] = "stalled" /\ g # gen)

\* The slot a request holds: a pool of the table it routes in.
Place(r) == LET slots == {s \in Gens \X Endpoints : r \in holders[s[1]][s[2]]}
            IN  IF slots = {} THEN <<0, NoEndpoint>> ELSE CHOOSE s \in slots : TRUE

SlotRoom(s) == Capacity(s[2])

Service == INSTANCE AdmissionService WITH
               Pools <- Gens \X Endpoints, Room <- SlotRoom, Nowhere <- <<0, NoEndpoint>>,
               place <- [r \in Requests |-> Place(r)]

\* The router implements the admission service: one slot, one answer, one
\* release per request, in that order, whatever the control plane does.
ImplementsService == Service!Spec

=============================================================================
