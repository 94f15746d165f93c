---------------------------- MODULE RouterProofs ----------------------------
(***************************************************************************)
(* Proofs about RouterCore for every finite set of requests, every fleet,  *)
(* every port contract and every number of tables, passes and admin        *)
(* actions, and about RouterAudit: what an observer of the router may      *)
(* conclude from what it saw before a request was refused or sent          *)
(* somewhere, for every interleaving of requests and control plane.        *)
(***************************************************************************)
EXTENDS RouterAudit, FiniteSetTheorems, WellFoundedInduction, TLAPS

-----------------------------------------------------------------------------
\* The inductive invariant of RouterCore

Flags == [ep : Endpoints, flag : {"Healthy", "Draining"}]

\* The variables as functions and records: what a handler, a pass or an action
\* remembers of a table names an entry of a table that was built.
Shapes ==
    /\ unread \in [Requests -> SUBSET Endpoints]
    /\ cands \in [Requests -> SUBSET Endpoints]
    /\ reading \in [Requests -> Flags \cup {NoFlag}]
    /\ poll \in [view : 0 .. gen, left : SUBSET Endpoints]
    /\ poll.left # {} => poll.view # 0
    /\ admin \in [Admins -> [view : 0 .. gen, ep : Endpoints \cup {NoEndpoint},
                             action : Actions \cup {"none"}]]
    /\ \A c \in Admins : admin[c] # NoAction =>
          admin[c].view # 0 /\ admin[c].ep \in Endpoints /\ admin[c].action \in Actions

Types == TypeOK /\ Shapes

\* A request that was given a slot knows whose it is.
Selected == \A r \in Requests : pc[r] \in Holding => sel[r] \in Endpoints

\* Nobody is answered before it is refused, connected or failed, and nobody
\* leaves without an answer.
Answered ==
    \A r \in Requests :
        /\ pc[r] \in {"new", "filter", "connect"} => answer[r] = "none"
        /\ pc[r] \in {"stream", "stalled"} => answer[r] = "proxied"
        /\ pc[r] \in {"release", "done"} => answer[r] # "none"

Slots == Selected /\ Answered /\ SlotsFollowRequests

IInv == Types /\ Slots

-----------------------------------------------------------------------------
\* Lemmas about the operators

\* The health worker leaves a State a State.
LEMMA ApplyType ==
    ASSUME NEW st \in States, NEW ok \in BOOLEAN
    PROVE  Apply(st, ok) \in States
<1>1. /\ st.HealthSuccesses \in Nat /\ st.HealthFailures \in Nat
      /\ st.Healthy \in BOOLEAN /\ st.Enabled \in BOOLEAN
      /\ st.Draining \in BOOLEAN
  BY DEF States
<1>2. ApplySuccess(st) \in States
  <2>1. PICK h \in BOOLEAN, n \in Nat :
          ApplySuccess(st) = [st EXCEPT !.HealthyNow = TRUE, !.HealthFailures = 0,
                                        !.Healthy = h, !.HealthSuccesses = n]
    <3>1. CASE st.Healthy = FALSE /\ st.HealthSuccesses + 1 >= RecoveryThreshold
      BY <3>1 DEF ApplySuccess
    <3>2. CASE ~(st.Healthy = FALSE /\ st.HealthSuccesses + 1 >= RecoveryThreshold)
      <4>1. ApplySuccess(st) = [st EXCEPT !.HealthyNow = TRUE, !.HealthFailures = 0,
                                          !.Healthy = st.Healthy,
                                          !.HealthSuccesses = st.HealthSuccesses + 1]
        BY <1>1, <3>2 DEF ApplySuccess
      <4>2. st.HealthSuccesses + 1 \in Nat
        BY <1>1
      <4> QED
        BY <1>1, <4>1, <4>2
    <3> QED
      BY <3>1, <3>2
  <2>2. ApplySuccess(st) =
          [Enabled |-> st.Enabled, Healthy |-> h, HealthyNow |-> TRUE,
           Draining |-> st.Draining, HealthFailures |-> 0, HealthSuccesses |-> n]
    BY <2>1 DEF States
  <2> QED
    BY <1>1, <2>2 DEF States
<1>3. ApplyFailure(st) \in States
  <2>1. PICK h \in BOOLEAN, n \in Nat :
          ApplyFailure(st) = [st EXCEPT !.HealthyNow = FALSE, !.HealthSuccesses = 0,
                                        !.Healthy = h, !.HealthFailures = n]
    <3>1. CASE st.Healthy = TRUE /\ st.HealthFailures + 1 >= FailureThreshold
      BY <3>1 DEF ApplyFailure
    <3>2. CASE ~(st.Healthy = TRUE /\ st.HealthFailures + 1 >= FailureThreshold)
      <4>1. ApplyFailure(st) = [st EXCEPT !.HealthyNow = FALSE, !.HealthSuccesses = 0,
                                          !.Healthy = st.Healthy,
                                          !.HealthFailures = st.HealthFailures + 1]
        BY <1>1, <3>2 DEF ApplyFailure
      <4>2. st.HealthFailures + 1 \in Nat
        BY <1>1
      <4> QED
        BY <1>1, <4>1, <4>2
    <3> QED
      BY <3>1, <3>2
  <2>2. ApplyFailure(st) =
          [Enabled |-> st.Enabled, Healthy |-> h, HealthyNow |-> FALSE,
           Draining |-> st.Draining, HealthFailures |-> n, HealthSuccesses |-> 0]
    BY <2>1 DEF States
  <2> QED
    BY <1>1, <2>2 DEF States
<1> QED
  BY <1>2, <1>3 DEF Apply

\* An admin action leaves a State a State.
LEMMA AdminType ==
    ASSUME NEW st \in States, NEW action \in Actions
    PROVE  AdminApply(st, action) \in States
  BY DEF AdminApply, Actions, States

\* A new table's states are States.
LEMMA NewStatesType == NewStates \in [Endpoints -> States]
  BY EndpointsAssumption DEF NewStates, FreshState, States

LEMMA CapacityType == \A e \in Endpoints : Capacity(e) \in Nat \ {0}
  BY EndpointsAssumption DEF Capacity

\* Any set of endpoints that is not empty has one of least rank: the walk always
\* finds the head of what is left of its candidates.
LEMMA FirstIsBest ==
    ASSUME NEW r \in Requests, cands[r] \in SUBSET Endpoints, cands[r] # {}
    PROVE  First(r) \in cands[r] /\ \A d \in cands[r] : Manifest[First(r)].Rank <= Manifest[d].Rank
<1> DEFINE ranks == {Manifest[e].Rank : e \in cands[r]}
           less == OpToRel(<, Nat)
<1>1. ranks \subseteq Nat /\ ranks # {}
  BY EndpointsAssumption
<1>2. IsWellFoundedOn(less, Nat)
  BY NatLessThanWellFounded
<1>3. \A m, n \in Nat : m < n => <<m, n>> \in less
  BY DEF OpToRel
<1> HIDE DEF ranks, less
<1>4. PICK n \in ranks : \A m \in ranks : ~ (<<m, n>> \in less)
  BY <1>1, <1>2, WFMin
<1>5. ASSUME NEW m \in ranks PROVE n <= m
  <2>1. m \in Nat /\ n \in Nat
    BY <1>1
  <2>2. ~ (m < n)
    BY <1>3, <1>4, <2>1, Zenon
  <2> QED
    BY <2>1, <2>2
<1>6. PICK e \in cands[r] : \A d \in cands[r] : Manifest[e].Rank <= Manifest[d].Rank
  BY <1>4, <1>5 DEF ranks
<1> QED
  BY <1>6 DEF First

LEMMA FirstIsCandidate ==
    ASSUME NEW r \in Requests, cands[r] \in SUBSET Endpoints, cands[r] # {}
    PROVE  First(r) \in cands[r]
  BY FirstIsBest

-----------------------------------------------------------------------------
\* Type correctness

\* What the steps need of the types.
LEMMA TypeFacts ==
    ASSUME Types
    PROVE  /\ gen \in Nat \ {0} /\ gen \in Gens
           /\ \A r \in Requests : view[r] \in Nat /\ view[r] <= gen
           /\ \A r \in Requests : pc[r] \notin {"new", "done"} => view[r] \in Gens
           /\ poll.left # {} => poll.view \in Gens
           /\ \A c \in Admins : admin[c] # NoAction =>
                /\ admin[c].view \in 1 .. gen /\ admin[c].view \in Gens
                /\ admin[c].ep \in Endpoints /\ admin[c].action \in Actions
<1>1. gen \in 1 .. MaxGen /\ MaxGen \in Nat /\ gen \in Nat \ {0}
  BY RouterBounds DEF Types, TypeOK, Gens
<1>2. \A v \in 0 .. gen : v \in Nat /\ v <= gen /\ (v # 0 => v \in Gens)
  BY <1>1 DEF Gens
<1>3. \A r \in Requests : view[r] \in 0 .. gen /\ (pc[r] \notin {"new", "done"} => view[r] # 0)
  BY DEF Types, TypeOK
<1>4. poll.view \in 0 .. gen /\ (poll.left # {} => poll.view # 0)
  BY DEF Types, Shapes
<1>5. \A c \in Admins :
        /\ admin[c].view \in 0 .. gen
        /\ admin[c] # NoAction =>
             admin[c].view # 0 /\ admin[c].ep \in Endpoints /\ admin[c].action \in Actions
  BY DEF Types, Shapes
<1> QED
  BY <1>1, <1>2, <1>3, <1>4, <1>5 DEF Gens

\* Changing one pool's holders, or one entry's State, keeps the types.
LEMMA HoldersType ==
    ASSUME NEW h \in [Gens -> [Endpoints -> SUBSET Requests]], NEW g, NEW e, NEW r \in Requests
    PROVE  /\ [h EXCEPT ![g][e] = @ \ {r}] \in [Gens -> [Endpoints -> SUBSET Requests]]
           /\ [h EXCEPT ![g][e] = @ \cup {r}] \in [Gens -> [Endpoints -> SUBSET Requests]]
<1>1. CASE g \in Gens
  <2>1. CASE e \in Endpoints
    BY <1>1, <2>1
  <2>2. CASE e \notin Endpoints
    BY <1>1, <2>2
  <2> QED
    BY <2>1, <2>2
<1>2. CASE g \notin Gens
  BY <1>2
<1> QED
  BY <1>1, <1>2

LEMMA StatesType ==
    ASSUME NEW s \in [Gens -> [Endpoints -> States]], NEW g \in Gens, NEW e \in Endpoints,
           NEW t \in States
    PROVE  [s EXCEPT ![g][e] = t] \in [Gens -> [Endpoints -> States]]
  OBVIOUS

LEMMA TypesInit == Init => Types
<1> SUFFICES ASSUME Init PROVE Types
  OBVIOUS
<1>1. Gens \subseteq Nat /\ 1 \in Gens
  BY RouterBounds DEF Gens
<1>2. NoFlag.ep = NoEndpoint /\ NoFlag.flag = "none"
  BY DEF NoFlag
<1>3. TypeOK
  BY <1>1, <1>2, NewStatesType, EndpointsAssumption, RouterBounds
     DEF Init, TypeOK, PCs, Answers, NoPoll, NoAction
<1>4. Shapes
  BY <1>1, RouterBounds DEF Init, Shapes, NoPoll, NoAction
<1> QED
  BY <1>3, <1>4 DEF Types

\* The steps of a handler before it has reserved only read the tables.
LEMMA TypesRoute ==
    ASSUME Types, NEW r \in Requests,
           \/ BadBody(r) \/ TakeView(r) \/ \E e \in Endpoints : FilterEnabled(r, e)
           \/ FilterHealthy(r) \/ FilterDraining(r) \/ Reject(r)
    PROVE  Types'
<1> USE DEF Types, TypeOK, Shapes, PCs, Answers, NoFlag, tables, control
<1>1. CASE BadBody(r)
  BY <1>1 DEF BadBody
<1>2. CASE TakeView(r)
  BY <1>2, RouterBounds DEF TakeView, Gens
<1>3. ASSUME NEW e \in Endpoints, FilterEnabled(r, e) PROVE Types'
  BY <1>3 DEF FilterEnabled, Flags
<1>4. CASE FilterHealthy(r)
  BY <1>4 DEF FilterHealthy, Flags
<1>5. CASE FilterDraining(r)
  BY <1>5 DEF FilterDraining, Flags
<1>6. CASE Reject(r)
  BY <1>6 DEF Reject, Walking
<1> QED
  BY <1>1, <1>2, <1>3, <1>4, <1>5, <1>6

\* The steps of a handler from its reservation on.
LEMMA TypesServe ==
    ASSUME Types, NEW r \in Requests,
           \/ Reserve(r) \/ Connect(r) \/ ConnectFail(r) \/ StreamEnds(r)
           \/ Unstall(r) \/ Release(r) \/ Reap(r)
    PROVE  Types'
<1> USE DEF Types, TypeOK, Shapes, PCs, Answers, tables, control, handlers
<1>1. CASE Reserve(r)
  <2>1. First(r) \in Endpoints
    BY <1>1, FirstIsCandidate DEF Reserve
  <2>2. UNCHANGED <<tables, state, view, unread, reading, answer, control>>
    BY <1>1 DEF Reserve
  <2>3. pc[r] = "filter" /\ reading[r] = NoFlag
    BY <1>1 DEF Reserve, Walking
  <2>4. CASE Full(view[r], First(r))
    <3>1. UNCHANGED <<holders, pc, sel>> /\ cands' = [cands EXCEPT ![r] = @ \ {First(r)}]
      BY <1>1, <2>4 DEF Reserve
    <3> QED
      BY <2>2, <3>1
  <2>5. CASE ~Full(view[r], First(r))
    <3>1. /\ holders' = [holders EXCEPT ![view[r]][First(r)] = @ \cup {r}]
          /\ sel' = [sel EXCEPT ![r] = First(r)]
          /\ pc' = [pc EXCEPT ![r] = "connect"]
          /\ cands' = cands
      BY <1>1, <2>5 DEF Reserve
    <3>2. holders' \in [Gens -> [Endpoints -> SUBSET Requests]]
      BY <3>1, HoldersType
    <3> QED
      BY <2>1, <2>2, <2>3, <3>1, <3>2
  <2> QED
    BY <2>4, <2>5
<1>2. CASE Connect(r)
  BY <1>2 DEF Connect
<1>3. CASE ConnectFail(r)
  BY <1>3 DEF ConnectFail
<1>4. CASE StreamEnds(r)
  BY <1>4 DEF StreamEnds
<1>5. CASE Unstall(r)
  BY <1>5 DEF Unstall
<1>6. CASE Release(r)
  <2>1. holders' \in [Gens -> [Endpoints -> SUBSET Requests]]
    BY <1>6, HoldersType DEF Release
  <2> QED
    BY <1>6, <2>1 DEF Release
<1>7. CASE Reap(r)
  <2>1. holders' \in [Gens -> [Endpoints -> SUBSET Requests]]
    BY <1>7, HoldersType DEF Reap
  <2> QED
    BY <1>7, <2>1 DEF Reap
<1> QED
  BY <1>1, <1>2, <1>3, <1>4, <1>5, <1>6, <1>7

\* The steps of the health worker, the admin and the discovery worker.
LEMMA TypesControl ==
    ASSUME Types,
           \/ PollStart \/ \E e \in Endpoints, ok \in BOOLEAN : PollOne(e, ok)
           \/ \E c \in Admins : \/ \E e \in Endpoints, a \in AdminActions : AdminLookup(c, e, a)
                               \/ AdminWrite(c)
           \/ Rescan
    PROVE  Types'
<1> USE DEF Types, TypeOK, Shapes, tables, handlers
<1>1. CASE PollStart
  BY <1>1, RouterBounds DEF PollStart, Gens
<1>2. ASSUME NEW e \in Endpoints, NEW ok \in BOOLEAN, PollOne(e, ok) PROVE Types'
  <2>1. poll.view \in Gens
    BY <1>2, TypeFacts DEF PollOne
  <2>2. state' \in [Gens -> [Endpoints -> States]]
    <3>1. Apply(state[poll.view][e], ok) \in States
      BY <2>1, ApplyType
    <3> QED
      BY <1>2, <2>1, <3>1, StatesType DEF PollOne
  <2>3. /\ poll' \in [view : 0 .. gen, left : SUBSET Endpoints]
        /\ poll'.left # {} => poll'.view # 0
    <3>1. NoPoll \in [view : 0 .. gen, left : SUBSET Endpoints] /\ NoPoll.left = {}
      BY TypeFacts DEF NoPoll
    <3>2. /\ [poll EXCEPT !.left = @ \ {e}] \in [view : 0 .. gen, left : SUBSET Endpoints]
          /\ [poll EXCEPT !.left = @ \ {e}].view = poll.view
      OBVIOUS
    <3> QED
      BY <1>2, <3>1, <3>2 DEF PollOne
  <2> QED
    BY <1>2, <2>2, <2>3 DEF PollOne
<1>3. ASSUME NEW c \in Admins, NEW e \in Endpoints, NEW a \in AdminActions, AdminLookup(c, e, a)
      PROVE  Types'
  <2>1. gen \in 0 .. gen /\ gen # 0 /\ a \in Actions
    BY TypeFacts, EndpointsAssumption
  <2>2. adminOps + 1 \in 0 .. MaxAdminOps
    BY <1>3, RouterBounds DEF AdminLookup
  <2> QED
    BY <1>3, <2>1, <2>2 DEF AdminLookup
<1>4. ASSUME NEW c \in Admins, AdminWrite(c) PROVE Types'
  <2>1. admin[c].view \in Gens /\ admin[c].ep \in Endpoints /\ admin[c].action \in Actions
    BY <1>4, TypeFacts DEF AdminWrite
  <2>2. state' \in [Gens -> [Endpoints -> States]]
    <3>1. AdminApply(state[admin[c].view][admin[c].ep], admin[c].action) \in States
      BY <2>1, AdminType
    <3> QED
      BY <1>4, <2>1, <3>1, StatesType DEF AdminWrite
  <2>3. 0 \in 0 .. gen
    BY TypeFacts
  <2> QED
    BY <1>4, <2>2, <2>3 DEF AdminWrite, NoAction
<1>5. CASE Rescan
  <2>1. gen + 1 \in Gens /\ gen' = gen + 1
    BY <1>5, TypeFacts, RouterBounds DEF Rescan, Gens
  <2>2. members' \in [Gens -> SUBSET Endpoints]
    <3>1. \A e \in Advertised : fetchManifest(e) \subseteq Endpoints
      BY EndpointsAssumption DEF fetchManifest
    <3>2. Seeds \cup UNION {fetchManifest(e) : e \in Advertised} \subseteq Endpoints
      BY <3>1, EndpointsAssumption
    <3> HIDE DEF TypeOK, Shapes
    <3> DEFINE kept == {e \in Seeds \cup UNION {fetchManifest(d) : d \in Advertised} :
                             ValidatePortContract(e)}
    <3>3. kept \subseteq Endpoints
      BY <3>2
    <3>4. members' = [members EXCEPT ![gen + 1] = kept]
      BY <1>5 DEF Rescan
    <3> HIDE DEF kept
    <3> QED
      BY <3>3, <3>4 DEF TypeOK
  <2>3. state' \in [Gens -> [Endpoints -> States]]
    BY <1>5, NewStatesType DEF Rescan
  <2>4. 0 .. gen \subseteq 0 .. gen'
    BY <2>1, TypeFacts
  <2> QED
    BY <1>5, <2>1, <2>2, <2>3, <2>4 DEF Rescan, control
<1> QED
  BY <1>1, <1>2, <1>3, <1>4, <1>5

LEMMA TypesStep == Types /\ [Next]_vars => Types'
<1> SUFFICES ASSUME Types, [Next]_vars PROVE Types'
  OBVIOUS
<1>1. CASE Next
  BY <1>1, TypesRoute, TypesServe, TypesControl DEF Next, Handle
<1>2. CASE UNCHANGED vars
  BY <1>2 DEF vars, tables, handlers, control, Types, TypeOK, Shapes
<1> QED
  BY <1>1, <1>2

\* Whatever the interleaving of requests and control plane, every variable keeps
\* its type, and nobody uses a table that was not built.
THEOREM RouterTypes == Spec => []TypeOK
<1>1. Types => TypeOK
  BY DEF Types
<1> QED
  BY <1>1, TypesInit, TypesStep, PTL DEF Spec

-----------------------------------------------------------------------------
\* Slots

LEMMA SlotsInit == Init => Slots
  BY DEF Init, Slots, Selected, Answered, SlotsFollowRequests, Holding

\* A request that is not being served holds nothing.
LEMMA NothingHeld ==
    ASSUME SlotsFollowRequests, NEW r \in Requests, pc[r] \notin Holding
    PROVE  \A g \in Gens, e \in Endpoints : r \notin holders[g][e]
  BY DEF SlotsFollowRequests

\* Before its reservation a request holds nothing, and its steps take nothing.
LEMMA SlotsRoute ==
    ASSUME Types, Slots, NEW r \in Requests,
           \/ BadBody(r) \/ TakeView(r) \/ \E e \in Endpoints : FilterEnabled(r, e)
           \/ FilterHealthy(r) \/ FilterDraining(r) \/ Reject(r)
    PROVE  Slots'
<1>1. /\ UNCHANGED <<holders, sel>>
      /\ pc[r] \in {"new", "filter"}
      /\ \/ UNCHANGED <<pc, view, answer>>
         \/ /\ pc' = [pc EXCEPT ![r] = "filter"] /\ view' = [view EXCEPT ![r] = gen]
            /\ UNCHANGED answer
         \/ /\ pc' = [pc EXCEPT ![r] = "done"]
            /\ \E a \in {"400", "503"} : answer' = [answer EXCEPT ![r] = a]
            /\ UNCHANGED view
  <2> USE DEF Types, TypeOK
  <2>1. CASE BadBody(r)
    BY <2>1 DEF BadBody
  <2>2. CASE TakeView(r)
    BY <2>2 DEF TakeView
  <2>3. ASSUME NEW e \in Endpoints, FilterEnabled(r, e)
        PROVE  pc[r] = "filter" /\ UNCHANGED <<holders, sel, pc, view, answer>>
    BY <2>3 DEF FilterEnabled
  <2>4. CASE FilterHealthy(r)
    BY <2>4 DEF FilterHealthy, NoFlag
  <2>5. CASE FilterDraining(r)
    BY <2>5 DEF FilterDraining, NoFlag
  <2>6. CASE Reject(r)
    BY <2>6 DEF Reject, Walking
  <2> QED
    BY <2>1, <2>2, <2>3, <2>4, <2>5, <2>6
<1>2. /\ pc \in [Requests -> PCs] /\ answer \in [Requests -> Answers]
      /\ DOMAIN view = Requests
  BY DEF Types, TypeOK
<1>3. \A g \in Gens, e \in Endpoints : r \notin holders[g][e]
  BY <1>1, NothingHeld DEF Slots, Holding
<1>4. \A q \in Requests \ {r} : pc'[q] = pc[q] /\ view'[q] = view[q] /\ answer'[q] = answer[q]
  BY <1>1, <1>2
<1>5. /\ pc'[r] \in {"new", "filter", "done"}
      /\ pc'[r] = "done" => answer'[r] # "none"
      /\ pc'[r] # "done" => answer'[r] = answer[r]
  BY <1>1, <1>2
<1>6. Selected'
  BY <1>1, <1>4, <1>5 DEF Slots, Selected, Holding
<1>7. Answered'
  BY <1>1, <1>4, <1>5 DEF Slots, Answered
<1>8. SlotsFollowRequests'
  BY <1>1, <1>3, <1>4, <1>5 DEF Slots, SlotsFollowRequests, Holding
<1> QED
  BY <1>6, <1>7, <1>8 DEF Slots

\* The reservation takes one slot, of the request's own table, or none.
LEMMA SlotsReserve ==
    ASSUME Types, Slots, NEW r \in Requests, Reserve(r)
    PROVE  Slots'
<1>1. /\ First(r) \in Endpoints /\ view[r] \in Gens
      /\ pc[r] = "filter" /\ UNCHANGED <<view, answer>>
  BY FirstIsCandidate, TypeFacts DEF Reserve, Walking, Types, Shapes
<1>2. /\ pc \in [Requests -> PCs] /\ DOMAIN sel = Requests
      /\ holders \in [Gens -> [Endpoints -> SUBSET Requests]]
  BY DEF Types, TypeOK
<1>3. \A g \in Gens, e \in Endpoints : r \notin holders[g][e]
  BY <1>1, NothingHeld DEF Slots, Holding
<1>4. CASE Full(view[r], First(r))
  <2>1. UNCHANGED <<holders, pc, sel>>
    BY <1>4 DEF Reserve
  <2> QED
    BY <1>1, <2>1 DEF Slots, Selected, Answered, SlotsFollowRequests
<1>5. CASE ~Full(view[r], First(r))
  <2>1. /\ holders' = [holders EXCEPT ![view[r]][First(r)] = @ \cup {r}]
        /\ sel' = [sel EXCEPT ![r] = First(r)]
        /\ pc' = [pc EXCEPT ![r] = "connect"]
    BY <1>5 DEF Reserve
  <2>2. /\ sel'[r] = First(r) /\ pc'[r] = "connect"
        /\ \A q \in Requests \ {r} : sel'[q] = sel[q] /\ pc'[q] = pc[q]
    BY <1>2, <2>1
  <2>3. \A g \in Gens, e \in Endpoints :
          holders'[g][e] = IF g = view[r] /\ e = First(r) THEN holders[g][e] \cup {r}
                                                         ELSE holders[g][e]
    BY <1>1, <1>2, <2>1
  <2>4. Selected'
    BY <1>1, <2>2 DEF Slots, Selected
  <2>5. Answered'
    BY <1>1, <2>2 DEF Slots, Answered
  <2>6. SlotsFollowRequests'
    <3> SUFFICES ASSUME NEW q \in Requests, NEW g \in Gens, NEW e \in Endpoints
                 PROVE  /\ q \in holders'[g][e] => pc'[q] \in Holding /\ view[q] = g /\ sel'[q] = e
                        /\ pc'[q] \in {"connect", "stream"} /\ view[q] = g /\ sel'[q] = e
                              => q \in holders'[g][e]
      BY <1>1 DEF SlotsFollowRequests
    <3>1. CASE q = r
      BY <1>3, <2>2, <2>3, <3>1 DEF Holding
    <3>2. CASE q # r
      <4>1. q \in holders'[g][e] <=> q \in holders[g][e]
        <5>1. \/ holders'[g][e] = holders[g][e] \cup {r}
              \/ holders'[g][e] = holders[g][e]
          BY <2>3
        <5> QED
          BY <3>2, <5>1
      <4> QED
        BY <2>2, <3>2, <4>1 DEF Slots, SlotsFollowRequests
    <3> QED
      BY <3>1, <3>2
  <2> QED
    BY <2>4, <2>5, <2>6 DEF Slots
<1> QED
  BY <1>4, <1>5

\* While a request is being served its slot stays where it is.
LEMMA SlotsServe ==
    ASSUME Types, Slots, NEW r \in Requests,
           Connect(r) \/ ConnectFail(r) \/ StreamEnds(r) \/ Unstall(r)
    PROVE  Slots'
<1>1. /\ UNCHANGED <<holders, sel, view>>
      /\ \/ /\ pc[r] = "connect" /\ pc' = [pc EXCEPT ![r] = "stream"]
            /\ answer' = [answer EXCEPT ![r] = "proxied"]
         \/ /\ pc[r] = "connect" /\ pc' = [pc EXCEPT ![r] = "release"]
            /\ answer' = [answer EXCEPT ![r] = "502"]
         \/ /\ pc[r] = "stream" /\ answer' = answer
            /\ \E p \in {"release", "stalled"} : pc' = [pc EXCEPT ![r] = p]
         \/ /\ pc[r] = "stalled" /\ answer' = answer /\ pc' = [pc EXCEPT ![r] = "release"]
  BY DEF Connect, ConnectFail, StreamEnds, Unstall
<1>2. pc \in [Requests -> PCs] /\ answer \in [Requests -> Answers]
  BY DEF Types, TypeOK
<1>3. \A q \in Requests \ {r} : pc'[q] = pc[q] /\ answer'[q] = answer[q]
  BY <1>1, <1>2
<1>4. /\ pc[r] \in Holding /\ pc'[r] \in {"stream", "stalled", "release"}
      /\ pc'[r] = "stream" => pc[r] = "connect"
      /\ pc'[r] \in {"stream", "stalled"} => answer'[r] = "proxied"
      /\ answer'[r] # "none"
  BY <1>1, <1>2 DEF Slots, Answered, Holding
<1>5. Selected'
  BY <1>1, <1>3, <1>4 DEF Slots, Selected, Holding
<1>6. Answered'
  BY <1>3, <1>4 DEF Slots, Answered
<1>7. SlotsFollowRequests'
  BY <1>1, <1>3, <1>4 DEF Slots, SlotsFollowRequests, Holding
<1> QED
  BY <1>5, <1>6, <1>7 DEF Slots

\* A slot given back, by the handler or by the watchdog, is the request's own.
LEMMA SlotsReturn ==
    ASSUME Types, Slots, NEW r \in Requests, Release(r) \/ Reap(r)
    PROVE  Slots'
<1>1. /\ holders' = [holders EXCEPT ![view[r]][sel[r]] = @ \ {r}]
      /\ UNCHANGED <<view, sel, answer>>
      /\ \/ pc[r] = "release" /\ pc' = [pc EXCEPT ![r] = "done"]
         \/ pc[r] = "stalled" /\ pc' = pc
  BY DEF Release, Reap, handlers
<1>2. /\ pc \in [Requests -> PCs]
      /\ holders \in [Gens -> [Endpoints -> SUBSET Requests]]
  BY DEF Types, TypeOK
<1>3. view[r] \in Gens /\ sel[r] \in Endpoints
  BY <1>1, TypeFacts DEF Slots, Selected, Holding
<1>4. \A g \in Gens, e \in Endpoints :
        holders'[g][e] = IF g = view[r] /\ e = sel[r] THEN holders[g][e] \ {r}
                                                     ELSE holders[g][e]
  BY <1>1, <1>2, <1>3
<1>5. /\ \A q \in Requests \ {r} : pc'[q] = pc[q]
      /\ pc[r] \in {"release", "stalled"} /\ pc'[r] \in {"stalled", "done"}
      /\ pc'[r] = "stalled" => pc[r] = "stalled"
  BY <1>1, <1>2
<1>6. Selected'
  BY <1>1, <1>5 DEF Slots, Selected, Holding
<1>7. Answered'
  BY <1>1, <1>5 DEF Slots, Answered
<1>8. SlotsFollowRequests'
  <2> SUFFICES ASSUME NEW q \in Requests, NEW g \in Gens, NEW e \in Endpoints
               PROVE  /\ q \in holders'[g][e] => pc'[q] \in Holding /\ view[q] = g /\ sel[q] = e
                      /\ pc'[q] \in {"connect", "stream"} /\ view[q] = g /\ sel[q] = e
                            => q \in holders'[g][e]
    BY <1>1 DEF SlotsFollowRequests
  <2>1. /\ q \in holders[g][e] => pc[q] \in Holding /\ view[q] = g /\ sel[q] = e
        /\ pc[q] \in {"connect", "stream"} /\ view[q] = g /\ sel[q] = e => q \in holders[g][e]
    BY DEF Slots, SlotsFollowRequests
  <2>2. CASE q = r
    BY <1>4, <1>5, <2>1, <2>2
  <2>3. CASE q # r
    BY <1>4, <1>5, <2>1, <2>3
  <2> QED
    BY <2>2, <2>3
<1> QED
  BY <1>6, <1>7, <1>8 DEF Slots

\* The control plane does not touch slots.
LEMMA ControlKeepsHandlers ==
    ASSUME \/ PollStart \/ \E e \in Endpoints, ok \in BOOLEAN : PollOne(e, ok)
           \/ \E c \in Admins : \/ \E e \in Endpoints, a \in AdminActions : AdminLookup(c, e, a)
                               \/ AdminWrite(c)
           \/ Rescan
    PROVE  UNCHANGED <<holders, handlers>>
  BY DEF PollStart, PollOne, AdminLookup, AdminWrite, Rescan

LEMMA SlotsStep == Types /\ Slots /\ [Next]_vars => Slots'
<1> SUFFICES ASSUME Types, Slots, [Next]_vars PROVE Slots'
  OBVIOUS
<1>1. CASE UNCHANGED <<holders, handlers>>
  BY <1>1 DEF handlers, Slots, Selected, Answered, SlotsFollowRequests
<1>2. ASSUME NEW r \in Requests, Handle(r) \/ Unstall(r) \/ Reap(r) PROVE Slots'
  BY <1>2, SlotsRoute, SlotsReserve, SlotsServe, SlotsReturn DEF Handle
<1>3. UNCHANGED vars => UNCHANGED <<holders, handlers>>
  BY DEF vars
<1> QED
  BY <1>1, <1>2, <1>3, ControlKeepsHandlers DEF Next

\* A slot is held by the request it was given to and by no other, and goes back
\* to the pool it came from, across any number of table swaps.
THEOREM RouterSlots == Spec => []SlotsFollowRequests
<1>1. Init => IInv
  BY TypesInit, SlotsInit DEF IInv
<1>2. IInv /\ [Next]_vars => IInv'
  BY TypesStep, SlotsStep DEF IInv
<1>3. IInv => SlotsFollowRequests
  BY DEF IInv, Slots
<1> QED
  BY <1>1, <1>2, <1>3, PTL DEF Spec

-----------------------------------------------------------------------------
\* The router implements the admission service

\* Place, as a function of the holders.
SlotsIn(h, r) == {s \in Gens \X Endpoints : r \in h[s[1]][s[2]]}

AnyOf(slots) == IF slots = {} THEN <<0, NoEndpoint>> ELSE CHOOSE s \in slots : TRUE

PlaceIn(h, r) == AnyOf(SlotsIn(h, r))

LEMMA PlaceUnfolds ==
    /\ \A r \in Requests : Place(r) = PlaceIn(holders, r)
    /\ \A r \in Requests : Place(r)' = PlaceIn(holders', r)
  BY DEF Place, PlaceIn, SlotsIn, AnyOf

LEMMA PlaceNowhere ==
    ASSUME NEW h, NEW r, \A g \in Gens, e \in Endpoints : r \notin h[g][e]
    PROVE  PlaceIn(h, r) = <<0, NoEndpoint>>
<1>1. SlotsIn(h, r) = {}
  BY DEF SlotsIn
<1> QED
  BY <1>1 DEF PlaceIn, AnyOf

LEMMA PlaceHeld ==
    ASSUME NEW h, NEW r, NEW g \in Gens, NEW e \in Endpoints, r \in h[g][e],
           \A k \in Gens, d \in Endpoints : r \in h[k][d] => k = g /\ d = e
    PROVE  PlaceIn(h, r) = <<g, e>>
<1>1. SlotsIn(h, r) = {<<g, e>>}
  BY DEF SlotsIn
<1> QED
  BY <1>1 DEF PlaceIn, AnyOf

LEMMA PlaceSame ==
    ASSUME NEW h, NEW k, NEW r,
           \A g \in Gens, e \in Endpoints : r \in h[g][e] <=> r \in k[g][e]
    PROVE  PlaceIn(h, r) = PlaceIn(k, r)
<1>1. SlotsIn(h, r) = SlotsIn(k, r)
  BY DEF SlotsIn
<1> QED
  BY <1>1 DEF PlaceIn

\* No slot has the name of no pool.
LEMMA NowhereIsNoSlot ==
    \A g \in Gens, e \in Endpoints : <<g, e>> # <<0, NoEndpoint>>
  BY EndpointsAssumption

LEMMA PlaceOfHolder ==
    ASSUME SlotsFollowRequests, NEW r \in Requests, NEW g \in Gens, NEW e \in Endpoints,
           r \in holders[g][e]
    PROVE  Place(r) = <<g, e>>
<1>1. \A k \in Gens, d \in Endpoints : r \in holders[k][d] => k = g /\ d = e
  BY DEF SlotsFollowRequests
<1>2. SlotsIn(holders, r) = {<<g, e>>}
  BY <1>1 DEF SlotsIn
<1>3. PlaceIn(holders, r) = <<g, e>>
  BY <1>2 DEF PlaceIn, AnyOf
<1> QED
  BY <1>3, PlaceUnfolds

\* A request is where it holds a slot, and only there.
LEMMA PlaceIsSlot ==
    ASSUME SlotsFollowRequests, NEW r \in Requests, NEW g \in Gens, NEW e \in Endpoints
    PROVE  Place(r) = <<g, e>> <=> r \in holders[g][e]
<1>1. CASE \A k \in Gens, d \in Endpoints : r \notin holders[k][d]
  BY <1>1, PlaceNowhere, PlaceUnfolds, NowhereIsNoSlot
<1>2. ASSUME NEW k \in Gens, NEW d \in Endpoints, r \in holders[k][d]
      PROVE  Place(r) = <<g, e>> <=> r \in holders[g][e]
  <2>1. Place(r) = <<k, d>>
    BY <1>2, PlaceOfHolder
  <2>2. r \in holders[g][e] => Place(r) = <<g, e>>
    BY PlaceOfHolder
  <2> QED
    BY <1>2, <2>1, <2>2
<1> QED
  BY <1>1, <1>2

LEMMA ServiceInit == Init => Service!Init
<1> SUFFICES ASSUME Init PROVE Service!Init
  OBVIOUS
<1>1. \A r \in Requests : Place(r) = <<0, NoEndpoint>>
  BY PlaceNowhere, PlaceUnfolds DEF Init
<1> QED
  BY <1>1 DEF Service!Init, Init

\* Turning a request away is a refusal.
LEMMA StepRefuses ==
    ASSUME Types, Slots, NEW r \in Requests, BadBody(r) \/ Reject(r)
    PROVE  Service!Refuse(r)
<1>1. /\ pc[r] \in {"new", "filter"} /\ holders' = holders
      /\ \E a \in {"400", "503"} : answer' = [answer EXCEPT ![r] = a]
  BY DEF BadBody, Reject, Walking
<1>2. answer[r] = "none"
  BY <1>1 DEF Slots, Answered
<1>3. Place(r) = <<0, NoEndpoint>>
  <2>1. \A g \in Gens, e \in Endpoints : r \notin holders[g][e]
    BY <1>1, NothingHeld DEF Slots, Holding
  <2> QED
    BY <2>1, PlaceNowhere, PlaceUnfolds
<1>4. \A q \in Requests : Place(q)' = Place(q)
  BY <1>1, PlaceUnfolds
<1>5. [q \in Requests |-> Place(q)]' = [q \in Requests |-> Place(q)]
  BY <1>4
<1> QED
  BY <1>1, <1>2, <1>3, <1>5 DEF Service!Refuse

\* Taking a slot is an admission, to a pool that has room.
LEMMA StepAdmits ==
    ASSUME Types, Slots, NEW r \in Requests, Reserve(r), ~Full(view[r], First(r))
    PROVE  Service!Admit(r)
<1>1. /\ First(r) \in Endpoints /\ view[r] \in Gens
      /\ pc[r] = "filter" /\ answer' = answer
  BY FirstIsCandidate, TypeFacts DEF Reserve, Walking, Types, Shapes
<1>2. PICK g \in Gens, e \in Endpoints : g = view[r] /\ e = First(r)
  BY <1>1
<1>3. holders' = [holders EXCEPT ![g][e] = @ \cup {r}]
  BY <1>2 DEF Reserve
<1>4. holders \in [Gens -> [Endpoints -> SUBSET Requests]]
  BY DEF Types, TypeOK
<1>5. \A k \in Gens, d \in Endpoints : r \notin holders[k][d]
  BY <1>1, NothingHeld DEF Slots, Holding
<1>6. \A k \in Gens, d \in Endpoints :
        holders'[k][d] = IF k = g /\ d = e THEN holders[k][d] \cup {r} ELSE holders[k][d]
  BY <1>3, <1>4
<1>7. Place(r) = <<0, NoEndpoint>> /\ answer[r] = "none"
  BY <1>1, <1>5, PlaceNowhere, PlaceUnfolds DEF Slots, Answered
<1>8. Place(r)' = <<g, e>>
  <2>1. r \in holders'[g][e]
    BY <1>6
  <2>2. \A k \in Gens, d \in Endpoints : r \in holders'[k][d] => k = g /\ d = e
    BY <1>5, <1>6
  <2> QED
    BY <2>1, <2>2, PlaceHeld, PlaceUnfolds
<1>9. ASSUME NEW q \in Requests, q # r PROVE Place(q)' = Place(q)
  <2>1. \A k \in Gens, d \in Endpoints : q \in holders'[k][d] <=> q \in holders[k][d]
    BY <1>6, <1>9
  <2> QED
    BY <2>1, PlaceSame, PlaceUnfolds
<1>10. [q \in Requests |-> Place(q)]' = [[q \in Requests |-> Place(q)] EXCEPT ![r] = <<g, e>>]
  BY <1>8, <1>9
<1>11. Cardinality({q \in Requests : [t \in Requests |-> Place(t)][q] = <<g, e>>})
         < SlotRoom(<<g, e>>)
  <2>1. {q \in Requests : [t \in Requests |-> Place(t)][q] = <<g, e>>} = holders[g][e]
    BY <1>4, PlaceIsSlot DEF Slots
  <2>2. Cardinality(holders[g][e]) \in Nat
    <3>1. holders[g][e] \in SUBSET Requests
      BY <1>4
    <3>2. IsFiniteSet(holders[g][e])
      BY <3>1, FS_Subset, EndpointsAssumption
    <3> QED
      BY <3>2, FS_CardinalityType
  <2>3. Cardinality(holders[g][e]) < Capacity(e)
    BY <1>2, <2>2, CapacityType DEF Full
  <2> QED
    BY <2>1, <2>3 DEF SlotRoom
<1>12. \E p \in Gens \X Endpoints :
         /\ Cardinality({q \in Requests : [t \in Requests |-> Place(t)][q] = p}) < SlotRoom(p)
         /\ [q \in Requests |-> Place(q)]' = [[q \in Requests |-> Place(q)] EXCEPT ![r] = p]
  <2>1. <<g, e>> \in Gens \X Endpoints
    OBVIOUS
  <2> QED
    BY <1>10, <1>11, <2>1
<1>13. \A S : Service!Cardinality(S) = Cardinality(S)
  BY DEF Service!Cardinality, Cardinality
<1> QED
  BY <1>1, <1>7, <1>12, <1>13 DEF Service!Admit

\* Passing headers on, or failing to connect, is an answer.
LEMMA StepAnswers ==
    ASSUME Types, Slots, NEW r \in Requests, Connect(r) \/ ConnectFail(r)
    PROVE  Service!Answer(r)
<1>1. /\ pc[r] = "connect" /\ holders' = holders
      /\ \E a \in {"502", "proxied"} : answer' = [answer EXCEPT ![r] = a]
  BY DEF Connect, ConnectFail
<1>2. answer[r] = "none"
  BY <1>1 DEF Slots, Answered
<1>3. Place(r) # <<0, NoEndpoint>>
  <2>1. view[r] \in Gens /\ sel[r] \in Endpoints
    BY <1>1, TypeFacts DEF Slots, Selected, Holding
  <2>2. r \in holders[view[r]][sel[r]]
    BY <1>1, <2>1 DEF Slots, SlotsFollowRequests
  <2> QED
    BY <2>1, <2>2, PlaceIsSlot, NowhereIsNoSlot DEF Slots
<1>4. [q \in Requests |-> Place(q)]' = [q \in Requests |-> Place(q)]
  BY <1>1, PlaceUnfolds
<1> QED
  BY <1>1, <1>2, <1>3, <1>4 DEF Service!Answer

\* Giving a slot back is leaving; when the watchdog came first it is nothing.
LEMMA StepLeaves ==
    ASSUME Types, Slots, NEW r \in Requests, Release(r) \/ Reap(r)
    PROVE  Service!Leave(r) \/ UNCHANGED <<holders, answer>>
<1>1. /\ holders' = [holders EXCEPT ![view[r]][sel[r]] = @ \ {r}]
      /\ pc[r] \in {"release", "stalled"} /\ answer' = answer
  BY DEF Release, Reap, handlers
<1>2. PICK g \in Gens, e \in Endpoints : g = view[r] /\ e = sel[r]
  BY <1>1, TypeFacts DEF Slots, Selected, Holding
<1>3. holders \in [Gens -> [Endpoints -> SUBSET Requests]]
  BY DEF Types, TypeOK
<1>4. CASE r \notin holders[g][e]
  <2>1. holders' = holders
    <3>1. holders[g][e] \ {r} = holders[g][e]
      BY <1>4
    <3>2. holders' = [holders EXCEPT ![g] = [holders[g] EXCEPT ![e] = holders[g][e]]]
      BY <1>1, <1>2, <3>1
    <3> QED
      BY <1>3, <3>2
  <2> QED
    BY <1>1, <2>1
<1>5. CASE r \in holders[g][e]
  <2>1. \A k \in Gens, d \in Endpoints :
          holders'[k][d] = IF k = g /\ d = e THEN holders[k][d] \ {r} ELSE holders[k][d]
    BY <1>1, <1>2, <1>3
  <2>2. Place(r) = <<g, e>> /\ answer[r] # "none"
    BY <1>1, <1>5, PlaceIsSlot DEF Slots, Answered
  <2>3. Place(r)' = <<0, NoEndpoint>>
    <3>1. \A k \in Gens, d \in Endpoints : r \in holders[k][d] => k = g /\ d = e
      BY <1>2 DEF Slots, SlotsFollowRequests
    <3>2. \A k \in Gens, d \in Endpoints : r \notin holders'[k][d]
      BY <2>1, <3>1
    <3> QED
      BY <3>2, PlaceNowhere, PlaceUnfolds
  <2>4. ASSUME NEW q \in Requests, q # r PROVE Place(q)' = Place(q)
    <3>1. \A k \in Gens, d \in Endpoints : q \in holders'[k][d] <=> q \in holders[k][d]
      BY <2>1, <2>4
    <3> QED
      BY <3>1, PlaceSame, PlaceUnfolds
  <2>5. [q \in Requests |-> Place(q)]'
          = [[q \in Requests |-> Place(q)] EXCEPT ![r] = <<0, NoEndpoint>>]
    BY <2>3, <2>4
  <2> QED
    BY <1>1, <2>2, <2>5, NowhereIsNoSlot DEF Service!Leave
<1> QED
  BY <1>4, <1>5

LEMMA ServiceStep == Types /\ Slots /\ [Next]_vars => [Service!Next]_(Service!vars)
<1> SUFFICES ASSUME Types, Slots, [Next]_vars PROVE [Service!Next]_(Service!vars)
  OBVIOUS
<1>1. CASE UNCHANGED <<holders, answer>>
  <2>1. [q \in Requests |-> Place(q)]' = [q \in Requests |-> Place(q)]
    BY <1>1, PlaceUnfolds
  <2> QED
    BY <1>1, <2>1 DEF Service!vars
<1>2. ASSUME NEW r \in Requests, Handle(r) \/ Unstall(r) \/ Reap(r)
      PROVE  UNCHANGED <<holders, answer>> \/ Service!Next
  <2>1. \/ UNCHANGED <<holders, answer>>
        \/ BadBody(r) \/ Reject(r)
        \/ Reserve(r) /\ ~Full(view[r], First(r))
        \/ Connect(r) \/ ConnectFail(r)
        \/ Release(r) \/ Reap(r)
    BY <1>2 DEF Handle, TakeView, FilterEnabled, FilterHealthy, FilterDraining, Reserve,
                StreamEnds, Unstall
  <2> QED
    BY <2>1, StepRefuses, StepAdmits, StepAnswers, StepLeaves DEF Service!Next
<1>3. UNCHANGED vars => UNCHANGED <<holders, answer>>
  BY DEF vars, handlers
<1>4. UNCHANGED handlers => UNCHANGED answer
  BY DEF handlers
<1> QED
  BY <1>1, <1>2, <1>3, <1>4, ControlKeepsHandlers DEF Next

\* The router implements the admission service: whatever the control plane does,
\* a request takes at most one slot, of a pool with room, is answered once while
\* it holds it, and gives it back once.
THEOREM RouterRefines == Spec => ImplementsService
<1>1. Init => IInv
  BY TypesInit, SlotsInit DEF IInv
<1>2. IInv /\ [Next]_vars => IInv'
  BY TypesStep, SlotsStep DEF IInv
<1>3. IInv /\ [Next]_vars => [Service!Next]_(Service!vars)
  BY ServiceStep DEF IInv
<1> QED
  BY <1>1, <1>2, <1>3, ServiceInit, PTL DEF Spec, ImplementsService, Service!Spec

-----------------------------------------------------------------------------
\* The inductive invariants of RouterAudit

\* A request that has not come yet has read nothing.
Fresh == \A r \in Requests : pc[r] = "new" => cands[r] = {} /\ reading[r] = NoFlag

\* The filter has not lost sight of an endpoint that could have served all along.
Covered ==
    \A r \in Requests :
        pc[r] = "filter" => steady[r] \subseteq unread[r] \cup cands[r] \cup {reading[r].ep}

SteadyInv == Fresh /\ Covered /\ NoNeedlessRefusal /\ EarliestSteadyServes

\* What a gate says of the State it is about.
Shuts(gate, st) == (gate[3] = "drain" => st.Draining) /\ (gate[3] = "disable" => ~st.Enabled)

GateSet == (1 .. gen) \X Endpoints \X {"drain", "disable"}

\* A gate that is closed is closed in a table that was built, and nobody who
\* would open it is under way.
Gates ==
    /\ closed \subseteq GateSet
    /\ \A gate \in closed : Shuts(gate, state[gate[1]][gate[2]])
    /\ \A gate \in closed : ~Reopened(gate, Opening)

\* What was closed before a request came is not among its candidates, and what
\* was disabled is not even being looked at.
Kept ==
    \A r \in Requests :
        /\ shut[r] \subseteq closed
        /\ pc[r] = "filter" =>
             \A gate \in shut[r] : gate[1] = view[r] =>
                 /\ gate[2] \notin cands[r]
                 /\ gate[3] = "disable" => gate[2] # reading[r].ep

GateInv == Fresh /\ Gates /\ Kept /\ ClosedStaysClosed

-----------------------------------------------------------------------------
\* The steps of a request, seen from the request

\* What a handler keeps to itself.
Local(r) == <<pc[r], view[r], unread[r], reading[r], cands[r], sel[r], answer[r]>>

\* A handler writes nothing of another's.
LEMMA OthersStay ==
    ASSUME Types, NEW r \in Requests, Handle(r) \/ Unstall(r), NEW q \in Requests, q # r
    PROVE  Local(q)' = Local(q)
<1> USE DEF Types, TypeOK, Shapes, Local
<1>1. CASE BadBody(r)
  BY <1>1 DEF BadBody
<1>2. CASE TakeView(r)
  BY <1>2 DEF TakeView
<1>3. ASSUME NEW e \in Endpoints, FilterEnabled(r, e) PROVE Local(q)' = Local(q)
  BY <1>3 DEF FilterEnabled
<1>4. CASE FilterHealthy(r)
  BY <1>4 DEF FilterHealthy
<1>5. CASE FilterDraining(r)
  BY <1>5 DEF FilterDraining
<1>6. CASE Reserve(r)
  BY <1>6 DEF Reserve
<1>7. CASE Reject(r) \/ Connect(r) \/ ConnectFail(r)
  BY <1>7 DEF Reject, Connect, ConnectFail
<1>8. CASE StreamEnds(r) \/ Unstall(r) \/ Release(r)
  BY <1>8 DEF StreamEnds, Unstall, Release
<1> QED
  BY <1>1, <1>2, <1>3, <1>4, <1>5, <1>6, <1>7, <1>8 DEF Handle

\* Whatever happens, a request stays where it is or takes a step of its own.
LEMMA StepsOfOne ==
    ASSUME Types, [Next]_vars, NEW q \in Requests
    PROVE  Local(q)' = Local(q) \/ Handle(q) \/ Unstall(q)
<1>1. UNCHANGED handlers => Local(q)' = Local(q)
  BY DEF handlers, Local
<1>2. UNCHANGED vars => UNCHANGED handlers
  BY DEF vars
<1>3. \A r \in Requests : Reap(r) => UNCHANGED handlers
  BY DEF Reap
<1> QED
  BY <1>1, <1>2, <1>3, OthersStay, ControlKeepsHandlers DEF Next

-----------------------------------------------------------------------------
\* An endpoint that could have served all along

\* What the observer keeps is in service and free when it has looked.
LEMMA SteadyIsOpen ==
    ASSUME Observe, NEW r \in Requests
    PROVE  /\ pc[r] \in {"new", "filter", "connect"} => steady'[r] \subseteq OpenTo(r)'
           /\ pc[r] # "new" => steady'[r] \subseteq steady[r]
           /\ pc[r] \notin {"new", "filter", "connect"} => steady'[r] = steady[r]
  BY DEF Observe

\* What is open to a request, read off its definition.
LEMMA OpenFacts ==
    ASSUME NEW r \in Requests, NEW e \in OpenTo(r)'
    PROVE  /\ e \in Fits[r] /\ e \in Endpoints
           /\ e \in members'[view'[r]] /\ e # sel'[r]
           /\ state'[view'[r]][e].Enabled /\ state'[view'[r]][e].Healthy
           /\ ~state'[view'[r]][e].Draining
           /\ ~Full(view[r], e)' /\ ~(Cardinality(holders'[view'[r]][e]) >= Capacity(e))
  BY EndpointsAssumption DEF OpenTo, Available, Full

LEMMA SteadyStart == AuditInit => SteadyInv
  BY DEF AuditInit, Init, SteadyInv, Fresh, Covered, NoNeedlessRefusal, EarliestSteadyServes

LEMMA FreshStep ==
    ASSUME IInv, Fresh, [Next]_vars
    PROVE  Fresh'
<1> SUFFICES ASSUME NEW r \in Requests, pc'[r] = "new"
             PROVE  cands'[r] = {} /\ reading'[r] = NoFlag
  BY DEF Fresh
<1>1. ASSUME Local(r)' = Local(r) PROVE cands'[r] = {} /\ reading'[r] = NoFlag
  BY <1>1 DEF Local, Fresh
<1>2. ASSUME Handle(r) \/ Unstall(r) PROVE FALSE
  <2> USE DEF Types, TypeOK
  <2>1. pc \in [Requests -> PCs] /\ \A f \in {"Healthy", "Draining"} : reading[r].flag = f => pc[r] = "filter"
    BY DEF IInv, NoFlag
  <2>2. ASSUME \E e \in Endpoints : FilterEnabled(r, e) PROVE FALSE
    BY <2>1, <2>2 DEF FilterEnabled
  <2>3. ASSUME FilterHealthy(r) \/ FilterDraining(r) PROVE FALSE
    BY <2>1, <2>3 DEF FilterHealthy, FilterDraining
  <2>4. ASSUME Reserve(r) PROVE FALSE
    BY <2>1, <2>4 DEF Reserve, Walking
  <2> QED
    BY <1>2, <2>1, <2>2, <2>3, <2>4 DEF Handle, BadBody, TakeView, Reject, Connect, ConnectFail,
       StreamEnds, Release, Unstall
<1> QED
  BY <1>1, <1>2, StepsOfOne DEF IInv

\* One entry is looked at, or one flag of it: only an entry that is not open is
\* lost sight of.
LEMMA CoveredFilter ==
    ASSUME IInv, SteadyInv, Observe, NEW r \in Requests, pc[r] = "filter",
           \/ \E e \in Endpoints : FilterEnabled(r, e)
           \/ FilterHealthy(r) \/ FilterDraining(r)
    PROVE  steady'[r] \subseteq unread'[r] \cup cands'[r] \cup {reading'[r].ep}
<1>1. /\ unread \in [Requests -> SUBSET Endpoints] /\ cands \in [Requests -> SUBSET Endpoints]
      /\ reading \in [Requests -> Flags \cup {NoFlag}]
  BY DEF IInv, Types, Shapes
<1>2. steady[r] \subseteq unread[r] \cup cands[r] \cup {reading[r].ep}
  BY DEF SteadyInv, Covered
<1>3. ASSUME NEW d \in steady'[r]
      PROVE  /\ d \in steady[r] /\ d \in Fits[r] /\ d \in Endpoints
             /\ state'[view'[r]][d].Enabled /\ state'[view'[r]][d].Healthy
             /\ ~state'[view'[r]][d].Draining
  BY SteadyIsOpen, OpenFacts
<1>4. ASSUME NEW e \in Endpoints, FilterEnabled(r, e)
      PROVE  steady'[r] \subseteq unread'[r] \cup cands'[r] \cup {reading'[r].ep}
  <2>1. /\ UNCHANGED <<state, view, cands>> /\ reading[r] = NoFlag
        /\ unread'[r] = unread[r] \ {e}
        /\ e \in Fits[r] /\ state[view[r]][e].Enabled => reading'[r].ep = e
    BY <1>1, <1>4 DEF FilterEnabled
  <2>2. NoFlag.ep \notin Endpoints
    BY EndpointsAssumption DEF NoFlag
  <2> QED
    BY <1>2, <1>3, <2>1, <2>2
<1>5. CASE FilterHealthy(r)
  <2>1. /\ UNCHANGED <<state, view, cands, unread>>
        /\ state[view[r]][reading[r].ep].Healthy => reading'[r].ep = reading[r].ep
    BY <1>1, <1>5 DEF FilterHealthy, Flags, NoFlag
  <2> QED
    BY <1>2, <1>3, <2>1
<1>6. CASE FilterDraining(r)
  <2>1. /\ UNCHANGED <<state, view, unread>>
        /\ cands'[r] = IF state[view[r]][reading[r].ep].Draining THEN cands[r]
                                                               ELSE cands[r] \cup {reading[r].ep}
    BY <1>1, <1>6 DEF FilterDraining
  <2> QED
    BY <1>2, <1>3, <2>1
<1> QED
  BY <1>4, <1>5, <1>6

\* The walk passes on from an endpoint that is full, and takes one that comes
\* before all that are left.
LEMMA SteadyReserve ==
    ASSUME IInv, SteadyInv, Observe, NEW r \in Requests, Reserve(r)
    PROVE  /\ pc'[r] = "filter" =>
                steady'[r] \subseteq unread'[r] \cup cands'[r] \cup {reading'[r].ep}
           /\ pc'[r] = "connect" =>
                \A e \in steady'[r] : Manifest[sel'[r]].Rank < Manifest[e].Rank
<1>1. /\ cands \in [Requests -> SUBSET Endpoints] /\ sel \in [Requests -> Endpoints \cup {NoEndpoint}]
      /\ pc \in [Requests -> PCs]
  BY DEF IInv, Types, TypeOK, Shapes
<1>2. /\ pc[r] = "filter" /\ unread[r] = {} /\ reading[r] = NoFlag /\ cands[r] # {}
      /\ UNCHANGED <<view, unread, reading>>
  BY DEF Reserve, Walking
<1>3. First(r) \in cands[r] /\ First(r) \in Endpoints
  BY <1>1, <1>2, FirstIsCandidate
<1>4. \A d \in cands[r] : Manifest[First(r)].Rank <= Manifest[d].Rank
  BY <1>1, <1>2, FirstIsBest
<1>5. ASSUME NEW d \in steady'[r] PROVE d \in cands[r] /\ d \in OpenTo(r)' /\ d \in Endpoints
  <2>1. d \in steady[r] /\ d \in OpenTo(r)'
    BY <1>2, SteadyIsOpen
  <2>2. d \in Endpoints /\ NoFlag.ep \notin Endpoints
    BY <2>1, OpenFacts, EndpointsAssumption DEF NoFlag
  <2> QED
    BY <1>2, <2>1, <2>2 DEF SteadyInv, Covered
<1>6. CASE Full(view[r], First(r))
  <2>1. /\ cands'[r] = cands[r] \ {First(r)} /\ pc'[r] = "filter"
        /\ UNCHANGED <<holders, view>>
    BY <1>1, <1>2, <1>6 DEF Reserve
  <2>2. First(r) \notin OpenTo(r)'
    BY <1>6, <2>1, OpenFacts DEF Full
  <2> QED
    BY <1>5, <2>1, <2>2
<1>7. CASE ~Full(view[r], First(r))
  <2>1. sel'[r] = First(r) /\ pc'[r] = "connect"
    BY <1>1, <1>7 DEF Reserve
  <2>2. ASSUME NEW d \in steady'[r] PROVE Manifest[sel'[r]].Rank < Manifest[d].Rank
    <3>1. d # First(r) /\ d \in Endpoints /\ d \in cands[r]
      BY <1>5, <2>1, OpenFacts
    <3>2. /\ Manifest[First(r)].Rank \in Nat /\ Manifest[d].Rank \in Nat
          /\ Manifest[First(r)].Rank # Manifest[d].Rank
      BY <1>3, <3>1, EndpointsAssumption
    <3>3. Manifest[First(r)].Rank <= Manifest[d].Rank
      BY <1>4, <3>1
    <3> QED
      BY <2>1, <3>2, <3>3
  <2> QED
    BY <2>1, <2>2
<1> QED
  BY <1>6, <1>7

\* A request's own steps, from its arrival on.
LEMMA SteadyOwn ==
    ASSUME IInv, SteadyInv, Observe, NEW r \in Requests, Handle(r) \/ Unstall(r)
    PROVE  /\ pc'[r] = "filter" =>
                steady'[r] \subseteq unread'[r] \cup cands'[r] \cup {reading'[r].ep}
           /\ answer'[r] = "503" => steady'[r] = {}
           /\ pc'[r] = "connect" =>
                \A e \in steady'[r] : Manifest[sel'[r]].Rank < Manifest[e].Rank
<1>1. /\ pc \in [Requests -> PCs] /\ answer \in [Requests -> Answers]
      /\ view \in [Requests -> 0 .. gen] /\ unread \in [Requests -> SUBSET Endpoints]
      /\ reading[r].flag \in {"Healthy", "Draining"} => pc[r] = "filter"
  BY DEF IInv, Types, TypeOK, Shapes, NoFlag
<1>2. /\ pc[r] \in {"new", "filter", "connect"} => answer[r] = "none"
      /\ pc[r] \in {"stream", "stalled"} => answer[r] = "proxied"
      /\ answer[r] = "503" => steady[r] = {}
  BY DEF IInv, Slots, Answered, SteadyInv, NoNeedlessRefusal
<1>3. CASE BadBody(r)
  <2>1. pc'[r] = "done" /\ answer'[r] = "400"
    BY <1>1, <1>3 DEF BadBody
  <2> QED
    BY <2>1
<1>4. CASE TakeView(r)
  <2>1. /\ pc[r] = "new" /\ pc'[r] = "filter" /\ answer'[r] = answer[r]
        /\ view'[r] = gen /\ unread'[r] = members[gen] /\ members' = members
    BY <1>1, <1>4 DEF TakeView, tables
  <2>2. steady'[r] \subseteq unread'[r]
    BY <2>1, SteadyIsOpen, OpenFacts
  <2> QED
    BY <1>2, <2>1, <2>2
<1>5. CASE (\E e \in Endpoints : FilterEnabled(r, e)) \/ FilterHealthy(r) \/ FilterDraining(r)
  <2>1. pc[r] = "filter" /\ pc' = pc /\ answer' = answer
    BY <1>1, <1>5 DEF FilterEnabled, FilterHealthy, FilterDraining
  <2> QED
    BY <1>2, <1>5, <2>1, CoveredFilter
<1>6. CASE Reserve(r)
  <2>1. pc[r] = "filter" /\ answer' = answer
    BY <1>6 DEF Reserve, Walking
  <2> QED
    BY <1>2, <1>6, <2>1, SteadyReserve
<1>7. CASE Reject(r)
  <2>1. /\ pc[r] = "filter" /\ pc'[r] = "done"
        /\ unread[r] = {} /\ cands[r] = {} /\ reading[r] = NoFlag
    BY <1>1, <1>7 DEF Reject, Walking
  <2>2. steady[r] \subseteq {NoFlag.ep}
    BY <2>1 DEF SteadyInv, Covered
  <2>3. \A d \in steady'[r] : d \in steady[r] /\ d \in Endpoints
    BY <2>1, SteadyIsOpen, OpenFacts
  <2>4. NoFlag.ep \notin Endpoints
    BY EndpointsAssumption DEF NoFlag
  <2> QED
    BY <2>1, <2>2, <2>3, <2>4
<1>8. CASE Connect(r) \/ ConnectFail(r)
  <2>1. pc'[r] \in {"stream", "release"} /\ answer'[r] \in {"proxied", "502"}
    BY <1>1, <1>8 DEF Connect, ConnectFail
  <2> QED
    BY <2>1
<1>9. CASE StreamEnds(r) \/ Unstall(r) \/ Release(r)
  <2>1. /\ pc[r] \in {"stream", "stalled", "release"} /\ answer' = answer
        /\ pc'[r] \in {"release", "stalled", "done"}
    BY <1>1, <1>9 DEF StreamEnds, Unstall, Release
  <2>2. steady'[r] = steady[r]
    BY <2>1, SteadyIsOpen
  <2> QED
    BY <1>2, <2>1, <2>2
<1> QED
  BY <1>3, <1>4, <1>5, <1>6, <1>7, <1>8, <1>9 DEF Handle

LEMMA SteadyStep == IInv /\ SteadyInv /\ [AuditNext]_auditVars => SteadyInv'
<1> SUFFICES ASSUME IInv, SteadyInv, [AuditNext]_auditVars PROVE SteadyInv'
  OBVIOUS
<1>1. CASE UNCHANGED auditVars
  BY <1>1 DEF auditVars, vars, handlers, SteadyInv, Fresh, Covered, NoNeedlessRefusal,
              EarliestSteadyServes
<1>2. CASE AuditNext
  <2>1. Observe /\ [Next]_vars
    BY <1>2 DEF AuditNext
  <2>2. Fresh'
    BY <2>1, FreshStep DEF SteadyInv
  <2>3. ASSUME NEW r \in Requests
        PROVE  /\ pc'[r] = "filter" =>
                    steady'[r] \subseteq unread'[r] \cup cands'[r] \cup {reading'[r].ep}
               /\ answer'[r] = "503" => steady'[r] = {}
               /\ pc'[r] = "connect" =>
                    \A e \in steady'[r] : Manifest[sel'[r]].Rank < Manifest[e].Rank
    <3>1. CASE Local(r)' = Local(r)
      <4>1. /\ pc'[r] = pc[r] /\ unread'[r] = unread[r] /\ cands'[r] = cands[r]
            /\ reading'[r] = reading[r] /\ answer'[r] = answer[r] /\ sel'[r] = sel[r]
        BY <3>1 DEF Local
      <4>2. pc[r] = "new" => answer[r] = "none"
        BY DEF IInv, Slots, Answered
      <4>3. pc[r] # "new" => steady'[r] \subseteq steady[r]
        BY <2>1, SteadyIsOpen
      <4> QED
        BY <4>1, <4>2, <4>3 DEF SteadyInv, Covered, NoNeedlessRefusal, EarliestSteadyServes
    <3>2. CASE Handle(r) \/ Unstall(r)
      BY <2>1, <3>2, SteadyOwn
    <3> QED
      BY <2>1, <3>1, <3>2, StepsOfOne DEF IInv
  <2> QED
    BY <2>2, <2>3 DEF SteadyInv, Covered, NoNeedlessRefusal, EarliestSteadyServes
<1> QED
  BY <1>1, <1>2

\* The observer only watches: what holds of the router holds of the observed one.
LEMMA AuditKeepsIInv ==
    /\ AuditInit => IInv
    /\ IInv /\ [AuditNext]_auditVars => IInv'
<1>1. AuditInit => IInv
  BY TypesInit, SlotsInit DEF AuditInit, IInv
<1>2. [AuditNext]_auditVars => [Next]_vars
  BY DEF AuditNext, auditVars
<1> QED
  BY <1>1, <1>2, TypesStep, SlotsStep DEF IInv

\* A request is not refused while a compatible endpoint has been in service and
\* free ever since it took its view, whoever wrote which flag in between.
THEOREM AuditRefusals == AuditSpec => []NoNeedlessRefusal
<1>1. SteadyInv => NoNeedlessRefusal
  BY DEF SteadyInv
<1> QED
  BY <1>1, SteadyStart, SteadyStep, AuditKeepsIInv, PTL DEF AuditSpec

\* Nor is it sent past such an endpoint to one later in the order.
THEOREM AuditOrder == AuditSpec => []EarliestSteadyServes
<1>1. SteadyInv => EarliestSteadyServes
  BY DEF SteadyInv
<1> QED
  BY <1>1, SteadyStart, SteadyStep, AuditKeepsIInv, PTL DEF AuditSpec

-----------------------------------------------------------------------------
\* An endpoint that was closed before the request came

\* A probe leaves what an operator has set alone.
LEMMA ApplyKeepsGates ==
    ASSUME NEW st \in States, NEW ok \in BOOLEAN
    PROVE  Apply(st, ok).Enabled = st.Enabled /\ Apply(st, ok).Draining = st.Draining
<1>1. ApplySuccess(st).Enabled = st.Enabled /\ ApplySuccess(st).Draining = st.Draining
  BY DEF ApplySuccess, States
<1>2. ApplyFailure(st).Enabled = st.Enabled /\ ApplyFailure(st).Draining = st.Draining
  BY DEF ApplyFailure, States
<1> QED
  BY <1>1, <1>2 DEF Apply

\* An admin action closes its own gate, or opens it, and leaves every other.
LEMMA AdminMovesOneGate ==
    ASSUME NEW st \in States, NEW action \in Actions,
           NEW gate, gate[3] \in {"drain", "disable"}
    PROVE  /\ Shuts(gate, st) /\ (gate[3] = Flag(action) => action \in {"drain", "disable"})
                => Shuts(gate, AdminApply(st, action))
           /\ gate[3] = Flag(action) /\ action \in {"drain", "disable"}
                => Shuts(gate, AdminApply(st, action))
<1>1. CASE action = "drain"
  BY <1>1 DEF AdminApply, States, Shuts, Flag
<1>2. CASE action = "undrain"
  BY <1>2 DEF AdminApply, States, Shuts, Flag
<1>3. CASE action = "enable"
  BY <1>3 DEF AdminApply, States, Shuts, Flag
<1>4. CASE action = "disable"
  BY <1>4 DEF AdminApply, States, Shuts, Flag
<1> QED
  BY <1>1, <1>2, <1>3, <1>4 DEF Actions

\* Nothing is closed or opened while no admin action begins or ends.
LEMMA ClosedStays ==
    ASSUME Gates, Observe, UNCHANGED admin
    PROVE  closed' = closed /\ Opening' = Opening
<1>1. Opening' = Opening
  BY DEF Opening, Gate
<1>2. ClosedNow = {}
  BY DEF ClosedNow, NoAction
<1>3. \A gate \in closed : ~Reopened(gate, Opening \cup Opening')
  BY <1>1 DEF Gates
<1> QED
  BY <1>1, <1>2, <1>3 DEF Observe, ClosedAfter

\* Whatever admin requests begin or end, no gate that is closed is being opened.
LEMMA ClosedNotOpening ==
    ASSUME Observe
    PROVE  \A gate \in closed' :
             ~Reopened(gate, Opening) /\ ~Reopened(gate, Opening') /\ gate \in closed \cup ClosedNow
  BY DEF Observe, ClosedAfter, Reopened

\* The tables built so far.
LEMMA TableFacts ==
    ASSUME IInv
    PROVE  /\ gen \in Nat /\ 1 .. gen \subseteq Gens
           /\ state \in [Gens -> [Endpoints -> States]]
<1>1. gen \in Nat /\ gen \in Gens /\ MaxGen \in Nat
  BY TypeFacts, RouterBounds DEF IInv
<1>2. 1 .. gen \subseteq Gens
  BY <1>1 DEF Gens
<1> QED
  BY <1>1, <1>2 DEF IInv, Types, TypeOK

\* The steps of requests and of the health worker's and the discovery worker's
\* bookkeeping.
LEMMA GatesQuiet ==
    ASSUME Gates, Observe, UNCHANGED <<gen, state, admin>>
    PROVE  Gates'
<1>1. closed' = closed /\ Opening' = Opening
  BY ClosedStays
<1> QED
  BY <1>1 DEF Gates, GateSet, Reopened

\* A probe, applied to any entry of any table.
LEMMA GatesProbe ==
    ASSUME IInv, Gates, Observe, NEW e \in Endpoints, NEW ok \in BOOLEAN, PollOne(e, ok)
    PROVE  Gates'
<1>1. closed' = closed /\ Opening' = Opening /\ UNCHANGED gen
  BY ClosedStays DEF PollOne, tables
<1>2. /\ poll.view \in Gens /\ state \in [Gens -> [Endpoints -> States]]
      /\ gen \in Nat /\ 1 .. gen \subseteq Gens
  BY TypeFacts, TableFacts DEF PollOne, IInv
<1>3. ASSUME NEW gate \in closed PROVE Shuts(gate, state'[gate[1]][gate[2]])
  <2>1. gate[1] \in Gens /\ gate[2] \in Endpoints /\ Shuts(gate, state[gate[1]][gate[2]])
    BY <1>2 DEF Gates, GateSet
  <2>2. CASE gate[1] = poll.view /\ gate[2] = e
    <3>1. state'[gate[1]][gate[2]] = Apply(state[gate[1]][gate[2]], ok)
      BY <1>2, <2>1, <2>2 DEF PollOne
    <3>2. state[gate[1]][gate[2]] \in States
      BY <1>2, <2>1
    <3> QED
      BY <2>1, <3>1, <3>2, ApplyKeepsGates DEF Shuts
  <2>3. CASE ~(gate[1] = poll.view /\ gate[2] = e)
    <3>1. state'[gate[1]][gate[2]] = state[gate[1]][gate[2]]
      BY <1>2, <2>1, <2>3 DEF PollOne
    <3> QED
      BY <2>1, <3>1
  <2> QED
    BY <2>2, <2>3
<1> QED
  BY <1>1, <1>3 DEF Gates, GateSet, Reopened

\* An action that opens a gate takes it from the closed ones as it begins.
LEMMA GatesLookup ==
    ASSUME IInv, Gates, Observe,
           NEW c \in Admins, NEW e \in Endpoints, NEW a \in AdminActions, AdminLookup(c, e, a)
    PROVE  Gates'
<1>1. /\ admin[c] = NoAction /\ NoAction.action = "none" /\ UNCHANGED <<gen, state>>
      /\ admin' = [admin EXCEPT ![c] = [view |-> gen, ep |-> e, action |-> a]]
  BY DEF AdminLookup, NoAction, tables
<1>2. ClosedNow = {}
  <2>1. SUFFICES ASSUME NEW d \in Admins, admin[d].action \in {"drain", "disable"},
                        admin'[d] = NoAction
                 PROVE  FALSE
    BY DEF ClosedNow
  <2>2. d # c
    BY <1>1, <2>1
  <2>3. admin'[d] = admin[d]
    BY <1>1, <2>2
  <2> QED
    BY <1>1, <2>1, <2>3
<1>3. closed' \subseteq closed /\ \A gate \in closed' : ~Reopened(gate, Opening')
  BY <1>2, ClosedNotOpening
<1> QED
  BY <1>1, <1>3 DEF Gates, GateSet, Reopened

\* An action that closes a gate adds it as it is answered.
LEMMA GatesWrite ==
    ASSUME IInv, Gates, Observe, NEW c \in Admins, AdminWrite(c)
    PROVE  Gates'
<1> DEFINE act == admin[c]
<1>1. /\ act # NoAction /\ admin' = [admin EXCEPT ![c] = NoAction] /\ NoAction.action = "none"
      /\ gen' = gen /\ act.view \in 1 .. gen /\ act.view \in Gens
      /\ act.ep \in Endpoints /\ act.action \in Actions
      /\ state' = [state EXCEPT ![act.view][act.ep] = AdminApply(@, act.action)]
  BY TypeFacts DEF AdminWrite, NoAction, tables, IInv
<1>2. state \in [Gens -> [Endpoints -> States]] /\ gen \in Nat /\ 1 .. gen \subseteq Gens
  BY TableFacts
<1>3. ClosedNow \subseteq {Gate(act)} /\ (ClosedNow # {} => act.action \in {"drain", "disable"})
  <2>1. SUFFICES ASSUME NEW d \in Admins, admin[d].action \in {"drain", "disable"},
                        admin'[d] = NoAction
                 PROVE  d = c
    BY DEF ClosedNow
  <2>2. CASE d # c
    <3>1. admin'[d] = admin[d]
      BY <1>1, <2>2
    <3> QED
      BY <1>1, <2>1, <3>1
  <2> QED
    BY <2>2
<1>4. closed' \subseteq GateSet
  <2>1. act.action \in {"drain", "disable"} => Gate(act) \in GateSet
    BY <1>1 DEF Gate, GateSet, Flag
  <2> QED
    BY <1>3, <2>1, ClosedNotOpening DEF Gates
<1>5. ASSUME NEW gate \in closed' PROVE Shuts(gate, state'[gate[1]][gate[2]])
  <2>1. gate[1] \in Gens /\ gate[2] \in Endpoints /\ gate[3] \in {"drain", "disable"}
    BY <1>2, <1>4 DEF GateSet
  <2>2. /\ gate \in closed => Shuts(gate, state[gate[1]][gate[2]])
        /\ gate \notin closed => gate = Gate(act) /\ act.action \in {"drain", "disable"}
    BY <1>3, ClosedNotOpening DEF Gates
  <2>3. CASE gate[1] = act.view /\ gate[2] = act.ep
    <3>1. /\ state'[gate[1]][gate[2]] = AdminApply(state[gate[1]][gate[2]], act.action)
          /\ state[gate[1]][gate[2]] \in States
      BY <1>1, <1>2, <2>1, <2>3
    <3>2. gate[3] = Flag(act.action) => act.action \in {"drain", "disable"}
      <4>1. SUFFICES ASSUME gate[3] = Flag(act.action), act.action \notin {"drain", "disable"}
                     PROVE  FALSE
        OBVIOUS
      <4>2. act.action \in {"undrain", "enable"}
        BY <1>1, <4>1 DEF Actions
      <4>3. Gate(act) \in Opening
        BY <4>2 DEF Opening
      <4>4. Gate(act)[2] = gate[2] /\ Gate(act)[3] = gate[3]
        BY <2>3, <4>1 DEF Gate
      <4> QED
        BY <4>3, <4>4, ClosedNotOpening DEF Reopened
    <3>3. CASE gate \notin closed
      <4>1. gate[3] = Flag(act.action) /\ act.action \in {"drain", "disable"}
        BY <2>2, <3>3 DEF Gate
      <4> QED
        BY <1>1, <2>1, <3>1, <4>1, AdminMovesOneGate
    <3>4. CASE gate \in closed
      BY <1>1, <2>1, <2>2, <3>1, <3>2, <3>4, AdminMovesOneGate
    <3> QED
      BY <3>3, <3>4
  <2>4. CASE ~(gate[1] = act.view /\ gate[2] = act.ep)
    <3>1. state'[gate[1]][gate[2]] = state[gate[1]][gate[2]]
      BY <1>1, <1>2, <2>1, <2>4
    <3>2. gate # Gate(act)
      BY <2>4 DEF Gate
    <3> QED
      BY <2>2, <3>1, <3>2
  <2> QED
    BY <2>3, <2>4
<1>6. GateSet' = GateSet
  BY <1>1 DEF GateSet
<1> QED
  BY <1>4, <1>5, <1>6, ClosedNotOpening DEF Gates

\* A rescan writes a table nobody has closed anything in.
LEMMA GatesRescan ==
    ASSUME IInv, Gates, Observe, Rescan
    PROVE  Gates'
<1>1. /\ closed' = closed /\ Opening' = Opening /\ gen' = gen + 1
      /\ gen \in Nat /\ gen + 1 \notin 1 .. gen /\ 1 .. gen \subseteq 1 .. gen'
      /\ state \in [Gens -> [Endpoints -> States]] /\ 1 .. gen \subseteq Gens
  <2>1. UNCHANGED admin /\ gen' = gen + 1
    BY DEF Rescan, control
  <2> QED
    BY <2>1, ClosedStays, TableFacts
<1>2. ASSUME NEW gate \in closed PROVE Shuts(gate, state'[gate[1]][gate[2]])
  <2>1. gate[1] \in 1 .. gen /\ Shuts(gate, state[gate[1]][gate[2]])
    BY DEF Gates, GateSet
  <2>2. state'[gate[1]] = state[gate[1]]
    BY <1>1, <2>1 DEF Rescan
  <2> QED
    BY <2>1, <2>2
<1>3. closed' \subseteq GateSet'
  BY <1>1 DEF Gates, GateSet
<1> QED
  BY <1>1, <1>2, <1>3 DEF Gates, Reopened

LEMMA GatesStep ==
    ASSUME IInv, Gates, Next, Observe
    PROVE  Gates'
<1>1. ASSUME NEW r \in Requests, Handle(r) \/ Unstall(r) \/ Reap(r)
      PROVE  UNCHANGED <<gen, state, admin>>
  BY <1>1 DEF Handle, BadBody, TakeView, FilterEnabled, FilterHealthy, FilterDraining, Reserve,
              Reject, Connect, ConnectFail, StreamEnds, Unstall, Release, Reap, tables, control
<1>2. PollStart => UNCHANGED <<gen, state, admin>>
  BY DEF PollStart, tables
<1> QED
  BY <1>1, <1>2, GatesQuiet, GatesProbe, GatesLookup, GatesWrite, GatesRescan DEF Next

\* What was closed before a request came stays out of its candidates, in whatever
\* order the flags of an entry are read.
LEMMA KeptFilter ==
    ASSUME IInv, GateInv, Observe, Gates', NEW r \in Requests, pc[r] = "filter",
           \/ \E e \in Endpoints : FilterEnabled(r, e)
           \/ FilterHealthy(r) \/ FilterDraining(r),
           NEW gate \in shut'[r], gate[1] = view'[r]
    PROVE  gate[2] \notin cands'[r] /\ (gate[3] = "disable" => gate[2] # reading'[r].ep)
<1>1. /\ unread \in [Requests -> SUBSET Endpoints] /\ cands \in [Requests -> SUBSET Endpoints]
      /\ reading \in [Requests -> Flags \cup {NoFlag}]
  BY DEF IInv, Types, Shapes
<1>2. gate \in shut[r] /\ gate \in closed'
  BY DEF Observe
<1>3. /\ Shuts(gate, state'[gate[1]][gate[2]]) /\ gate[2] \in Endpoints
      /\ gate[3] \in {"drain", "disable"} /\ NoFlag.ep \notin Endpoints
  BY <1>2, EndpointsAssumption DEF Gates, GateSet, NoFlag
<1>4. gate[1] = view[r] =>
        gate[2] \notin cands[r] /\ (gate[3] = "disable" => gate[2] # reading[r].ep)
  BY <1>2 DEF GateInv, Kept
<1>5. ASSUME NEW e \in Endpoints, FilterEnabled(r, e)
      PROVE  gate[2] \notin cands'[r] /\ (gate[3] = "disable" => gate[2] # reading'[r].ep)
  <2>1. /\ UNCHANGED <<state, view, cands>>
        /\ reading'[r] = IF e \in Fits[r] /\ state[view[r]][e].Enabled
                         THEN [ep |-> e, flag |-> "Healthy"] ELSE NoFlag
    BY <1>1, <1>5 DEF FilterEnabled
  <2> QED
    BY <1>3, <1>4, <2>1 DEF Shuts
<1>6. CASE FilterHealthy(r)
  <2>1. /\ UNCHANGED <<state, view, cands>>
        /\ reading'[r].ep \in {reading[r].ep, NoFlag.ep}
    BY <1>1, <1>6 DEF FilterHealthy, Flags, NoFlag
  <2> QED
    BY <1>3, <1>4, <2>1
<1>7. CASE FilterDraining(r)
  <2>1. /\ UNCHANGED <<state, view>> /\ reading'[r] = NoFlag
        /\ cands'[r] = IF state[view[r]][reading[r].ep].Draining THEN cands[r]
                                                               ELSE cands[r] \cup {reading[r].ep}
    BY <1>1, <1>7 DEF FilterDraining
  <2> QED
    BY <1>3, <1>4, <2>1 DEF Shuts
<1> QED
  BY <1>5, <1>6, <1>7

\* A request's own steps.
LEMMA KeptOwn ==
    ASSUME IInv, GateInv, Observe, Gates', NEW r \in Requests, Handle(r) \/ Unstall(r),
           NEW gate \in shut'[r]
    PROVE  /\ pc'[r] = "filter" /\ gate[1] = view'[r] =>
                gate[2] \notin cands'[r] /\ (gate[3] = "disable" => gate[2] # reading'[r].ep)
           /\ pc'[r] \in Holding => <<gate[1], gate[2]>> # <<view'[r], sel'[r]>>
<1>1. /\ pc \in [Requests -> PCs] /\ cands \in [Requests -> SUBSET Endpoints]
      /\ sel \in [Requests -> Endpoints \cup {NoEndpoint}]
      /\ reading[r].flag \in {"Healthy", "Draining"} => pc[r] = "filter"
  BY DEF IInv, Types, TypeOK, Shapes, NoFlag
<1>2. pc[r] # "new" => gate \in shut[r]
  BY DEF Observe
<1>3. /\ pc[r] = "filter" /\ gate \in shut[r] /\ gate[1] = view[r] => gate[2] \notin cands[r]
      /\ pc[r] \in Holding /\ gate \in shut[r] => <<gate[1], gate[2]>> # <<view[r], sel[r]>>
  BY DEF GateInv, Kept, ClosedStaysClosed
<1>4. CASE BadBody(r) \/ Reject(r)
  <2>1. pc'[r] = "done"
    BY <1>1, <1>4 DEF BadBody, Reject
  <2> QED
    BY <2>1 DEF Holding
<1>5. CASE TakeView(r)
  <2>1. pc[r] = "new" /\ pc'[r] = "filter" /\ UNCHANGED <<cands, reading>>
    BY <1>1, <1>5 DEF TakeView
  <2>2. cands'[r] = {} /\ reading'[r] = NoFlag
    BY <2>1 DEF GateInv, Fresh
  <2>3. gate \in closed'
    BY <2>1 DEF Observe
  <2>4. gate[2] \in Endpoints /\ NoFlag.ep \notin Endpoints
    BY <2>3, EndpointsAssumption DEF Gates, GateSet, NoFlag
  <2> QED
    BY <2>1, <2>2, <2>4 DEF Holding
<1>6. CASE (\E e \in Endpoints : FilterEnabled(r, e)) \/ FilterHealthy(r) \/ FilterDraining(r)
  <2>1. pc[r] = "filter" /\ pc' = pc
    BY <1>1, <1>6 DEF FilterEnabled, FilterHealthy, FilterDraining
  <2> QED
    BY <1>6, <2>1, KeptFilter DEF Holding
<1>7. CASE Reserve(r)
  <2>1. /\ pc[r] = "filter" /\ UNCHANGED <<view, reading>> /\ cands[r] # {}
        /\ reading[r] = NoFlag
    BY <1>7 DEF Reserve, Walking
  <2>2. First(r) \in cands[r]
    BY <1>1, <2>1, FirstIsCandidate
  <2>3. \/ pc'[r] = "filter" /\ cands'[r] \subseteq cands[r]
        \/ pc'[r] = "connect" /\ sel'[r] = First(r)
    BY <1>1, <1>7, <2>1 DEF Reserve
  <2>4. gate \in closed'
    BY DEF Observe
  <2>5. gate[2] \in Endpoints /\ NoFlag.ep \notin Endpoints
    BY <2>4, EndpointsAssumption DEF Gates, GateSet, NoFlag
  <2> QED
    BY <1>2, <1>3, <2>1, <2>2, <2>3, <2>5 DEF Holding
<1>8. CASE Connect(r) \/ ConnectFail(r) \/ StreamEnds(r) \/ Unstall(r) \/ Release(r)
  <2>1. /\ pc[r] \in Holding /\ UNCHANGED <<view, sel>> /\ pc'[r] # "filter"
    BY <1>1, <1>8 DEF Connect, ConnectFail, StreamEnds, Unstall, Release, Holding
  <2> QED
    BY <1>2, <1>3, <2>1 DEF Holding
<1> QED
  BY <1>4, <1>5, <1>6, <1>7, <1>8 DEF Handle

LEMMA GateStart == AuditInit => GateInv
  BY DEF AuditInit, Init, GateInv, Fresh, Gates, Kept, ClosedStaysClosed, Holding

LEMMA GateStep == IInv /\ GateInv /\ [AuditNext]_auditVars => GateInv'
<1> SUFFICES ASSUME IInv, GateInv, [AuditNext]_auditVars PROVE GateInv'
  OBVIOUS
<1>1. CASE UNCHANGED auditVars
  BY <1>1 DEF auditVars, vars, tables, handlers, control, GateInv, Fresh, Gates, GateSet, Gate,
              Reopened, Opening, Kept, ClosedStaysClosed
<1>2. CASE AuditNext
  <2>1. Observe /\ Next /\ [Next]_vars
    BY <1>2 DEF AuditNext
  <2>2. Fresh'
    BY <2>1, FreshStep DEF GateInv
  <2>3. Gates'
    BY <2>1, GatesStep DEF GateInv
  <2>4. ASSUME NEW r \in Requests
        PROVE  /\ shut'[r] \subseteq closed'
               /\ \A gate \in shut'[r] :
                    /\ pc'[r] = "filter" /\ gate[1] = view'[r] =>
                         gate[2] \notin cands'[r] /\ (gate[3] = "disable" => gate[2] # reading'[r].ep)
                    /\ pc'[r] \in Holding => <<gate[1], gate[2]>> # <<view'[r], sel'[r]>>
    <3>1. shut'[r] \subseteq closed' /\ (pc[r] # "new" => shut'[r] \subseteq shut[r])
      BY <2>1 DEF Observe
    <3>2. CASE Local(r)' = Local(r)
      <4>1. /\ pc'[r] = pc[r] /\ view'[r] = view[r] /\ cands'[r] = cands[r]
            /\ reading'[r] = reading[r] /\ sel'[r] = sel[r]
        BY <3>2 DEF Local
      <4> QED
        BY <3>1, <4>1 DEF GateInv, Kept, ClosedStaysClosed, Holding
    <3>3. CASE Handle(r) \/ Unstall(r)
      BY <2>1, <2>3, <3>1, <3>3, KeptOwn
    <3> QED
      BY <2>1, <3>2, <3>3, StepsOfOne DEF IInv
  <2>5. Kept'
    BY <2>4 DEF Kept
  <2>6. ClosedStaysClosed'
    BY <2>4 DEF ClosedStaysClosed
  <2> QED
    BY <2>2, <2>3, <2>5, <2>6 DEF GateInv
<1> QED
  BY <1>1, <1>2

\* Once a drain or a disable was answered in the table a later request routes in,
\* with no undrain or enable under way, the request is not sent to that endpoint
\* until one begins, whatever probes, rescans and the other admin requests, which
\* look up and write in any order, do in between.
THEOREM AuditGates == AuditSpec => []ClosedStaysClosed
<1>1. GateInv => ClosedStaysClosed
  BY DEF GateInv
<1> QED
  BY <1>1, GateStart, GateStep, AuditKeepsIInv, PTL DEF AuditSpec

=============================================================================
