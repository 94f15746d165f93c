------------------------- MODULE LegacyRouterProofs -------------------------
(***************************************************************************)
(* Proofs about LegacyRouter for every finite set of requests, every fleet *)
(* of backends and capacities, every set of sessions and messages and      *)
(* every number of changes of the backends.                                *)
(***************************************************************************)
EXTENDS LegacyRouter, FiniteSetTheorems, WellFoundedInduction, TLAPS

-----------------------------------------------------------------------------
\* The inductive invariant

Entry == [healthy : BOOLEAN, busy : Nat, inflight : Nat]
Look == [at : Nat, cond : Condition \cup {"none"}, load : Nat]

RequestState(q) == [pc |-> q.pc, sid |-> q.sid, vision |-> q.vision, backend |-> q.backend]

\* What a request calls its session may be anything.
Requests == req = [r \in Request |-> RequestState(req[r])]

Types ==
    /\ table \in [Backend -> Entry]
    /\ lease \in [Session -> Backend \cup {0}]
    /\ bySession \in [Session -> Nat]
    /\ active \in Nat
    /\ Requests
    /\ look \in [Prober -> Look]
    /\ cond \in [Backend -> Condition]
    /\ foreign \in [Backend -> Nat]

\* Only a request that waits for its probe has one under way, so that a probe
\* that ends does not move a request that holds a slot.
ProbesFirst ==
    \A r \in Request : r # Loop /\ look[r].at \in Backend => req[r].pc \in {"checks", "probe"}

\* A slot belongs to a backend, and is one of those it is configured for.
Within ==
    /\ \A r \in Request : req[r].pc \in Holding => req[r].backend \in Backend
    /\ \A b \in Backend : table[b].inflight <= Cap[b]

IInv == Types /\ ProbesFirst /\ Within /\ SlotsAccounted

\* Who holds a slot at all, and for session s.
Holders == {r \in Request : req[r].pc \in Holding}
Mine(s) == {r \in Request : req[r].sid = s /\ req[r].pc \in Holding}

-----------------------------------------------------------------------------
\* Lemmas about the operators

LEMMA BackendFacts ==
    /\ Backend \subseteq Nat \ {0}
    /\ \A b \in Backend : Cap[b] \in Nat \ {0}
  BY CapAssumption DEF Backend

\* A set of backends that is not empty has a first one.
LEMMA FirstBackend ==
    ASSUME NEW S \in SUBSET Backend, S # {}
    PROVE  Min(S) \in S
<1> DEFINE less == OpToRel(<, Nat)
<1>1. S \subseteq Nat
  BY BackendFacts
<1>2. IsWellFoundedOn(less, Nat)
  BY NatLessThanWellFounded
<1>3. \A m, n \in Nat : m < n => <<m, n>> \in less
  BY DEF OpToRel
<1> HIDE DEF less
<1>4. PICK n \in S : \A m \in S : ~ (<<m, n>> \in less)
  BY <1>1, <1>2, WFMin
<1>5. ASSUME NEW m \in S PROVE n <= m
  <2>1. m \in Nat /\ n \in Nat
    BY <1>1
  <2>2. ~ (m < n)
    BY <1>3, <1>4, <2>1, Zenon
  <2> QED
    BY <2>1, <2>2
<1> QED
  BY <1>4, <1>5 DEF Min

\* A request is given a backend that it can use.
LEMMA ChoiceIsUsable ==
    ASSUME NEW r \in Request, NEW leases, NEW b \in Choice(r, leases)
    PROVE  b \in Backend /\ CanUse(b)
<1> DEFINE pinned == IF req[r].vision THEN {VisionBackend} ELSE {}
           sticky == IF req[r].sid \in Session THEN {leases[req[r].sid]} ELSE {}
           usable == {c \in Backend : CanUse(c)}
<1>1. Choice(r, leases) = IF pinned \cap usable # {} THEN pinned
                          ELSE IF sticky \cap usable # {} THEN sticky
                          ELSE IF usable # {} THEN {Min(usable)}
                          ELSE {}
  BY DEF Choice
<1>2. usable # {} => Min(usable) \in usable
  BY FirstBackend
<1>3. pinned \cap usable # {} => pinned \subseteq usable
  OBVIOUS
<1>4. sticky \cap usable # {} => sticky \subseteq usable
  OBVIOUS
<1>5. b \in usable
  <2> HIDE DEF pinned, sticky, usable
  <2> QED
    BY <1>1, <1>2, <1>3, <1>4
<1> QED
  BY <1>5

\* A probe changes nothing about the slots.
LEMMA LearnedKeepsSlots ==
    ASSUME NEW t \in Entry, NEW got, got.load \in Nat
    PROVE  Learned(t, got) \in Entry /\ Learned(t, got).inflight = t.inflight
<1> DEFINE h == got.cond \in {"ok", "blind"}
           n == IF got.cond \in {"ok", "unwell"} THEN got.load ELSE t.busy
<1>1. t = [healthy |-> t.healthy, busy |-> t.busy, inflight |-> t.inflight]
  BY DEF Entry
<1>2. t.busy \in Nat /\ t.inflight \in Nat
  BY DEF Entry
<1>3. Learned(t, got) = [t EXCEPT !.healthy = h, !.busy = n]
  BY DEF Learned
<1>4. h \in BOOLEAN /\ n \in Nat
  BY <1>2
<1> HIDE DEF h, n
<1>5. Learned(t, got) = [healthy |-> h, busy |-> n, inflight |-> t.inflight]
  BY <1>1, <1>3
<1> QED
  BY <1>2, <1>4, <1>5 DEF Entry

LEMMA FiniteParts ==
    /\ IsFiniteSet(Holders)
    /\ \A b, pcs : IsFiniteSet(On(b, pcs)) /\ Cardinality(On(b, pcs)) \in Nat
    /\ \A s : IsFiniteSet(Mine(s)) /\ Cardinality(Mine(s)) \in Nat
<1>1. Holders \subseteq Request /\ \A s : Mine(s) \subseteq Request
  BY DEF Holders, Mine
<1>2. \A b, pcs : On(b, pcs) \subseteq Request
  BY DEF On
<1> QED
  BY <1>1, <1>2, RequestAssumption, FS_Subset, FS_CardinalityType

LEMMA OneMore ==
    ASSUME NEW S, IsFiniteSet(S), NEW x, x \notin S
    PROVE  Cardinality(S \cup {x}) = Cardinality(S) + 1
  BY FS_AddElement

LEMMA OneLess ==
    ASSUME NEW S, IsFiniteSet(S), NEW x \in S
    PROVE  Cardinality(S \ {x}) = Cardinality(S) - 1
  BY FS_RemoveElement

LEMMA LoadIsNatural ==
    ASSUME Types, NEW b \in Backend
    PROVE  Load(b) \in Nat
  BY FiniteParts DEF Load, Types

\* SlotsAccounted in terms of the sets of holders.
LEMMA Accounts ==
    SlotsAccounted <=>
      /\ \A b \in Backend : table[b].inflight = Cardinality(On(b, Holding))
      /\ active = Cardinality(Holders)
      /\ \A s \in Session :
           bySession[s] = Cardinality(Mine(s)) /\ (Mine(s) # {} => lease[s] # 0)
  BY DEF SlotsAccounted, Holders, Mine

LEMMA AccountsNext ==
    SlotsAccounted' <=>
      /\ \A b \in Backend : table'[b].inflight = Cardinality(On(b, Holding)')
      /\ active' = Cardinality(Holders')
      /\ \A s \in Session :
           bySession'[s] = Cardinality(Mine(s)') /\ (Mine(s)' # {} => lease'[s] # 0)
  BY DEF SlotsAccounted, Holders, Mine

-----------------------------------------------------------------------------
LEMMA RequestStates ==
    ASSUME Requests
    PROVE  \A q \in Request : req[q] = RequestState(req[q])
<1>1. req = [q \in Request |-> RequestState(req[q])]
  BY DEF Requests
<1> QED
  BY <1>1, Zenon

\* One request takes another state.
LEMMA RequestIsReplaced ==
    ASSUME Requests, NEW r \in Request, NEW new, new = RequestState(new),
           req' = [req EXCEPT ![r] = new]
    PROVE  Requests' /\ req'[r] = new /\ \A q \in Request \ {r} : req'[q] = req[q]
<1>1. req' = [q \in Request |-> IF q = r THEN new ELSE req[q]]
  BY DEF Requests
<1>2. \A q \in Request : req'[q] = RequestState(req'[q])
  BY <1>1, RequestStates
<1>3. req' = [q \in Request |-> req'[q]]
  BY <1>1
<1>4. req' = [q \in Request |-> RequestState(req'[q])]
  BY <1>2, <1>3, Zenon
<1> QED
  BY <1>1, <1>4 DEF Requests

LEMMA RequestMoves ==
    ASSUME Requests, NEW r \in Request, NEW p, req' = [req EXCEPT ![r].pc = p]
    PROVE  /\ Requests'
           /\ req'[r].pc = p /\ req'[r].sid = req[r].sid /\ req'[r].backend = req[r].backend
           /\ \A q \in Request \ {r} : req'[q] = req[q]
<1>1. PICK new : new = [req[r] EXCEPT !.pc = p]
  OBVIOUS
<1>2. new = [pc |-> p, sid |-> req[r].sid, vision |-> req[r].vision, backend |-> req[r].backend]
  <2>1. req[r] = [pc |-> req[r].pc, sid |-> req[r].sid,
                  vision |-> req[r].vision, backend |-> req[r].backend]
    BY RequestStates DEF RequestState
  <2> QED
    BY <1>1, <2>1
<1>3. new = RequestState(new)
  BY <1>2 DEF RequestState
<1>4. req' = [req EXCEPT ![r] = new]
  BY <1>1
<1>5. Requests' /\ req'[r] = new /\ \A q \in Request \ {r} : req'[q] = req[q]
  BY <1>3, <1>4, RequestIsReplaced
<1> QED
  BY <1>2, <1>5

\* The slots stay accounted for in a step that changes neither the counters nor
\* who holds a slot, and leaves the leases of sessions with requests in flight.
LEMMA SlotsUntouched ==
    ASSUME Within, SlotsAccounted,
           \A b \in Backend : table'[b].inflight = table[b].inflight,
           active' = active,
           \A s \in Session : bySession'[s] = bySession[s],
           \A r \in Request :
             /\ req'[r].pc \in Holding <=> req[r].pc \in Holding
             /\ req[r].pc \in Holding =>
                  req'[r].backend = req[r].backend /\ req'[r].sid = req[r].sid,
           \A s \in Session : bySession[s] # 0 => lease'[s] = lease[s]
    PROVE  Within' /\ SlotsAccounted'
<1>1. Holders' = Holders
  BY DEF Holders
<1>2. \A b \in Backend : On(b, Holding)' = On(b, Holding)
  BY DEF On
<1>3. \A s \in Session : Mine(s)' = Mine(s)
  BY DEF Mine
<1>4. \A s \in Session : Mine(s) # {} => bySession[s] # 0
  BY Accounts, FiniteParts, FS_EmptySet
<1>5. SlotsAccounted'
  <2>1. \A b \in Backend : table'[b].inflight = Cardinality(On(b, Holding)')
    BY <1>2, Accounts
  <2>2. active' = Cardinality(Holders')
    BY <1>1, Accounts
  <2>3. \A s \in Session :
          bySession'[s] = Cardinality(Mine(s)') /\ (Mine(s)' # {} => lease'[s] # 0)
    BY <1>3, <1>4, Accounts
  <2> QED
    BY <2>1, <2>2, <2>3, AccountsNext
<1>6. Within'
  BY DEF Within, Backend
<1> QED
  BY <1>5, <1>6

-----------------------------------------------------------------------------
\* The steps

LEMMA AskStep ==
    ASSUME IInv, NEW p \in Prober, Ask(p)
    PROVE  IInv'
<1> DEFINE b == look[p].at
           asked == [at |-> b, cond |-> cond[b], load |-> Load(b)]
<1>1. /\ b \in Backend /\ look' = [look EXCEPT ![p] = asked]
      /\ table' = IF b \in Vllm /\ cond[b] # "down"
                  THEN [table EXCEPT ![b].healthy = cond[b] # "unwell"] ELSE table
      /\ UNCHANGED <<lease, old, bySession, active, req, cond, foreign, changes>>
  BY DEF Ask
<1>2. asked \in Look /\ asked.at = b
  <2>1. b \in Nat /\ cond[b] \in Condition /\ Load(b) \in Nat
    BY <1>1, BackendFacts, LoadIsNatural DEF IInv, Types
  <2> QED
    BY <2>1 DEF Look
<1>3. look' \in [Prober -> Look] /\ \A q \in Prober : look'[q].at = look[q].at
  <2> HIDE DEF asked
  <2>1. look \in [Prober -> Look]
    BY DEF IInv, Types
  <2> QED
    BY <1>1, <1>2, <2>1
<1>4. table' \in [Backend -> Entry] /\ \A c \in Backend : table'[c].inflight = table[c].inflight
  <2>1. table \in [Backend -> Entry]
    BY DEF IInv, Types
  <2>2. CASE table' = table
    BY <2>1, <2>2
  <2>3. CASE table' = [table EXCEPT ![b].healthy = cond[b] # "unwell"]
    <3>1. PICK h \in BOOLEAN : h = (cond[b] # "unwell")
      OBVIOUS
    <3>2. PICK t : t = table[b]
      OBVIOUS
    <3>3. t = [healthy |-> t.healthy, busy |-> t.busy, inflight |-> t.inflight]
          /\ t.busy \in Nat /\ t.inflight \in Nat
      BY <1>1, <2>1, <3>2 DEF Entry
    <3>4. PICK new : new = [t EXCEPT !.healthy = h]
      OBVIOUS
    <3>5. new = [healthy |-> h, busy |-> t.busy, inflight |-> t.inflight]
      BY <3>3, <3>4
    <3>6. new \in Entry /\ new.inflight = t.inflight
      BY <3>3, <3>5 DEF Entry
    <3>7. table' = [table EXCEPT ![b] = new]
      <4>1. table' = [table EXCEPT ![b] = [table[b] EXCEPT !.healthy = h]]
        BY <2>3, <3>1
      <4> QED
        BY <3>2, <3>4, <4>1, Zenon
    <3> QED
      BY <1>1, <2>1, <3>2, <3>6, <3>7
  <2> QED
    BY <1>1, <2>2, <2>3
<1>5. Types'
  BY <1>1, <1>3, <1>4 DEF IInv, Types, Requests, Backend, Prober, Entry, Look
<1>6. ProbesFirst'
  BY <1>1, <1>3 DEF IInv, ProbesFirst, Prober, Backend
<1>7. Within' /\ SlotsAccounted'
  BY <1>1, <1>4, SlotsUntouched DEF IInv
<1> QED
  BY <1>5, <1>6, <1>7 DEF IInv

LEMMA StoreStep ==
    ASSUME IInv, NEW p \in Prober, Store(p)
    PROVE  IInv'
<1> DEFINE b == look[p].at
           next == IF b + 1 \in Backend THEN [NoLook EXCEPT !.at = b + 1]
                   ELSE IF p = Loop THEN FirstLook ELSE NoLook
<1>1. /\ b \in Backend
      /\ table' = [table EXCEPT ![b] = Learned(table[b], look[p])]
      /\ look' = [look EXCEPT ![p] = next]
      /\ req' = IF p = Loop \/ b + 1 \in Backend THEN req
                ELSE [req EXCEPT ![p] = IF req[p].pc = "checks" THEN [New EXCEPT !.pc = "done"]
                                        ELSE [req[p] EXCEPT !.pc = "select"]]
      /\ UNCHANGED <<lease, old, bySession, active, cond, foreign, changes>>
  BY DEF Store
<1>2. next \in Look /\ (p # Loop => next.at \notin Backend \/ b + 1 \in Backend)
  <2>1. b \in Nat
    BY <1>1, BackendFacts
  <2>2. 0 \notin Backend
    BY BackendFacts
  <2> QED
    BY <2>1, <2>2 DEF Look, NoLook, FirstLook
<1>3. /\ look' \in [Prober -> Look] /\ look'[p] = next
      /\ \A q \in Prober \ {p} : look'[q] = look[q]
  <2> HIDE DEF next
  <2>1. look \in [Prober -> Look]
    BY DEF IInv, Types
  <2> QED
    BY <1>1, <1>2, <2>1
<1>4. table' \in [Backend -> Entry] /\ \A c \in Backend : table'[c].inflight = table[c].inflight
  <2>1. table \in [Backend -> Entry] /\ look[p].load \in Nat
    BY DEF IInv, Types, Look
  <2>2. PICK new : new = Learned(table[b], look[p])
    OBVIOUS
  <2>3. new \in Entry /\ new.inflight = table[b].inflight
    BY <1>1, <2>1, <2>2, LearnedKeepsSlots
  <2>4. table' = [table EXCEPT ![b] = new]
    BY <1>1, <2>2, Zenon
  <2> QED
    BY <1>1, <2>1, <2>3, <2>4
<1>5. /\ Requests'
      /\ \A r \in Request : req'[r] # req[r] =>
           /\ r = p /\ p # Loop /\ b + 1 \notin Backend
           /\ req[r].pc \in {"checks", "probe"} /\ req'[r].pc \in {"done", "select"}
  <2>1. CASE p = Loop \/ b + 1 \in Backend
    BY <1>1, <2>1 DEF IInv, Types, Requests
  <2>2. CASE p # Loop /\ b + 1 \notin Backend
    <3>1. p \in Request /\ Requests /\ req[p].pc \in {"checks", "probe"}
      BY <1>1, <2>2 DEF IInv, Types, ProbesFirst, Prober
    <3>2. PICK new : new = IF req[p].pc = "checks" THEN [New EXCEPT !.pc = "done"]
                           ELSE [req[p] EXCEPT !.pc = "select"]
      OBVIOUS
    <3>3. new = RequestState(new) /\ new.pc \in {"done", "select"}
      <4>1. CASE req[p].pc = "checks"
        BY <3>2, <4>1 DEF New, RequestState
      <4>2. CASE req[p].pc # "checks"
        <5>1. req[p] = [pc |-> req[p].pc, sid |-> req[p].sid,
                        vision |-> req[p].vision, backend |-> req[p].backend]
          BY <3>1, RequestStates DEF RequestState
        <5>2. new = [pc |-> "select", sid |-> req[p].sid,
                     vision |-> req[p].vision, backend |-> req[p].backend]
          BY <3>2, <4>2, <5>1
        <5> QED
          BY <5>2 DEF RequestState
      <4> QED
        BY <4>1, <4>2
    <3>4. req' = [req EXCEPT ![p] = new]
      BY <1>1, <2>2, <3>2
    <3>5. Requests' /\ req'[p] = new /\ \A q \in Request \ {p} : req'[q] = req[q]
      BY <3>1, <3>3, <3>4, RequestIsReplaced
    <3> QED
      BY <2>2, <3>1, <3>3, <3>5
  <2> QED
    BY <2>1, <2>2
<1>6. Types'
  BY <1>1, <1>3, <1>4, <1>5 DEF IInv, Types, Backend, Prober, Entry, Look
<1>7. ProbesFirst'
  <2> SUFFICES ASSUME NEW r \in Request, r # Loop, look'[r].at \in Backend
               PROVE  req'[r].pc \in {"checks", "probe"}
    BY DEF ProbesFirst, Backend
  <2> HIDE DEF next
  <2>1. r \in Prober /\ (look[r].at \in Backend => req[r].pc \in {"checks", "probe"})
    BY DEF IInv, ProbesFirst, Prober
  <2>2. CASE r = p
    BY <1>1, <1>2, <1>3, <1>5, <2>1, <2>2
  <2>3. CASE r # p
    BY <1>3, <1>5, <2>1, <2>3
  <2> QED
    BY <2>2, <2>3
<1>8. Within' /\ SlotsAccounted'
  <2>1. \A r \in Request :
          /\ req'[r].pc \in Holding <=> req[r].pc \in Holding
          /\ req[r].pc \in Holding =>
               req'[r].backend = req[r].backend /\ req'[r].sid = req[r].sid
    BY <1>5 DEF Holding
  <2> QED
    BY <1>1, <1>4, <2>1, SlotsUntouched DEF IInv
<1> QED
  BY <1>6, <1>7, <1>8 DEF IInv

-----------------------------------------------------------------------------
\* A step of request r that neither had a slot nor has one afterwards.
LEMMA WithoutSlot ==
    ASSUME IInv, NEW r \in Request, NEW new, new = RequestState(new),
           req' = [req EXCEPT ![r] = new],
           req[r].pc \notin Holding, new.pc \notin Holding,
           look' = look \/ (look' = [look EXCEPT ![r] = FirstLook] /\ new.pc \in {"checks", "probe"}),
           look[r].at \in Backend => r = Loop \/ new.pc \in {"checks", "probe"},
           UNCHANGED <<table, lease, bySession, active, cond, foreign>>
    PROVE  IInv'
<1>1. Requests' /\ req'[r] = new /\ \A q \in Request \ {r} : req'[q] = req[q]
  BY RequestIsReplaced DEF IInv, Types
<1>2. look' \in [Prober -> Look]
      /\ \A q \in Request : look'[q] = look[q] \/ (q = r /\ new.pc \in {"checks", "probe"})
  <2>1. look \in [Prober -> Look] /\ FirstLook \in Look /\ Request \subseteq Prober
    BY DEF IInv, Types, FirstLook, NoLook, Look, Prober
  <2> QED
    BY <2>1
<1>3. Types'
  BY <1>1, <1>2 DEF IInv, Types, Backend, Prober, Entry, Look
<1>4. ProbesFirst'
  BY <1>1, <1>2 DEF IInv, ProbesFirst, Backend
<1>5. Within' /\ SlotsAccounted'
  BY <1>1, SlotsUntouched DEF IInv
<1> QED
  BY <1>3, <1>4, <1>5 DEF IInv

LEMMA HealthStep ==
    ASSUME IInv, NEW r \in Request, Health(r)
    PROVE  IInv'
<1>1. PICK new : new = [req[r] EXCEPT !.pc = "checks"]
  OBVIOUS
<1>2. new = RequestState(new) /\ new.pc = "checks"
  <2>1. req[r] = [pc |-> req[r].pc, sid |-> req[r].sid,
                  vision |-> req[r].vision, backend |-> req[r].backend]
    BY RequestStates DEF RequestState, IInv, Types
  <2>2. new = [pc |-> "checks", sid |-> req[r].sid,
               vision |-> req[r].vision, backend |-> req[r].backend]
    BY <1>1, <2>1
  <2> QED
    BY <2>2 DEF RequestState
<1>3. req[r].pc = "new" /\ req' = [req EXCEPT ![r] = new]
  BY <1>1 DEF Health
<1>4. look' = [look EXCEPT ![r] = FirstLook]
      /\ UNCHANGED <<table, lease, bySession, active, cond, foreign>>
  BY DEF Health
<1>5. req[r].pc \notin Holding /\ new.pc \notin Holding
  BY <1>2, <1>3 DEF Holding
<1> QED
  BY <1>2, <1>3, <1>4, <1>5, WithoutSlot

LEMMA ArriveStep ==
    ASSUME IInv, NEW r \in Request, NEW m \in Message, Arrive(r, m)
    PROVE  IInv'
<1>1. req[r].pc = "new" /\ UNCHANGED <<table, lease, bySession, active, cond, foreign>>
  BY DEF Arrive
<1>2. CASE ~Authorized(m) \/ m.path = "models"
  <2>1. PICK p \in {"done", "refused"} : req' = [req EXCEPT ![r].pc = p] /\ look' = look
    BY <1>2 DEF Arrive
  <2>2. PICK new : new = [req[r] EXCEPT !.pc = p]
    OBVIOUS
  <2>3. new = RequestState(new) /\ new.pc = p
    <3>1. req[r] = [pc |-> req[r].pc, sid |-> req[r].sid,
                    vision |-> req[r].vision, backend |-> req[r].backend]
      BY RequestStates DEF RequestState, IInv, Types
    <3>2. new = [pc |-> p, sid |-> req[r].sid,
                 vision |-> req[r].vision, backend |-> req[r].backend]
      BY <2>2, <3>1
    <3> QED
      BY <3>2 DEF RequestState
  <2>4. req' = [req EXCEPT ![r] = new]
    BY <2>1, <2>2
  <2>5. req[r].pc \notin Holding /\ new.pc \notin Holding
    BY <1>1, <2>3 DEF Holding
  <2>6. look[r].at \in Backend => r = Loop
    BY <1>1 DEF IInv, ProbesFirst
  <2> QED
    BY <1>1, <2>1, <2>3, <2>4, <2>5, <2>6, WithoutSlot
<1>3. CASE Authorized(m) /\ m.path # "models"
  <2>1. PICK sid, v :
          req' = [req EXCEPT ![r] = [New EXCEPT !.pc = "probe", !.sid = sid, !.vision = v]]
    BY <1>3 DEF Arrive
  <2>2. PICK new : new = [New EXCEPT !.pc = "probe", !.sid = sid, !.vision = v]
    OBVIOUS
  <2>3. new = RequestState(new) /\ new.pc = "probe"
    BY <2>2 DEF New, RequestState
  <2>4. req' = [req EXCEPT ![r] = new] /\ look' = [look EXCEPT ![r] = FirstLook]
    BY <1>3, <2>1, <2>2 DEF Arrive
  <2>5. req[r].pc \notin Holding /\ new.pc \notin Holding
    BY <1>1, <2>3 DEF Holding
  <2> QED
    BY <1>1, <2>3, <2>4, <2>5, WithoutSlot
<1> QED
  BY <1>2, <1>3

\* A holder of a slot, on its connection, in the stream or lost, stays one.
LEMMA StillHolding ==
    ASSUME IInv, NEW r \in Request, NEW p \in Holding,
           req[r].pc \in Holding, req' = [req EXCEPT ![r].pc = p],
           UNCHANGED <<table, lease, bySession, active, look, cond, foreign>>
    PROVE  IInv'
<1>1. /\ Requests'
      /\ req'[r].pc = p /\ req'[r].sid = req[r].sid /\ req'[r].backend = req[r].backend
      /\ \A q \in Request \ {r} : req'[q] = req[q]
  BY RequestMoves DEF IInv, Types
<1>2. Types'
  BY <1>1 DEF IInv, Types, Backend, Prober, Entry, Look
<1>3. ProbesFirst'
  BY <1>1 DEF IInv, ProbesFirst, Backend, Holding
<1>4. Within' /\ SlotsAccounted'
  BY <1>1, SlotsUntouched DEF IInv
<1> QED
  BY <1>2, <1>3, <1>4 DEF IInv

\* Nothing about the requests moves.
LEMMA SurroundingsStep ==
    ASSUME IInv, UNCHANGED <<table, lease, bySession, active, req, look>>,
           cond' \in [Backend -> Condition], foreign' \in [Backend -> Nat]
    PROVE  IInv'
<1>1. Types' /\ ProbesFirst'
  BY DEF IInv, Types, ProbesFirst, Requests, Backend, Prober, Entry, Look
<1>2. Within' /\ SlotsAccounted'
  BY SlotsUntouched DEF IInv
<1> QED
  BY <1>1, <1>2 DEF IInv

LEMMA ChangeStep ==
    ASSUME IInv, NEW b \in Backend, Change(b)
    PROVE  IInv'
<1>1. UNCHANGED <<table, lease, bySession, active, req, look>>
  BY DEF Change
<1>2. cond' \in [Backend -> Condition] /\ foreign' \in [Backend -> Nat]
  BY DEF Change, IInv, Types
<1> QED
  BY <1>1, <1>2, SurroundingsStep

-----------------------------------------------------------------------------
\* Select takes a slot of backend b for request r: every counter that stands for
\* it goes up, and nobody else's is touched.
LEMMA SelectStep ==
    ASSUME IInv, NEW r \in Request, Select(r)
    PROVE  IInv'
<1> DEFINE gone == Expired(bySession)
           kept == [s \in Session |-> IF s \in gone THEN 0 ELSE lease[s]]
           sid == req[r].sid
<1>1. req[r].pc = "select" /\ UNCHANGED <<look, cond, foreign, changes>>
  BY DEF Select
<1>2. /\ kept \in [Session -> Backend \cup {0}]
      /\ \A s \in Session : bySession[s] # 0 => kept[s] = lease[s]
  BY DEF IInv, Types, Expired
<1>3. look[r].at \in Backend => r = Loop
  BY <1>1 DEF IInv, ProbesFirst
<1>4. CASE Choice(r, kept) = {}
  <2>1. /\ lease' = kept /\ req' = [req EXCEPT ![r] = [New EXCEPT !.pc = "refused"]]
        /\ UNCHANGED <<table, bySession, active>>
    BY <1>4 DEF Select
  <2>2. PICK new : new = [New EXCEPT !.pc = "refused"]
    OBVIOUS
  <2>3. new = RequestState(new) /\ new.pc = "refused"
    BY <2>2 DEF New, RequestState
  <2>4. req' = [req EXCEPT ![r] = new]
    BY <2>1, <2>2
  <2>5. Requests' /\ req'[r] = new /\ \A q \in Request \ {r} : req'[q] = req[q]
    BY <2>3, <2>4, RequestIsReplaced DEF IInv, Types
  <2> HIDE DEF kept
  <2>6. Types' /\ ProbesFirst'
    BY <1>1, <1>2, <1>3, <2>1, <2>5
       DEF IInv, Types, ProbesFirst, Backend, Prober, Entry, Look
  <2>7. Within' /\ SlotsAccounted'
    <3>1. \A q \in Request :
            /\ req'[q].pc \in Holding <=> req[q].pc \in Holding
            /\ req[q].pc \in Holding =>
                 req'[q].backend = req[q].backend /\ req'[q].sid = req[q].sid
      BY <1>1, <2>3, <2>5 DEF Holding
    <3> QED
      BY <1>2, <2>1, <3>1, SlotsUntouched DEF IInv
  <2> QED
    BY <2>6, <2>7 DEF IInv
<1>5. CASE Choice(r, kept) # {}
  <2>1. PICK b \in Choice(r, kept) :
          /\ table' = [table EXCEPT ![b].inflight = table[b].inflight + 1]
          /\ lease' = [s \in Session |-> IF s = sid THEN b ELSE kept[s]]
          /\ bySession' = [s \in Session |-> bySession[s] + IF s = sid THEN 1 ELSE 0]
          /\ active' = active + 1
          /\ req' = [req EXCEPT ![r].pc = "connects", ![r].backend = b]
    BY <1>5 DEF Select
  <2>2. b \in Backend /\ CanUse(b)
    BY ChoiceIsUsable
  <2> HIDE DEF kept
  <2>3. /\ Requests'
        /\ req'[r].pc = "connects" /\ req'[r].sid = sid /\ req'[r].backend = b
        /\ \A q \in Request \ {r} : req'[q] = req[q]
    <3>1. req[r] = [pc |-> req[r].pc, sid |-> req[r].sid,
                    vision |-> req[r].vision, backend |-> req[r].backend]
      BY RequestStates DEF RequestState, IInv, Types
    <3>2. PICK new : new = [req[r] EXCEPT !.pc = "connects", !.backend = b]
      OBVIOUS
    <3>3. new = [pc |-> "connects", sid |-> req[r].sid,
                 vision |-> req[r].vision, backend |-> b]
      BY <3>1, <3>2
    <3>4. new = RequestState(new)
      BY <3>3 DEF RequestState
    <3>5. req' = [req EXCEPT ![r] = new]
      <4>1. req' = [req EXCEPT ![r] = [req[r] EXCEPT !.pc = "connects", !.backend = b]]
        BY <2>1
      <4> QED
        BY <3>2, <4>1, Zenon
    <3>6. Requests' /\ req'[r] = new /\ \A q \in Request \ {r} : req'[q] = req[q]
      BY <3>4, <3>5, RequestIsReplaced DEF IInv, Types
    <3> QED
      BY <3>3, <3>6
  <2>4. /\ table' \in [Backend -> Entry]
        /\ \A c \in Backend :
             table'[c].inflight = table[c].inflight + IF c = b THEN 1 ELSE 0
    <3>1. table \in [Backend -> Entry]
      BY DEF IInv, Types
    <3>2. PICK t : t = table[b]
      OBVIOUS
    <3>3. /\ t = [healthy |-> t.healthy, busy |-> t.busy, inflight |-> t.inflight]
          /\ t.healthy \in BOOLEAN /\ t.busy \in Nat /\ t.inflight \in Nat
      BY <2>2, <3>1, <3>2 DEF Entry
    <3>4. PICK new : new = [t EXCEPT !.inflight = t.inflight + 1]
      OBVIOUS
    <3>5. new = [healthy |-> t.healthy, busy |-> t.busy, inflight |-> t.inflight + 1]
      BY <3>3, <3>4
    <3>6. new \in Entry /\ new.inflight = t.inflight + 1
      BY <3>3, <3>5 DEF Entry
    <3>7. table' = [table EXCEPT ![b] = new]
      <4>1. table' = [table EXCEPT ![b] = [table[b] EXCEPT !.inflight = table[b].inflight + 1]]
        BY <2>1
      <4> QED
        BY <3>2, <3>4, <4>1, Zenon
    <3>8. \A c \in Backend : table[c].inflight \in Nat
      BY <3>1 DEF Entry
    <3> QED
      BY <2>2, <3>1, <3>2, <3>6, <3>7, <3>8
  <2>5. Types'
    <3>1. lease' \in [Session -> Backend \cup {0}]
      BY <1>2, <2>1, <2>2
    <3>2. bySession' \in [Session -> Nat] /\ active' \in Nat
      BY <2>1 DEF IInv, Types
    <3> QED
      BY <1>1, <2>3, <2>4, <3>1, <3>2 DEF IInv, Types, Backend, Prober, Entry, Look
  <2>6. ProbesFirst'
    BY <1>1, <1>3, <2>3 DEF IInv, ProbesFirst, Backend
  <2>7. Within'
    <3>1. table[b].busy + table[b].inflight < Cap[b]
      BY <2>2 DEF CanUse, Available
    <3>2. \A c \in Backend : /\ table[c].busy \in Nat /\ table[c].inflight \in Nat
                             /\ Cap[c] \in Nat /\ table[c].inflight <= Cap[c]
      BY BackendFacts DEF IInv, Types, Entry, Within
    <3>3. \A c \in Backend : table'[c].inflight <= Cap[c]
      BY <2>2, <2>4, <3>1, <3>2
    <3>4. \A q \in Request : req'[q].pc \in Holding => req'[q].backend \in Backend
      BY <2>2, <2>3 DEF IInv, Within
    <3> QED
      BY <3>3, <3>4 DEF Within, Backend
  <2>8. SlotsAccounted'
    <3>1. "connects" \in Holding /\ req[r].pc \notin Holding
      BY <1>1 DEF Holding
    <3>2. Holders' = Holders \cup {r} /\ r \notin Holders
      BY <2>3, <3>1 DEF Holders
    <3>3. \A c \in Backend :
            On(c, Holding)' = (IF c = b THEN On(c, Holding) \cup {r} ELSE On(c, Holding))
            /\ r \notin On(c, Holding)
      BY <2>3, <3>1 DEF On
    <3>4. \A s \in Session :
            Mine(s)' = (IF s = sid THEN Mine(s) \cup {r} ELSE Mine(s)) /\ r \notin Mine(s)
      BY <2>3, <3>1 DEF Mine
    <3>5. \A c \in Backend : table'[c].inflight = Cardinality(On(c, Holding)')
      <4> SUFFICES ASSUME NEW c \in Backend
                   PROVE  table'[c].inflight = Cardinality(On(c, Holding)')
        OBVIOUS
      <4>1. table[c].inflight = Cardinality(On(c, Holding)) /\ table[c].inflight \in Nat
        BY Accounts DEF IInv, Types, Entry
      <4>2. Cardinality(On(c, Holding) \cup {r}) = Cardinality(On(c, Holding)) + 1
        BY <3>3, OneMore, FiniteParts
      <4>3. CASE c = b
        <5>1. On(c, Holding)' = On(c, Holding) \cup {r}
          BY <3>3, <4>3
        <5>2. table'[c].inflight = table[c].inflight + 1
          BY <2>4, <4>3
        <5> QED
          BY <4>1, <4>2, <5>1, <5>2
      <4>4. CASE c # b
        <5>1. On(c, Holding)' = On(c, Holding)
          BY <3>3, <4>4
        <5>2. table'[c].inflight = table[c].inflight
          BY <2>4, <4>1, <4>4
        <5> QED
          BY <4>1, <5>1, <5>2
      <4> QED
        BY <4>3, <4>4
    <3>6. active' = Cardinality(Holders')
      <4>1. Cardinality(Holders \cup {r}) = Cardinality(Holders) + 1
        BY <3>2, OneMore, FiniteParts
      <4> QED
        BY <2>1, <3>2, <4>1, Accounts DEF IInv
    <3>7. \A s \in Session : bySession'[s] = Cardinality(Mine(s)')
      <4> SUFFICES ASSUME NEW s \in Session PROVE bySession'[s] = Cardinality(Mine(s)')
        OBVIOUS
      <4>1. bySession[s] = Cardinality(Mine(s)) /\ bySession[s] \in Nat
        BY Accounts DEF IInv, Types
      <4>2. Cardinality(Mine(s) \cup {r}) = Cardinality(Mine(s)) + 1
        BY <3>4, OneMore, FiniteParts
      <4>3. CASE s = sid
        <5>1. Mine(s)' = Mine(s) \cup {r}
          BY <3>4, <4>3
        <5>2. bySession'[s] = bySession[s] + 1
          BY <2>1, <4>3
        <5> QED
          BY <4>1, <4>2, <5>1, <5>2
      <4>4. CASE s # sid
        <5>1. Mine(s)' = Mine(s)
          BY <3>4, <4>4
        <5>2. bySession'[s] = bySession[s]
          BY <2>1, <4>1, <4>4
        <5> QED
          BY <4>1, <5>1, <5>2
      <4> QED
        BY <4>3, <4>4
    <3>8. \A s \in Session : Mine(s)' # {} => lease'[s] # 0
      <4> SUFFICES ASSUME NEW s \in Session, Mine(s)' # {} PROVE lease'[s] # 0
        OBVIOUS
      <4>1. CASE s = sid
        BY <2>1, <2>2, <4>1, BackendFacts
      <4>2. CASE s # sid
        <5>1. Mine(s) # {} /\ lease'[s] = kept[s]
          BY <2>1, <3>4, <4>2
        <5>2. bySession[s] # 0 /\ lease[s] # 0
          BY <5>1, Accounts, FiniteParts, FS_EmptySet DEF IInv
        <5> QED
          BY <1>2, <5>1, <5>2
      <4> QED
        BY <4>1, <4>2
    <3> QED
      BY <3>5, <3>6, <3>7, <3>8, AccountsNext
  <2> QED
    BY <2>5, <2>6, <2>7, <2>8 DEF IInv
<1> QED
  BY <1>4, <1>5

-----------------------------------------------------------------------------
\* Finish gives back what Select took: the counters are above zero because r
\* is counted in each of them.
LEMMA FinishStep ==
    ASSUME IInv, NEW r \in Request, Finish(r)
    PROVE  IInv'
<1>0. PICK b, sid : b = req[r].backend /\ sid = req[r].sid
  OBVIOUS
<1> DEFINE left == [s \in Session |-> IF s = sid /\ bySession[s] > 0 THEN bySession[s] - 1
                                      ELSE bySession[s]]
           young == {s \in Session : s = sid /\ lease[s] = b}
           gone == Expired(left) \ young
<1>1. /\ req[r].pc = "streams"
      /\ table' = [table EXCEPT ![b] = Freed(table[b], r)]
      /\ bySession' = left
      /\ lease' = [s \in Session |-> IF s \in gone THEN 0 ELSE lease[s]]
      /\ active' = IF active > 0 THEN active - 1 ELSE active
      /\ req' = [req EXCEPT ![r] = [New EXCEPT !.pc = "done"]]
      /\ UNCHANGED <<look, cond, foreign, changes>>
  BY <1>0 DEF Finish
<1>2. /\ lease' \in [Session -> Backend \cup {0}]
      /\ \A s \in Session : left[s] # 0 => lease'[s] = lease[s]
  <2>1. \A s \in gone : left[s] = 0
    BY DEF Expired
  <2>2. lease \in [Session -> Backend \cup {0}]
    BY DEF IInv, Types
  <2> HIDE DEF gone, left
  <2> QED
    BY <1>1, <2>1, <2>2
<1> HIDE DEF young, gone
<1>3. req[r].pc \in Holding /\ b \in Backend
  BY <1>0, <1>1 DEF Holding, IInv, Within
<1>4. Requests' /\ req'[r].pc = "done" /\ \A q \in Request \ {r} : req'[q] = req[q]
  <2>1. PICK new : new = [New EXCEPT !.pc = "done"]
    OBVIOUS
  <2>2. new = RequestState(new) /\ new.pc = "done"
    BY <2>1 DEF New, RequestState
  <2>3. req' = [req EXCEPT ![r] = new]
    BY <1>1, <2>1
  <2> QED
    BY <2>2, <2>3, RequestIsReplaced DEF IInv, Types
<1>5. "done" \notin Holding
  BY DEF Holding
<1>6. Holders' = Holders \ {r} /\ r \in Holders
  BY <1>3, <1>4, <1>5 DEF Holders
<1>7. /\ r \in On(b, Holding)
      /\ On(b, Holding)' = On(b, Holding) \ {r}
      /\ \A c \in Backend \ {b} : On(c, Holding)' = On(c, Holding)
  <2>1. \A c : On(c, Holding)' = On(c, Holding) \ {r}
    BY <1>4, <1>5 DEF On
  <2>2. \A c : r \in On(c, Holding) <=> c = b
    BY <1>0, <1>3 DEF On
  <2> QED
    BY <2>1, <2>2
<1>8. /\ r \in Mine(sid)
      /\ Mine(sid)' = Mine(sid) \ {r}
      /\ \A s \in Session \ {sid} : Mine(s)' = Mine(s)
  <2>1. \A s : Mine(s)' = Mine(s) \ {r}
    BY <1>4, <1>5 DEF Mine
  <2>2. \A s : r \in Mine(s) <=> s = sid
    BY <1>0, <1>3 DEF Mine
  <2> QED
    BY <2>1, <2>2
<1> DEFINE n == table[b].inflight
<1>9. n \in Nat /\ n > 0 /\ n = Cardinality(On(b, Holding))
      /\ Cardinality(On(b, Holding)') = n - 1
  <2>1. n \in Nat /\ n = Cardinality(On(b, Holding))
    BY <1>3, Accounts DEF IInv, Types, Entry
  <2>2. n # 0
    BY <1>7, <2>1, FiniteParts, FS_EmptySet
  <2> QED
    BY <1>7, <2>1, <2>2, FiniteParts, OneLess
<1>10. /\ table' \in [Backend -> Entry]
       /\ table'[b].inflight = n - 1
       /\ \A c \in Backend \ {b} : table'[c] = table[c]
  <2>1. table \in [Backend -> Entry]
    BY DEF IInv, Types
  <2>2. PICK t : t = table[b]
    OBVIOUS
  <2>3. /\ t = [healthy |-> t.healthy, busy |-> t.busy, inflight |-> t.inflight]
        /\ t.healthy \in BOOLEAN /\ t.busy \in Nat /\ t.inflight = n
    BY <1>3, <2>1, <2>2 DEF Entry
  <2>4. PICK new : new = [t EXCEPT !.inflight = t.inflight - 1]
    OBVIOUS
  <2>5. new = [healthy |-> t.healthy, busy |-> t.busy, inflight |-> t.inflight - 1]
    BY <2>3, <2>4
  <2>6. new \in Entry /\ new.inflight = n - 1
    BY <1>9, <2>3, <2>5 DEF Entry
  <2>7. table' = [table EXCEPT ![b] = new]
    BY <1>1, <1>9, <2>2, <2>3, <2>4 DEF Freed
  <2> QED
    BY <1>3, <2>1, <2>6, <2>7
<1>11. /\ left \in [Session -> Nat]
       /\ \A s \in Session : left[s] = Cardinality(Mine(s)')
  <2> SUFFICES ASSUME NEW s \in Session
               PROVE  left[s] \in Nat /\ left[s] = Cardinality(Mine(s)')
    OBVIOUS
  <2>1. bySession[s] \in Nat /\ bySession[s] = Cardinality(Mine(s))
    BY Accounts DEF IInv, Types
  <2>2. CASE s = sid
    <3>1. bySession[s] # 0
      BY <1>8, <2>1, <2>2, FiniteParts, FS_EmptySet
    <3>2. left[s] = bySession[s] - 1
      BY <2>1, <2>2, <3>1
    <3>3. Cardinality(Mine(s)') = bySession[s] - 1
      BY <1>8, <2>1, <2>2, FiniteParts, OneLess
    <3> QED
      BY <2>1, <3>1, <3>2, <3>3
  <2>3. CASE s # sid
    BY <1>8, <2>1, <2>3
  <2> QED
    BY <2>2, <2>3
<1> HIDE DEF left
<1>12. active' \in Nat /\ active' = Cardinality(Holders')
  <2>1. active \in Nat /\ active = Cardinality(Holders)
    BY Accounts DEF IInv, Types
  <2>2. active # 0
    BY <1>6, <2>1, FiniteParts, FS_EmptySet
  <2>3. Cardinality(Holders') = active - 1
    BY <1>6, <2>1, FiniteParts, OneLess
  <2> QED
    BY <1>1, <2>1, <2>2, <2>3
<1>13. Types'
  BY <1>1, <1>2, <1>4, <1>10, <1>11, <1>12 DEF IInv, Types, Backend, Prober, Entry, Look
<1>14. ProbesFirst'
  BY <1>1, <1>3, <1>4 DEF IInv, ProbesFirst, Backend, Holding
<1>15. Within'
  <2>1. \A c \in Backend : table[c].inflight <= Cap[c] /\ Cap[c] \in Nat
    BY BackendFacts DEF IInv, Within
  <2>2. \A c \in Backend : table'[c].inflight <= Cap[c]
    BY <1>9, <1>10, <2>1
  <2>3. \A q \in Request : req'[q].pc \in Holding => req'[q].backend \in Backend
    BY <1>4, <1>5 DEF IInv, Within
  <2> QED
    BY <2>2, <2>3 DEF Within, Backend
<1>16. SlotsAccounted'
  <2>1. \A c \in Backend : table'[c].inflight = Cardinality(On(c, Holding)')
    <3> SUFFICES ASSUME NEW c \in Backend
                 PROVE  table'[c].inflight = Cardinality(On(c, Holding)')
      OBVIOUS
    <3>1. CASE c = b
      BY <1>9, <1>10, <3>1
    <3>2. CASE c # b
      <4>1. table'[c] = table[c] /\ On(c, Holding)' = On(c, Holding)
        BY <1>7, <1>10, <3>2
      <4> QED
        BY <4>1, Accounts DEF IInv
    <3> QED
      BY <3>1, <3>2
  <2>2. \A s \in Session : Mine(s)' # {} => lease'[s] # 0
    <3> SUFFICES ASSUME NEW s \in Session, Mine(s)' # {} PROVE lease'[s] # 0
      OBVIOUS
    <3>1. Mine(s)' \subseteq Mine(s)
      BY <1>8
    <3>2. lease[s] # 0 /\ IsFiniteSet(Mine(s)')
      BY <3>1, Accounts, FiniteParts, FS_Subset DEF IInv
    <3>3. left[s] # 0
      BY <1>11, <3>2, FS_EmptySet
    <3> QED
      BY <1>2, <3>2, <3>3
  <2> QED
    BY <1>1, <1>11, <1>12, <2>1, <2>2, AccountsNext
<1> QED
  BY <1>13, <1>14, <1>15, <1>16 DEF IInv

-----------------------------------------------------------------------------
\* The theorems

LEMMA InitInv ==
    Init => IInv
<1> SUFFICES ASSUME Init PROVE IInv
  OBVIOUS
<1>1. Requests /\ \A r \in Request : req[r].pc = "new"
  <2>1. New = RequestState(New) /\ New.pc = "new"
    BY DEF New, RequestState
  <2>2. req = [r \in Request |-> New]
    BY DEF Init
  <2>3. \A r \in Request : req[r] = New
    BY <2>2
  <2>4. req = [r \in Request |-> RequestState(req[r])]
    BY <2>1, <2>2, <2>3
  <2> QED
    BY <2>1, <2>3, <2>4 DEF Requests
<1>2. look \in [Prober -> Look] /\ \A r \in Request : r # Loop => look[r].at \notin Backend
  <2>1. NoLook \in Look /\ FirstLook \in Look /\ NoLook.at = 0
    BY DEF NoLook, FirstLook, Look
  <2>2. look = [p \in Prober |-> IF p = Loop THEN FirstLook ELSE NoLook]
    BY DEF Init
  <2>3. look \in [Prober -> Look]
    BY <2>1, <2>2
  <2>4. \A r \in Request : r # Loop => look[r].at = 0
    BY <2>1, <2>2 DEF Prober
  <2> QED
    BY <2>3, <2>4, BackendFacts
<1>3. \A b \in Backend : Startup(b) \in Entry /\ Startup(b).inflight = 0
  <2> SUFFICES ASSUME NEW b \in Backend PROVE Startup(b) \in Entry /\ Startup(b).inflight = 0
    OBVIOUS
  <2>1. PICK got : got = [NoLook EXCEPT !.cond = cond[b]]
    OBVIOUS
  <2>2. PICK t : t = [healthy |-> TRUE, busy |-> 0, inflight |-> 0]
    OBVIOUS
  <2>3. got.load = 0
    BY <2>1 DEF NoLook
  <2>4. t \in Entry /\ t.inflight = 0
    BY <2>2 DEF Entry
  <2>5. Learned(t, got) \in Entry /\ Learned(t, got).inflight = 0
    BY <2>3, <2>4, LearnedKeepsSlots
  <2> QED
    BY <2>1, <2>2, <2>5 DEF Startup
<1>4. table \in [Backend -> Entry] /\ \A b \in Backend : table[b].inflight = 0
  BY <1>3 DEF Init
<1>5. Types
  BY <1>1, <1>2, <1>4 DEF Init, Types, Condition
<1>6. Holders = {} /\ (\A b \in Backend : On(b, Holding) = {}) /\ \A s \in Session : Mine(s) = {}
  BY <1>1 DEF Holders, On, Mine, Holding
<1>7. SlotsAccounted
  BY <1>4, <1>6, Accounts, FS_EmptySet DEF Init
<1>8. Within
  BY <1>1, <1>4, BackendFacts DEF Within, Holding
<1>9. ProbesFirst
  BY <1>2 DEF ProbesFirst
<1> QED
  BY <1>5, <1>7, <1>8, <1>9 DEF IInv

LEMMA StepInv ==
    IInv /\ [Next]_vars => IInv'
<1> SUFFICES ASSUME IInv, [Next]_vars PROVE IInv'
  OBVIOUS
<1>1. ASSUME NEW p \in Prober, Ask(p) \/ Store(p) PROVE IInv'
  BY <1>1, AskStep, StoreStep
<1>2. ASSUME NEW r \in Request, Health(r) PROVE IInv'
  BY <1>2, HealthStep
<1>3. ASSUME NEW r \in Request, NEW m \in Message, Arrive(r, m) PROVE IInv'
  BY <1>3, ArriveStep
<1>4. ASSUME NEW r \in Request, Select(r) PROVE IInv'
  BY <1>4, SelectStep
<1>5. ASSUME NEW r \in Request, Connect(r) \/ ConnectFails(r) PROVE IInv'
  <2>1. PICK p \in Holding : req' = [req EXCEPT ![r].pc = p]
    BY <1>5 DEF Connect, ConnectFails, Holding
  <2>2. /\ req[r].pc \in Holding
        /\ UNCHANGED <<table, lease, bySession, active, look, cond, foreign>>
    BY <1>5 DEF Connect, ConnectFails, Holding
  <2> QED
    BY <2>1, <2>2, StillHolding
<1>6. ASSUME NEW r \in Request, Finish(r) PROVE IInv'
  BY <1>6, FinishStep
<1>7. ASSUME NEW s \in Session, GrowOld(s) PROVE IInv'
  BY <1>7, SurroundingsStep DEF GrowOld, IInv, Types
<1>8. ASSUME NEW b \in Backend, Change(b) PROVE IInv'
  BY <1>8, ChangeStep
<1>9. CASE UNCHANGED vars
  BY <1>9, SurroundingsStep DEF vars, IInv, Types
<1> QED
  BY <1>1, <1>2, <1>3, <1>4, <1>5, <1>6, <1>7, <1>8, <1>9 DEF Next, Task

LEMMA Invariance ==
    Spec => []IInv
<1> QED
  BY InitInv, StepInv, PTL DEF Spec

\* Every in-flight count of router.py is the number of requests it stands for,
\* the lost ones with them, and no cleanup takes the lease of a session with a
\* request in flight: whatever the probes, the backends and the other requests do.
THEOREM LegacySlots ==
    Spec => []SlotsAccounted
<1>1. IInv => SlotsAccounted
  BY DEF IInv
<1> QED
  BY <1>1, Invariance, PTL

\* No backend is ever given more requests than it is configured for, however old
\* the probe is that a request decides by.
THEOREM LegacyCap ==
    Spec => []NeverBeyondCap
<1>1. IInv => NeverBeyondCap
  <2> SUFFICES ASSUME IInv, NEW b \in Backend PROVE Cardinality(On(b, Holding)) <= Cap[b]
    BY DEF NeverBeyondCap
  <2>1. table[b].inflight = Cardinality(On(b, Holding))
    BY Accounts DEF IInv
  <2> QED
    BY <2>1 DEF IInv, Within
<1> QED
  BY <1>1, Invariance, PTL
=============================================================================
