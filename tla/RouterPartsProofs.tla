-------------------------- MODULE RouterPartsProofs --------------------------
(***************************************************************************)
(* Proofs about the parts of the router on their own.  CapacityPool: for   *)
(* every finite set of requests, every capacity and every pair of timeouts *)
(* that satisfies TimeoutOrder.  HealthWorker: for every pair of           *)
(* thresholds and every history of probes.  RouteDecision: for every body, *)
(* every table, every order in which a map may be iterated and every pair  *)
(* of reserves.                                                            *)
(***************************************************************************)
EXTENDS CapacityPool, HealthWorker, RouteDecision, ListsProofs

-----------------------------------------------------------------------------
(* CapacityPool *)

-----------------------------------------------------------------------------
\* The inductive invariant

\* Handlers whose lease may be in the map.
Holding == {"send", "forward", "stalled", "release"}

\* The counter is within the capacity, and so is what a handler about to
\* compare-and-swap has loaded.
CounterInv ==
    /\ inflight <= Capacity
    /\ \A r \in Requests : pc[r] = "cas" => cur[r] < Capacity

FiniteInv == IsFiniteSet(DOMAIN leases) /\ IsFiniteSet(reaped)

\* Every lease in the map is that of a handler that still has to release.
OwnedInv ==
    \A i \in DOMAIN leases :
        \E r \in Requests : pc[r] \in Holding /\ leaseID[r] = i

\* Whatever the lease ids, nobody is owed more slots than are counted.
OwedInv == Outstanding <= inflight

\* With distinct lease ids, a handler that is sending or forwarding has its
\* lease in the map, and that lease is too young to expire.
LiveInv ==
    UniqueIDs => \A r \in Requests :
        /\ pc[r] = "send" =>
             leaseID[r] \in DOMAIN leases /\ leases[leaseID[r]] >= now
        /\ pc[r] = "forward" =>
             /\ leaseID[r] \in DOMAIN leases
             /\ leases[leaseID[r]] >= opened[r]
             /\ opened[r] <= now /\ now <= opened[r] + UpstreamTimeout

\* With distinct ids, a reaped lease is in no map again, and it is that of a
\* handler that has answered its client.
ReapedInv ==
    UniqueIDs => \A i \in reaped :
        /\ i \notin DOMAIN leases
        /\ \E r \in Requests : pc[r] \in {"stalled", "release", "done"} /\ leaseID[r] = i

IInv == TypeOK /\ CounterInv /\ FiniteInv /\ OwnedInv /\ OwedInv
          /\ SlotAccounting /\ LiveInv /\ ReapedInv

-----------------------------------------------------------------------------
\* Type correctness

LEMMA CapacityType == Capacity \in Nat \ {0}
  BY CapacityIsInt DEF Capacity

\* Every step of the handlers, the watchdog and the clocks preserves the types.
LEMMA TypeStep == TypeOK /\ [Next]_vars => TypeOK'
<1> SUFFICES ASSUME TypeOK, [Next]_vars PROVE TypeOK'
  OBVIOUS
<1> USE TimesAreNat DEF TypeOK, PCs, LeaseIDs, Goto
<1>1. ASSUME NEW r \in Requests, ReadSeq(r) PROVE TypeOK'
  BY <1>1 DEF ReadSeq
<1>2. ASSUME NEW r \in Requests, BumpSeq(r) PROVE TypeOK'
  BY <1>2 DEF BumpSeq
<1>3. ASSUME NEW r \in Requests, Stamp(r) PROVE TypeOK'
  BY <1>3 DEF Stamp
<1>4. ASSUME NEW r \in Requests, ReserveLoad(r) PROVE TypeOK'
  BY <1>4 DEF ReserveLoad
<1>5. ASSUME NEW r \in Requests, ReserveCAS(r) PROVE TypeOK'
  BY <1>5 DEF ReserveCAS
<1>6. ASSUME NEW r \in Requests, ReserveInsert(r) PROVE TypeOK'
  BY <1>6 DEF ReserveInsert, Put
<1>7. ASSUME NEW r \in Requests, Open(r) PROVE TypeOK'
  BY <1>7 DEF Open
<1>8. ASSUME NEW r \in Requests, BuildFails(r) \/ Close(r) \/ Unstall(r)
      PROVE TypeOK'
  BY <1>8 DEF BuildFails, Close, Unstall
<1>9. ASSUME NEW r \in Requests, Touch(r) PROVE TypeOK'
  BY <1>9 DEF Touch, Put
<1>10. ASSUME NEW r \in Requests, ReleaseDelete(r) PROVE TypeOK'
  BY <1>10 DEF ReleaseDelete, Drop, Restrict
<1>11. ASSUME NEW r \in Requests, ReleaseDec(r) PROVE TypeOK'
  BY <1>11 DEF ReleaseDec
<1>12. CASE ReapDelete
  BY <1>12 DEF ReapDelete, Drop, Restrict
<1>13. CASE ReapDec
  BY <1>13 DEF ReapDec
<1>14. CASE Tick \/ TickMillis
  BY <1>14 DEF Tick, TickMillis
<1>15. CASE UNCHANGED vars
  BY <1>15 DEF vars
<1> QED
  BY <1>1, <1>2, <1>3, <1>4, <1>5, <1>6, <1>7, <1>8, <1>9, <1>10, <1>11,
     <1>12, <1>13, <1>14, <1>15 DEF Next, Handler

LEMMA TypeInit == Init => TypeOK
  BY DEF Init, TypeOK, PCs, LeaseIDs

\* CapacityPool is type correct.
THEOREM TypeCorrect == Spec => []TypeOK
  BY TypeInit, TypeStep, PTL DEF Spec

-----------------------------------------------------------------------------
\* Counting handlers and leases

LEMMA AtFinite == ASSUME NEW p PROVE IsFiniteSet(At(p))
  BY RequestsFinite, FS_Subset DEF At

\* A handler that goes from p to q leaves the one set for the other.
LEMMA Moves ==
  ASSUME TypeOK, NEW r \in Requests, NEW q \in PCs, pc[r] # q, Goto(r, q)
  PROVE  /\ Cardinality(At(q)') = Cardinality(At(q)) + 1
         /\ Cardinality(At(pc[r])) \in Nat
         /\ \A p \in PCs : p # q /\ p # pc[r] => At(p)' = At(p)
<1>1. At(q)' = At(q) \cup {r} /\ r \notin At(q)
  BY DEF At, Goto, TypeOK
<1>2. Cardinality(At(q)') = Cardinality(At(q)) + 1
  BY <1>1, AtFinite, FS_AddElement
<1>3. \A p \in PCs : p # q /\ p # pc[r] => At(p)' = At(p)
  BY DEF At, Goto, TypeOK
<1> QED
  BY <1>2, <1>3, AtFinite, FS_CardinalityType

LEMMA Leaves ==
  ASSUME TypeOK, NEW r \in Requests, NEW p \in PCs, NEW q \in PCs,
         pc[r] = p, p # q, Goto(r, q)
  PROVE  Cardinality(At(p)') = Cardinality(At(p)) - 1
<1>1. At(p)' = At(p) \ {r} /\ r \in At(p)
  BY DEF At, Goto, TypeOK
<1> QED
  BY <1>1, AtFinite, FS_RemoveElement

LEMMA CardTypes ==
  ASSUME TypeOK, FiniteInv
  PROVE  /\ Cardinality(At("insert")) \in Nat
         /\ Cardinality(At("dec")) \in Nat
         /\ Cardinality(DOMAIN leases) \in Nat
         /\ Cardinality(reaped) \in Nat
  BY AtFinite, FS_CardinalityType DEF FiniteInv

LEMMA OutstandingType == TypeOK /\ FiniteInv => Outstanding \in Nat /\ inflight \in Int
  BY CardTypes DEF Outstanding, TypeOK

\* The map and the watchdog's list stay finite.
LEMMA FiniteStep == TypeOK /\ FiniteInv /\ [Next]_vars => FiniteInv'
<1> SUFFICES ASSUME TypeOK, FiniteInv, [Next]_vars PROVE FiniteInv'
  OBVIOUS
<1> USE DEF FiniteInv
<1>1. ASSUME NEW r \in Requests, ReserveInsert(r) \/ Touch(r) PROVE FiniteInv'
  BY <1>1, FS_AddElement DEF ReserveInsert, Touch, Put
<1>2. ASSUME NEW r \in Requests, ReleaseDelete(r) PROVE FiniteInv'
  BY <1>2, FS_Difference DEF ReleaseDelete, Drop, Restrict
<1>3. CASE ReapDelete
  <2>1. DOMAIN leases' = DOMAIN leases \ reaped' /\ reaped' \subseteq DOMAIN leases
    BY <1>3 DEF ReapDelete, Drop, Restrict
  <2> QED
    BY <2>1, FS_Difference, FS_Subset
<1>4. CASE ReapDec
  BY <1>4, FS_RemoveElement DEF ReapDec
<1>5. CASE UNCHANGED <<leases, reaped>>
  BY <1>5
<1> QED
  BY <1>1, <1>2, <1>3, <1>4, <1>5
  DEF Next, Handler, vars, ReadSeq, BumpSeq, Stamp, ReserveLoad, ReserveCAS, Open,
      BuildFails, Close, Unstall, ReleaseDec, Tick, TickMillis

\* The counter never passes the capacity: only a compare-and-swap from a
\* value below it increments, and nothing else does.
LEMMA CounterStep == TypeOK /\ CounterInv /\ [Next]_vars => CounterInv'
<1> SUFFICES ASSUME TypeOK, CounterInv, [Next]_vars PROVE CounterInv'
  OBVIOUS
<1> USE CapacityType DEF CounterInv, TypeOK, Goto
<1>1. ASSUME NEW r \in Requests, ReserveLoad(r) PROVE CounterInv'
  BY <1>1 DEF ReserveLoad
<1>2. ASSUME NEW r \in Requests, ReserveCAS(r) PROVE CounterInv'
  BY <1>2 DEF ReserveCAS
<1>3. ASSUME NEW r \in Requests, ReleaseDec(r) PROVE CounterInv'
  BY <1>3 DEF ReleaseDec
<1>4. CASE ReapDec
  BY <1>4 DEF ReapDec
<1>5. ASSUME NEW r \in Requests,
             \/ ReadSeq(r) \/ BumpSeq(r) \/ Stamp(r) \/ ReserveInsert(r) \/ Open(r)
             \/ BuildFails(r) \/ Close(r) \/ Unstall(r) \/ Touch(r) \/ ReleaseDelete(r)
      PROVE CounterInv'
  BY <1>5 DEF ReadSeq, BumpSeq, Stamp, ReserveInsert, Open, BuildFails, Close,
              Unstall, Touch, ReleaseDelete
<1>6. CASE ReapDelete \/ Tick \/ TickMillis \/ UNCHANGED vars
  BY <1>6 DEF ReapDelete, Tick, TickMillis, vars
<1> QED
  BY <1>1, <1>2, <1>3, <1>4, <1>5, <1>6 DEF Next, Handler

\* Leases are only ever in the map on behalf of a handler that will release.
LEMMA OwnedStep == TypeOK /\ OwnedInv /\ [Next]_vars => OwnedInv'
<1> SUFFICES ASSUME TypeOK, OwnedInv, [Next]_vars PROVE OwnedInv'
  OBVIOUS
<1> USE DEF OwnedInv, Holding, TypeOK, Goto
<1>1. ASSUME NEW r \in Requests, Stamp(r) PROVE OwnedInv'
  BY <1>1 DEF Stamp
<1>2. ASSUME NEW r \in Requests, ReserveInsert(r) PROVE OwnedInv'
  BY <1>2 DEF ReserveInsert, Put
<1>3. ASSUME NEW r \in Requests, Touch(r) PROVE OwnedInv'
  BY <1>3 DEF Touch, Put
<1>4. ASSUME NEW r \in Requests, ReleaseDelete(r) PROVE OwnedInv'
  BY <1>4 DEF ReleaseDelete, Drop, Restrict
<1>5. CASE ReapDelete
  BY <1>5 DEF ReapDelete, Drop, Restrict
<1>6. ASSUME NEW r \in Requests,
             \/ ReadSeq(r) \/ BumpSeq(r) \/ ReserveLoad(r) \/ ReserveCAS(r)
             \/ Open(r) \/ BuildFails(r) \/ Close(r) \/ Unstall(r) \/ ReleaseDec(r)
      PROVE OwnedInv'
  BY <1>6 DEF ReadSeq, BumpSeq, ReserveLoad, ReserveCAS, Open, BuildFails, Close,
              Unstall, ReleaseDec
<1>7. CASE ReapDec \/ Tick \/ TickMillis \/ UNCHANGED vars
  BY <1>7 DEF ReapDec, Tick, TickMillis, vars
<1> QED
  BY <1>1, <1>2, <1>3, <1>4, <1>5, <1>6, <1>7 DEF Next, Handler

-----------------------------------------------------------------------------
\* Lease ids

\* A stamped handler keeps its lease id.
LEMMA StampedStep ==
  ASSUME TypeOK, [Next]_vars, NEW r \in Requests, Stamped(r)
  PROVE  Stamped(r)' /\ leaseID'[r] = leaseID[r]
<1> USE DEF TypeOK, Stamped, Goto
<1>1. ASSUME NEW s \in Requests, ReadSeq(s) \/ BumpSeq(s) \/ Stamp(s)
      PROVE  Stamped(r)' /\ leaseID'[r] = leaseID[r]
  BY <1>1 DEF ReadSeq, BumpSeq, Stamp
<1>2. ASSUME NEW s \in Requests,
             \/ ReserveLoad(s) \/ ReserveCAS(s) \/ ReserveInsert(s) \/ Open(s)
             \/ BuildFails(s) \/ Close(s) \/ Unstall(s) \/ Touch(s)
             \/ ReleaseDelete(s) \/ ReleaseDec(s)
      PROVE  Stamped(r)' /\ leaseID'[r] = leaseID[r]
  BY <1>2 DEF ReserveLoad, ReserveCAS, ReserveInsert, Open, BuildFails, Close, Unstall,
              Touch, ReleaseDelete, ReleaseDec
<1>3. CASE ReapDelete \/ ReapDec \/ Tick \/ TickMillis \/ UNCHANGED vars
  BY <1>3 DEF ReapDelete, ReapDec, Tick, TickMillis, vars
<1> QED
  BY <1>1, <1>2, <1>3 DEF Next, Handler

\* So ids that are distinct now have been distinct all along.
LEMMA UniqueBefore == TypeOK /\ [Next]_vars /\ UniqueIDs' => UniqueIDs
  BY StampedStep DEF UniqueIDs

-----------------------------------------------------------------------------
\* Slots owed and slots counted

\* How one step changes the number of slots still to be given back: it moves
\* with the counter, except that inserting a lease whose id is already in the
\* map forgets a slot.
LEMMA OutstandingStep ==
  ASSUME TypeOK, FiniteInv, [Next]_vars
  PROVE  \/ Outstanding' - inflight' = Outstanding - inflight
         \/ /\ \E r \in Requests : pc[r] = "insert" /\ leaseID[r] \in DOMAIN leases
                                     /\ ReserveInsert(r)
            /\ Outstanding' - inflight' = Outstanding - inflight - 1
<1> DEFINE Same == Outstanding' - inflight' = Outstanding - inflight
<1> USE CardTypes DEF Outstanding
<1>1. ASSUME NEW r \in Requests, ReserveCAS(r) PROVE Same
  <2>1. CASE inflight = cur[r]
    <3>1. Goto(r, "insert") /\ pc[r] = "cas" /\ inflight' = inflight + 1
          /\ UNCHANGED <<leases, reaped>>
      BY <1>1, <2>1 DEF ReserveCAS
    <3>2. /\ Cardinality(At("insert")') = Cardinality(At("insert")) + 1
          /\ At("dec")' = At("dec")
      BY <3>1, Moves DEF PCs
    <3> QED
      BY <3>1, <3>2 DEF TypeOK
  <2>2. CASE inflight # cur[r]
    <3>1. Goto(r, "load") /\ pc[r] = "cas" /\ UNCHANGED <<inflight, leases, reaped>>
      BY <1>1, <2>2 DEF ReserveCAS
    <3>2. At("insert")' = At("insert") /\ At("dec")' = At("dec")
      BY <3>1, Moves DEF PCs
    <3> QED
      BY <3>1, <3>2 DEF TypeOK
  <2> QED
    BY <2>1, <2>2
<1>2. ASSUME NEW r \in Requests, ReserveInsert(r)
      PROVE  IF leaseID[r] \in DOMAIN leases
               THEN Outstanding' - inflight' = Outstanding - inflight - 1
               ELSE Same
  <2>1. Goto(r, "send") /\ pc[r] = "insert" /\ UNCHANGED <<inflight, reaped>>
        /\ DOMAIN leases' = DOMAIN leases \cup {leaseID[r]}
    BY <1>2 DEF ReserveInsert, Put
  <2>2. /\ Cardinality(At("insert")') = Cardinality(At("insert")) - 1
        /\ At("dec")' = At("dec")
    BY <2>1, Moves, Leaves DEF PCs
  <2>3. Cardinality(DOMAIN leases') =
          IF leaseID[r] \in DOMAIN leases THEN Cardinality(DOMAIN leases)
                                          ELSE Cardinality(DOMAIN leases) + 1
    BY <2>1, FS_AddElement DEF FiniteInv
  <2> QED
    BY <2>1, <2>2, <2>3 DEF TypeOK
<1>3. ASSUME NEW r \in Requests, Touch(r) PROVE Same
  <2>1. DOMAIN leases' = DOMAIN leases /\ UNCHANGED <<pc, inflight, reaped>>
    BY <1>3 DEF Touch, Put
  <2> QED
    BY <2>1 DEF At
<1>4. ASSUME NEW r \in Requests, ReleaseDelete(r) PROVE Same
  <2>1. pc[r] = "release" /\ UNCHANGED <<inflight, reaped>>
        /\ DOMAIN leases' = DOMAIN leases \ {leaseID[r]}
    BY <1>4 DEF ReleaseDelete, Drop, Restrict
  <2>2. Cardinality(DOMAIN leases') =
          IF leaseID[r] \in DOMAIN leases THEN Cardinality(DOMAIN leases) - 1
                                          ELSE Cardinality(DOMAIN leases)
    BY <2>1, FS_RemoveElement DEF FiniteInv
  <2>3. CASE leaseID[r] \in DOMAIN leases
    <3>1. Goto(r, "dec")
      BY <1>4, <2>3 DEF ReleaseDelete
    <3>2. /\ Cardinality(At("dec")') = Cardinality(At("dec")) + 1
          /\ At("insert")' = At("insert")
      BY <2>1, <3>1, Moves DEF PCs
    <3> QED
      BY <2>1, <2>2, <2>3, <3>2 DEF TypeOK
  <2>4. CASE leaseID[r] \notin DOMAIN leases
    <3>1. Goto(r, "done")
      BY <1>4, <2>4 DEF ReleaseDelete
    <3>2. At("insert")' = At("insert") /\ At("dec")' = At("dec")
      BY <2>1, <3>1, Moves DEF PCs
    <3> QED
      BY <2>1, <2>2, <2>4, <3>2 DEF TypeOK
  <2> QED
    BY <2>3, <2>4
<1>5. ASSUME NEW r \in Requests, ReleaseDec(r) PROVE Same
  <2>1. Goto(r, "done") /\ pc[r] = "dec" /\ inflight' = inflight - 1
        /\ UNCHANGED <<leases, reaped>>
    BY <1>5 DEF ReleaseDec
  <2>2. /\ Cardinality(At("dec")') = Cardinality(At("dec")) - 1
        /\ At("insert")' = At("insert")
    BY <2>1, Moves, Leaves DEF PCs
  <2>3. inflight \in Int /\ DOMAIN leases' = DOMAIN leases /\ reaped' = reaped
    BY <2>1 DEF TypeOK
  <2>4. Outstanding' = Outstanding - 1
    BY <2>2, <2>3
  <2>5. Outstanding \in Nat
    BY OutstandingType
  <2> QED
    BY <2>1, <2>3, <2>4, <2>5
<1>6. CASE ReapDelete
  <2>1. /\ reaped = {} /\ reaped' \subseteq DOMAIN leases
        /\ DOMAIN leases' = DOMAIN leases \ reaped' /\ UNCHANGED <<pc, inflight>>
    BY <1>6 DEF ReapDelete, Drop, Restrict
  <2>2. DOMAIN leases \cap reaped' = reaped'
    BY <2>1
  <2>3. Cardinality(DOMAIN leases') = Cardinality(DOMAIN leases) - Cardinality(reaped')
    BY <2>1, <2>2, FS_Difference DEF FiniteInv
  <2>4. Cardinality(reaped) = 0 /\ Cardinality(reaped') \in Nat
    BY <2>1, FS_EmptySet, FS_Subset, FS_CardinalityType DEF FiniteInv
  <2>5. At("insert")' = At("insert") /\ At("dec")' = At("dec")
    BY <2>1 DEF At
  <2> QED
    BY <2>1, <2>3, <2>4, <2>5 DEF TypeOK
<1>7. CASE ReapDec
  <2>1. PICK i \in reaped : reaped' = reaped \ {i}
    BY <1>7 DEF ReapDec
  <2>2. Cardinality(reaped') = Cardinality(reaped) - 1
    BY <2>1, FS_RemoveElement DEF FiniteInv
  <2>3. inflight' = inflight - 1 /\ UNCHANGED <<pc, leases>>
    BY <1>7 DEF ReapDec
  <2>4. At("insert")' = At("insert") /\ At("dec")' = At("dec")
    BY <2>3 DEF At
  <2> QED
    BY <2>2, <2>3, <2>4 DEF TypeOK
<1>8. ASSUME NEW r \in Requests,
             \/ ReadSeq(r) \/ BumpSeq(r) \/ Stamp(r) \/ ReserveLoad(r)
             \/ Open(r) \/ BuildFails(r) \/ Close(r) \/ Unstall(r)
      PROVE  Same
  <2>1. /\ UNCHANGED <<inflight, leases, reaped>>
        /\ pc[r] \notin {"insert", "dec"}
        /\ \E q \in PCs : q \notin {"insert", "dec", pc[r]} /\ Goto(r, q)
    BY <1>8 DEF ReadSeq, BumpSeq, Stamp, ReserveLoad, Open, BuildFails, Close, Unstall,
                PCs
  <2>2. At("insert")' = At("insert") /\ At("dec")' = At("dec")
    BY <2>1, Moves DEF PCs
  <2> QED
    BY <2>1, <2>2 DEF TypeOK
<1>9. CASE Tick \/ TickMillis \/ UNCHANGED vars
  BY <1>9 DEF Tick, TickMillis, vars, At
<1> QED
  BY <1>1, <1>2, <1>3, <1>4, <1>5, <1>6, <1>7, <1>8, <1>9
  DEF Next, Handler, ReserveInsert

\* The slots owed never exceed the slots counted.
LEMMA OwedStep ==
  ASSUME TypeOK, FiniteInv, OwedInv, [Next]_vars
  PROVE  OwedInv'
<1>1. Outstanding \in Nat /\ inflight \in Int
  BY OutstandingType
<1>2. TypeOK' /\ FiniteInv'
  BY TypeStep, FiniteStep
<1>3. (TypeOK /\ FiniteInv => Outstanding \in Nat /\ inflight \in Int)'
  BY OutstandingType, PTL
<1> QED
  BY <1>1, <1>2, <1>3, OutstandingStep DEF OwedInv

\* With distinct ids no insert overwrites a lease, so the count stays exact.
LEMMA AccountingStep ==
  ASSUME TypeOK, FiniteInv, OwnedInv, SlotAccounting, [Next]_vars
  PROVE  SlotAccounting'
<1> SUFFICES ASSUME UniqueIDs' PROVE inflight' = Outstanding'
  BY DEF SlotAccounting
<1>1. UniqueIDs /\ inflight = Outstanding
  BY UniqueBefore DEF SlotAccounting
<1>2. ASSUME NEW r \in Requests, pc[r] = "insert" PROVE leaseID[r] \notin DOMAIN leases
  BY <1>1, <1>2 DEF OwnedInv, UniqueIDs, Stamped, Holding
<1>3. Outstanding' - inflight' = Outstanding - inflight
  BY <1>2, OutstandingStep
<1>4. TypeOK' /\ FiniteInv'
  BY TypeStep, FiniteStep
<1>5. (TypeOK /\ FiniteInv => Outstanding \in Nat /\ inflight \in Int)'
  BY OutstandingType, PTL
<1>6. Outstanding \in Nat /\ inflight \in Int
  BY OutstandingType
<1> QED
  BY <1>1, <1>3, <1>4, <1>5, <1>6

\* The watchdog's cutoff cannot reach the lease of a running exchange.
LEMMA LiveStep ==
  ASSUME TypeOK, LiveInv, [Next]_vars
  PROVE  LiveInv'
<1> SUFFICES ASSUME UniqueIDs', NEW r \in Requests
             PROVE  /\ pc'[r] = "send" =>
                         leaseID'[r] \in DOMAIN leases' /\ leases'[leaseID'[r]] >= now'
                    /\ pc'[r] = "forward" =>
                         /\ leaseID'[r] \in DOMAIN leases'
                         /\ leases'[leaseID'[r]] >= opened'[r]
                         /\ opened'[r] <= now' /\ now' <= opened'[r] + UpstreamTimeout
  BY DEF LiveInv
<1> DEFINE Goal == /\ pc'[r] = "send" =>
                         leaseID'[r] \in DOMAIN leases' /\ leases'[leaseID'[r]] >= now'
                   /\ pc'[r] = "forward" =>
                         /\ leaseID'[r] \in DOMAIN leases'
                         /\ leases'[leaseID'[r]] >= opened'[r]
                         /\ opened'[r] <= now' /\ now' <= opened'[r] + UpstreamTimeout
<1>1. UniqueIDs
  BY UniqueBefore
<1>2. /\ pc[r] = "send" => leaseID[r] \in DOMAIN leases /\ leases[leaseID[r]] >= now
      /\ pc[r] = "forward" => /\ leaseID[r] \in DOMAIN leases
                              /\ leases[leaseID[r]] >= opened[r]
                              /\ opened[r] <= now /\ now <= opened[r] + UpstreamTimeout
  BY <1>1 DEF LiveInv
<1> USE <1>2, TimesAreNat DEF TypeOK, Goto
<1>3. ASSUME NEW s \in Requests, ReserveInsert(s) PROVE Goal
  BY <1>3 DEF ReserveInsert, Put
<1>4. ASSUME NEW s \in Requests, Open(s) PROVE Goal
  BY <1>4 DEF Open
<1>5. ASSUME NEW s \in Requests, Touch(s) PROVE Goal
  BY <1>5 DEF Touch, Put
<1>6. ASSUME NEW s \in Requests, ReleaseDelete(s) PROVE Goal
  <2>1. CASE s = r
    BY <1>6, <2>1 DEF ReleaseDelete
  <2>2. CASE s # r
    <3>1. pc'[r] = pc[r] /\ pc[s] = "release"
      BY <1>6, <2>2 DEF ReleaseDelete
    <3>2. pc[r] \in {"send", "forward"} => leaseID[r] # leaseID[s]
      BY <1>1, <2>2, <3>1 DEF UniqueIDs, Stamped
    <3> QED
      BY <1>6, <3>1, <3>2 DEF ReleaseDelete, Drop, Restrict
  <2> QED
    BY <2>1, <2>2
<1>7. CASE ReapDelete
  <2>1. pc[r] \in {"send", "forward"} => ~Expired(leaseID[r])
    BY TimeoutOrder DEF Expired
  <2> QED
    BY <1>7, <2>1 DEF ReapDelete, Drop, Restrict
<1>8. CASE Tick
  BY <1>8 DEF Tick, Computing, At
<1>9. ASSUME NEW s \in Requests,
             \/ ReadSeq(s) \/ BumpSeq(s) \/ ReserveLoad(s) \/ ReserveCAS(s)
             \/ BuildFails(s) \/ Close(s) \/ Unstall(s) \/ ReleaseDec(s)
      PROVE  Goal
  BY <1>9 DEF ReadSeq, BumpSeq, ReserveLoad, ReserveCAS, BuildFails, Close, Unstall,
              ReleaseDec
<1>10. ASSUME NEW s \in Requests, Stamp(s) PROVE Goal
  BY <1>10 DEF Stamp
<1>11. CASE ReapDec \/ TickMillis \/ UNCHANGED vars
  BY <1>11 DEF ReapDec, TickMillis, vars
<1> QED
  BY <1>3, <1>4, <1>5, <1>6, <1>7, <1>8, <1>9, <1>10, <1>11 DEF Next, Handler

\* What the watchdog has taken stays out of the map, and stays that of a handler
\* that needs no more than its return.
LEMMA ReapedStep ==
  ASSUME TypeOK, OwnedInv, LiveInv, ReapedInv, [Next]_vars
  PROVE  ReapedInv'
<1> DEFINE Over(i) == /\ i \notin DOMAIN leases
                      /\ \E r \in Requests :
                           pc[r] \in {"stalled", "release", "done"} /\ leaseID[r] = i
<1> SUFFICES ASSUME UniqueIDs', NEW i \in reaped' PROVE Over(i)'
  BY DEF ReapedInv
<1>1. UniqueIDs
  BY UniqueBefore
<1>2. i \in reaped => Over(i)
  BY <1>1 DEF ReapedInv
<1> USE DEF TypeOK, Goto
<1>3. ASSUME NEW s \in Requests, ReserveInsert(s) PROVE Over(i)'
  <2>1. i \in reaped /\ pc[s] = "insert" /\ leases' = Put(leases, leaseID[s], now)
        /\ pc' = [pc EXCEPT ![s] = "send"] /\ UNCHANGED leaseID
    BY <1>3 DEF ReserveInsert
  <2>2. PICK r \in Requests : pc[r] \in {"stalled", "release", "done"} /\ leaseID[r] = i
    BY <1>2, <2>1
  <2>3. leaseID[s] # i
    BY <1>1, <2>1, <2>2 DEF UniqueIDs, Stamped
  <2> QED
    BY <1>2, <2>1, <2>2, <2>3 DEF Put
<1>4. ASSUME NEW s \in Requests, Stamp(s) PROVE Over(i)'
  BY <1>2, <1>4 DEF Stamp
<1>5. ASSUME NEW s \in Requests, Touch(s) PROVE Over(i)'
  BY <1>2, <1>5 DEF Touch, Put
<1>6. ASSUME NEW s \in Requests, ReleaseDelete(s) PROVE Over(i)'
  <2>1. /\ i \in reaped /\ pc[s] = "release" /\ UNCHANGED leaseID
        /\ DOMAIN leases' = DOMAIN leases \ {leaseID[s]}
        /\ pc' = [pc EXCEPT ![s] = IF leaseID[s] \in DOMAIN leases THEN "dec" ELSE "done"]
    BY <1>6 DEF ReleaseDelete, Drop, Restrict
  <2>2. PICK r \in Requests : pc[r] \in {"stalled", "release", "done"} /\ leaseID[r] = i
    BY <1>2, <2>1
  <2> QED
    BY <1>2, <2>1, <2>2
<1>7. CASE ReapDelete
  <2>1. i \in DOMAIN leases /\ Expired(i) /\ i \notin DOMAIN leases' /\ UNCHANGED <<pc, leaseID>>
    BY <1>7 DEF ReapDelete, Drop, Restrict
  <2>2. PICK r \in Requests : pc[r] \in Holding /\ leaseID[r] = i
    BY <2>1 DEF OwnedInv
  <2>3. pc[r] \notin {"send", "forward"}
    BY <1>1, <2>1, <2>2, TimesAreNat, TimeoutOrder DEF LiveInv, Expired
  <2> QED
    BY <2>1, <2>2, <2>3 DEF Holding
<1>8. CASE ReapDec
  BY <1>2, <1>8 DEF ReapDec
<1>9. ASSUME NEW s \in Requests,
             \/ ReadSeq(s) \/ BumpSeq(s) \/ ReserveLoad(s) \/ ReserveCAS(s) \/ Open(s)
             \/ BuildFails(s) \/ Close(s) \/ Unstall(s) \/ ReleaseDec(s)
      PROVE  Over(i)'
  BY <1>2, <1>9 DEF ReadSeq, BumpSeq, ReserveLoad, ReserveCAS, Open, BuildFails, Close,
                    Unstall, ReleaseDec
<1>10. CASE Tick \/ TickMillis \/ UNCHANGED vars
  BY <1>2, <1>10 DEF Tick, TickMillis, vars
<1> QED
  BY <1>3, <1>4, <1>5, <1>6, <1>7, <1>8, <1>9, <1>10 DEF Next, Handler

-----------------------------------------------------------------------------
\* The invariant and what follows from it

LEMMA InitInv == Init => IInv
<1> SUFFICES ASSUME Init PROVE IInv
  OBVIOUS
<1>1. TypeOK
  BY TypeInit
<1>2. At("insert") = {} /\ At("dec") = {} /\ DOMAIN leases = {} /\ reaped = {}
  BY DEF Init, At
<1>3. IsFiniteSet({}) /\ Cardinality({}) = 0
  BY FS_EmptySet
<1>4. CounterInv /\ OwnedInv /\ LiveInv /\ ReapedInv
  BY <1>2, CapacityType DEF Init, CounterInv, OwnedInv, LiveInv, ReapedInv
<1>5. FiniteInv
  BY <1>2, <1>3 DEF FiniteInv
<1>6. Outstanding = 0
  <2>1. /\ Cardinality(At("insert")) = 0 /\ Cardinality(At("dec")) = 0
        /\ Cardinality(DOMAIN leases) = 0 /\ Cardinality(reaped) = 0
    BY <1>2, <1>3, Zenon
  <2> QED
    BY <2>1 DEF Outstanding
<1> QED
  BY <1>1, <1>4, <1>5, <1>6 DEF Init, IInv, OwedInv, SlotAccounting

LEMMA NextInv == IInv /\ [Next]_vars => IInv'
  BY TypeStep, CounterStep, FiniteStep, OwnedStep, OwedStep, AccountingStep, LiveStep,
     ReapedStep
  DEF IInv

\* IInv is an inductive invariant of the pool.
THEOREM Invariance == Spec => []IInv
  BY InitInv, NextInv, PTL DEF Spec

\* Reserve, Release and ReapLeases keep the counter between zero and the static
\* capacity in every interleaving, whatever lease ids newLeaseID hands out.
THEOREM Bounds == Spec => []InflightBounds
<1>1. IInv => InflightBounds
  BY CapacityType, OutstandingType
  DEF IInv, CounterInv, OwedInv, InflightBounds
<1> QED
  BY Invariance, <1>1, PTL

\* As long as lease ids are distinct, no interleaving loses or doubles a slot.
THEOREM Accounting == Spec => []SlotAccounting
<1>1. IInv => SlotAccounting
  BY DEF IInv
<1> QED
  BY Invariance, <1>1, PTL

\* The watchdog never reaps the lease of a running upstream exchange.
THEOREM LiveLeases == Spec => []LiveLeaseKept
<1>1. IInv => LiveLeaseKept
  BY DEF IInv, LiveInv, LiveLeaseKept, At
<1> QED
  BY Invariance, <1>1, PTL

\* As long as lease ids are distinct, the upstream never sees more concurrent
\* exchanges than the static capacity: each of them has a lease of its own in the
\* map, and the map is no larger than the counter.
THEOREM CapacityContract == Spec => [](UniqueIDs => BackendWithinCapacity)
<1>1. IInv /\ UniqueIDs => BackendWithinCapacity
  <2> SUFFICES ASSUME IInv, UniqueIDs PROVE BackendWithinCapacity
    OBVIOUS
  <2> DEFINE f == [r \in At("forward") |-> leaseID[r]]
  <2>1. f \in [At("forward") -> DOMAIN leases]
    BY DEF IInv, LiveInv, At
  <2>2. \A r, s \in At("forward") : f[r] = f[s] => r = s
    BY DEF UniqueIDs, Stamped, At
  <2>3. f \in Injection(At("forward"), DOMAIN leases)
    BY <2>1, <2>2 DEF Injection, IsInjective
  <2>4. Cardinality(At("forward")) <= Cardinality(DOMAIN leases)
    BY <2>3, FS_Injection DEF IInv, FiniteInv
  <2>5. Cardinality(DOMAIN leases) <= Outstanding
    BY CardTypes DEF IInv, Outstanding
  <2>6. Outstanding <= inflight /\ inflight <= Capacity
    BY DEF IInv, OwedInv, CounterInv
  <2>7. /\ Cardinality(At("forward")) \in Nat /\ Cardinality(DOMAIN leases) \in Nat
        /\ Outstanding \in Nat /\ inflight \in Int /\ Capacity \in Nat
    BY AtFinite, FS_CardinalityType, CardTypes, OutstandingType, CapacityType DEF IInv
  <2> QED
    BY <2>4, <2>5, <2>6, <2>7 DEF BackendWithinCapacity
<1> QED
  BY Invariance, <1>1, PTL

-----------------------------------------------------------------------------
\* One admission service

LEMMA UnionWithin ==
  ASSUME NEW S, NEW T, IsFiniteSet(S), IsFiniteSet(T)
  PROVE  /\ IsFiniteSet(S \cup T)
         /\ Cardinality(S) \in Nat /\ Cardinality(T) \in Nat /\ Cardinality(S \cup T) \in Nat
         /\ Cardinality(S \cup T) <= Cardinality(S) + Cardinality(T)
<1>1. IsFiniteSet(S \cup T) /\ IsFiniteSet(S \cap T)
  BY FS_Union, FS_Intersection
<1>2. Cardinality(S \cup T) = Cardinality(S) + Cardinality(T) - Cardinality(S \cap T)
  BY FS_Union
<1>3. /\ Cardinality(S) \in Nat /\ Cardinality(T) \in Nat
      /\ Cardinality(S \cup T) \in Nat /\ Cardinality(S \cap T) \in Nat
  BY <1>1, FS_CardinalityType
<1> QED
  BY <1>1, <1>2, <1>3

\* With distinct ids, the requests that hold a slot are no more than the slots
\* still to be given back: each of them is about to insert, or about to
\* decrement, or has a lease of its own.
LEMMA HoldersWithin ==
  ASSUME IInv, UniqueIDs
  PROVE  Cardinality({q \in Requests : HoldsSlot(q)}) <= Outstanding
<1> DEFINE Leased == {q \in Requests : /\ pc[q] \in {"send", "forward", "stalled", "release", "done"}
                                       /\ leaseID[q] \in DOMAIN leases \cup reaped}
           f == [q \in Leased |-> leaseID[q]]
           Waiting == At("insert") \cup At("dec")
<1>1. {q \in Requests : HoldsSlot(q)} = Waiting \cup Leased
  BY DEF HoldsSlot, At
<1>2. /\ IsFiniteSet(At("insert")) /\ IsFiniteSet(At("dec")) /\ IsFiniteSet(Leased)
      /\ IsFiniteSet(DOMAIN leases) /\ IsFiniteSet(reaped)
  BY AtFinite, RequestsFinite, FS_Subset DEF IInv, FiniteInv
<1>3. /\ IsFiniteSet(DOMAIN leases \cup reaped)
      /\ Cardinality(DOMAIN leases \cup reaped) <= Cardinality(DOMAIN leases) + Cardinality(reaped)
  BY <1>2, UnionWithin
<1>4. Cardinality(Leased) <= Cardinality(DOMAIN leases \cup reaped)
  <2>1. f \in [Leased -> DOMAIN leases \cup reaped]
    OBVIOUS
  <2>2. \A r, s \in Leased : f[r] = f[s] => r = s
    BY DEF UniqueIDs, Stamped
  <2>3. f \in Injection(Leased, DOMAIN leases \cup reaped)
    BY <2>1, <2>2 DEF Injection, IsInjective
  <2> QED
    BY <1>3, <2>3, FS_Injection
<1> HIDE DEF Leased, f
<1>5. /\ IsFiniteSet(Waiting)
      /\ Cardinality(Waiting) <= Cardinality(At("insert")) + Cardinality(At("dec"))
  BY <1>2, UnionWithin
<1> HIDE DEF Waiting
<1>6. Cardinality(Waiting \cup Leased) <= Cardinality(Waiting) + Cardinality(Leased)
  BY <1>2, <1>5, UnionWithin
<1>7. /\ Cardinality(Waiting) \in Nat /\ Cardinality(Leased) \in Nat
      /\ Cardinality(DOMAIN leases \cup reaped) \in Nat
      /\ Cardinality(Waiting \cup Leased) \in Nat
  BY <1>2, <1>3, <1>5, UnionWithin
<1>8. /\ Cardinality(At("insert")) \in Nat /\ Cardinality(At("dec")) \in Nat
      /\ Cardinality(DOMAIN leases) \in Nat /\ Cardinality(reaped) \in Nat
  BY CardTypes DEF IInv
<1> QED
  <2>1. Cardinality(Waiting \cup Leased) <= Outstanding
    BY <1>3, <1>4, <1>5, <1>6, <1>7, <1>8 DEF Outstanding
  <2> QED
    BY <1>1, <2>1, Zenon

\* A step that changes at most what one request holds or was told is a step of
\* the service, or none, when it is one of these five.
LEMMA OneActs ==
  ASSUME IInv, UniqueIDs, NEW r \in Requests,
         \A q \in Requests \ {r} :
            (HoldsSlot(q)' <=> HoldsSlot(q)) /\ Told(q)' = Told(q),
         \/ (HoldsSlot(r)' <=> HoldsSlot(r)) /\ Told(r)' = Told(r)
         \/ /\ ~HoldsSlot(r) /\ HoldsSlot(r)' /\ Told(r) = "none" /\ Told(r)' = "none"
            /\ inflight < Capacity
         \/ ~HoldsSlot(r) /\ ~HoldsSlot(r)' /\ Told(r) = "none" /\ Told(r)' = "503"
         \/ HoldsSlot(r) /\ HoldsSlot(r)' /\ Told(r) = "none" /\ Told(r)' = "proxied"
         \/ HoldsSlot(r) /\ ~HoldsSlot(r)' /\ Told(r) # "none" /\ Told(r)' = Told(r)
  PROVE  [Service!Next]_(Service!vars)
<1> DEFINE Place(q) == IF HoldsSlot(q) THEN "pool" ELSE "nowhere"
           places == [q \in Requests |-> Place(q)]
           told == [q \in Requests |-> Told(q)]
<1>1. places' = [places EXCEPT ![r] = Place(r)']
  OBVIOUS
<1>2. told' = [told EXCEPT ![r] = Told(r)']
  OBVIOUS
<1>3. places[r] = Place(r) /\ told[r] = Told(r)
  OBVIOUS
<1>4. (Place(r)' = Place(r)) => places' = places
  BY <1>1
<1>5. (Told(r)' = Told(r)) => told' = told
  BY <1>2
<1>6. CASE (HoldsSlot(r)' <=> HoldsSlot(r)) /\ Told(r)' = Told(r)
  BY <1>4, <1>5, <1>6 DEF Service!vars
<1>7. CASE /\ ~HoldsSlot(r) /\ HoldsSlot(r)' /\ Told(r) = "none" /\ Told(r)' = "none"
           /\ inflight < Capacity
  <2>1. \A S : Service!Cardinality(S) = Cardinality(S)
    BY DEF Service!Cardinality, Cardinality
  <2>2. {q \in Requests : places[q] = "pool"} = {q \in Requests : HoldsSlot(q)}
    OBVIOUS
  <2>3. Cardinality({q \in Requests : HoldsSlot(q)}) < Capacity
    <3>1. Cardinality({q \in Requests : HoldsSlot(q)}) \in Nat
      BY RequestsFinite, FS_Subset, FS_CardinalityType
    <3>2. Outstanding \in Nat /\ inflight \in Int /\ Capacity \in Nat /\ Outstanding <= inflight
      BY OutstandingType, CapacityType DEF IInv, OwedInv
    <3> QED
      BY <1>7, <3>1, <3>2, HoldersWithin
  <2>4. /\ Cardinality({q \in Requests : places[q] = "pool"}) < PoolRoom("pool")
        /\ places' = [places EXCEPT ![r] = "pool"]
    BY <1>1, <1>7, <2>2, <2>3 DEF PoolRoom
  <2>5. Service!Admit(r)
    BY <1>3, <1>5, <1>7, <2>1, <2>4 DEF Service!Admit
  <2> QED
    BY <2>5 DEF Service!Next
<1>8. CASE ~HoldsSlot(r) /\ ~HoldsSlot(r)' /\ Told(r) = "none" /\ Told(r)' = "503"
  <2>1. Service!Refuse(r)
    BY <1>2, <1>3, <1>4, <1>8 DEF Service!Refuse
  <2> QED
    BY <2>1 DEF Service!Next
<1>9. CASE HoldsSlot(r) /\ HoldsSlot(r)' /\ Told(r) = "none" /\ Told(r)' = "proxied"
  <2>1. Service!Answer(r)
    BY <1>2, <1>3, <1>4, <1>9 DEF Service!Answer
  <2> QED
    BY <2>1 DEF Service!Next
<1>10. CASE HoldsSlot(r) /\ ~HoldsSlot(r)' /\ Told(r) # "none" /\ Told(r)' = Told(r)
  <2>1. Service!Leave(r)
    BY <1>1, <1>3, <1>5, <1>10 DEF Service!Leave
  <2> QED
    BY <2>1 DEF Service!Next
<1> QED
  BY <1>6, <1>7, <1>8, <1>9, <1>10

\* Each step concerns one request: the handler that makes it, or the one whose
\* slot the watchdog gives back.
LEMMA PoolStep == IInv /\ UniqueIDs' /\ [Next]_vars => [Service!Next]_(Service!vars)
<1> SUFFICES ASSUME IInv, UniqueIDs', [Next]_vars PROVE [Service!Next]_(Service!vars)
  OBVIOUS
<1> DEFINE Goal == [Service!Next]_(Service!vars)
           Stays(q) == (HoldsSlot(q)' <=> HoldsSlot(q)) /\ Told(q)' = Told(q)
<1> HIDE DEF Goal
<1>1. TypeOK /\ UniqueIDs
  BY UniqueBefore DEF IInv
<1>2. ASSUME \A q \in Requests : Stays(q) PROVE Goal
  <2>1. [q \in Requests |-> IF HoldsSlot(q) THEN "pool" ELSE "nowhere"]'
          = [q \in Requests |-> IF HoldsSlot(q) THEN "pool" ELSE "nowhere"]
    BY <1>2
  <2>2. [q \in Requests |-> Told(q)]' = [q \in Requests |-> Told(q)]
    BY <1>2
  <2> QED
    BY <2>1, <2>2 DEF Goal, Service!vars
<1> USE <1>1 DEF TypeOK, Goto
<1>3. ASSUME NEW r \in Requests,
             \/ ReadSeq(r) \/ BumpSeq(r) \/ Stamp(r) \/ Open(r) \/ Unstall(r)
      PROVE  Goal
  <2>1. \A q \in Requests : Stays(q)
    BY <1>3 DEF ReadSeq, BumpSeq, Stamp, Open, Unstall, HoldsSlot, Told
  <2> QED
    BY <2>1, <1>2
<1>4. ASSUME NEW r \in Requests, ReserveLoad(r) PROVE Goal
  <2>1. \A q \in Requests \ {r} : Stays(q)
    BY <1>4 DEF ReserveLoad, HoldsSlot, Told
  <2>2. ~HoldsSlot(r) /\ ~HoldsSlot(r)' /\ Told(r) = "none" /\ Told(r)' \in {"none", "503"}
    BY <1>4 DEF ReserveLoad, HoldsSlot, Told
  <2> QED
    BY <2>1, <2>2, OneActs DEF Goal
<1>5. ASSUME NEW r \in Requests, ReserveCAS(r) PROVE Goal
  <2>1. \A q \in Requests \ {r} : Stays(q)
    BY <1>5 DEF ReserveCAS, HoldsSlot, Told
  <2>2. CASE inflight = cur[r]
    <3>1. inflight < Capacity
      BY <1>5, <2>2 DEF ReserveCAS, IInv, CounterInv
    <3>2. ~HoldsSlot(r) /\ HoldsSlot(r)' /\ Told(r) = "none" /\ Told(r)' = "none"
      BY <1>5, <2>2 DEF ReserveCAS, HoldsSlot, Told
    <3> QED
      BY <2>1, <3>1, <3>2, OneActs DEF Goal
  <2>3. CASE inflight # cur[r]
    <3>1. Stays(r)
      BY <1>5, <2>3 DEF ReserveCAS, HoldsSlot, Told
    <3> QED
      BY <1>2, <2>1, <3>1
  <2> QED
    BY <2>2, <2>3
<1>6. ASSUME NEW r \in Requests, ReserveInsert(r) PROVE Goal
  <2>1. /\ pc[r] = "insert" /\ pc' = [pc EXCEPT ![r] = "send"]
        /\ DOMAIN leases' = DOMAIN leases \cup {leaseID[r]} /\ UNCHANGED <<leaseID, reaped>>
    BY <1>6 DEF ReserveInsert, Put
  <2>2. Stays(r)
    BY <2>1 DEF HoldsSlot, Told
  <2>3. ASSUME NEW q \in Requests \ {r} PROVE Stays(q)
    <3>1. pc'[q] = pc[q]
      BY <2>1
    <3>2. pc[q] \in {"send", "forward", "stalled", "release", "done"} => leaseID[q] # leaseID[r]
      BY <2>1 DEF UniqueIDs, Stamped
    <3> QED
      BY <2>1, <3>1, <3>2 DEF HoldsSlot, Told
  <2> QED
    BY <1>2, <2>2, <2>3
<1>7. ASSUME NEW r \in Requests, BuildFails(r) \/ Close(r) PROVE Goal
  <2>1. \A q \in Requests \ {r} : Stays(q)
    BY <1>7 DEF BuildFails, Close, HoldsSlot, Told
  <2>2. leaseID[r] \in DOMAIN leases
    BY <1>7 DEF BuildFails, Close, IInv, LiveInv
  <2>3. Stays(r) \/ (HoldsSlot(r) /\ HoldsSlot(r)' /\ Told(r) = "none" /\ Told(r)' = "proxied")
    BY <1>7, <2>2 DEF BuildFails, Close, HoldsSlot, Told
  <2> QED
    BY <2>1, <2>3, OneActs DEF Goal
<1>8. ASSUME NEW r \in Requests, Touch(r) PROVE Goal
  <2>1. DOMAIN leases' = DOMAIN leases /\ UNCHANGED <<pc, leaseID, reaped>>
    BY <1>8 DEF Touch, Put
  <2> QED
    BY <1>2, <2>1 DEF HoldsSlot, Told
<1>9. ASSUME NEW r \in Requests, ReleaseDelete(r) PROVE Goal
  <2>1. /\ pc[r] = "release" /\ UNCHANGED <<leaseID, reaped>>
        /\ DOMAIN leases' = DOMAIN leases \ {leaseID[r]}
        /\ pc' = [pc EXCEPT ![r] = IF leaseID[r] \in DOMAIN leases THEN "dec" ELSE "done"]
    BY <1>9 DEF ReleaseDelete, Drop, Restrict
  <2>2. Stays(r)
    BY <2>1 DEF HoldsSlot, Told
  <2>3. ASSUME NEW q \in Requests \ {r} PROVE Stays(q)
    <3>1. pc'[q] = pc[q]
      BY <2>1
    <3>2. pc[q] \in {"send", "forward", "stalled", "release", "done"} => leaseID[q] # leaseID[r]
      BY <2>1 DEF UniqueIDs, Stamped
    <3> QED
      BY <2>1, <3>1, <3>2 DEF HoldsSlot, Told
  <2> QED
    BY <1>2, <2>2, <2>3
<1>10. ASSUME NEW r \in Requests, ReleaseDec(r) PROVE Goal
  <2>1. \A q \in Requests \ {r} : Stays(q)
    BY <1>10 DEF ReleaseDec, HoldsSlot, Told
  <2>2. pc[r] = "dec" /\ pc'[r] = "done" /\ UNCHANGED <<leaseID, leases, reaped>>
    BY <1>10 DEF ReleaseDec
  <2>3. leaseID[r] \notin DOMAIN leases
    BY <2>2 DEF IInv, OwnedInv, Holding, UniqueIDs, Stamped
  <2>4. leaseID[r] \notin reaped
    BY <2>2 DEF IInv, ReapedInv, UniqueIDs, Stamped
  <2>5. HoldsSlot(r) /\ ~HoldsSlot(r)' /\ Told(r) # "none" /\ Told(r)' = Told(r)
    BY <2>2, <2>3, <2>4 DEF HoldsSlot, Told
  <2> QED
    BY <2>1, <2>5, OneActs DEF Goal
<1>11. ASSUME ReapDelete PROVE Goal
  <2>1. /\ reaped = {} /\ reaped' \subseteq DOMAIN leases
        /\ DOMAIN leases' = DOMAIN leases \ reaped' /\ UNCHANGED <<pc, leaseID>>
    BY <1>11 DEF ReapDelete, Drop, Restrict
  <2>2. DOMAIN leases' \cup reaped' = DOMAIN leases \cup reaped
    BY <2>1
  <2> QED
    BY <1>2, <2>1, <2>2 DEF HoldsSlot, Told
<1>12. ASSUME ReapDec PROVE Goal
  <2>1. PICK i \in reaped : reaped' = reaped \ {i}
    BY <1>12 DEF ReapDec
  <2>2. UNCHANGED <<pc, leaseID, leases>>
    BY <1>12 DEF ReapDec
  <2>3. i \notin DOMAIN leases
    BY DEF IInv, ReapedInv
  <2>4. PICK r \in Requests : pc[r] \in {"stalled", "release", "done"} /\ leaseID[r] = i
    BY DEF IInv, ReapedInv
  <2>5. HoldsSlot(r) /\ ~HoldsSlot(r)' /\ Told(r) # "none" /\ Told(r)' = Told(r)
    BY <2>1, <2>2, <2>3, <2>4 DEF HoldsSlot, Told
  <2>6. ASSUME NEW q \in Requests \ {r} PROVE Stays(q)
    <3>1. pc[q] \in {"send", "forward", "stalled", "release", "done"} => leaseID[q] # i
      BY <2>4 DEF UniqueIDs, Stamped
    <3> QED
      BY <2>1, <2>2, <3>1 DEF HoldsSlot, Told
  <2> QED
    BY <2>5, <2>6, OneActs DEF Goal
<1>13. ASSUME Tick \/ TickMillis \/ UNCHANGED vars PROVE Goal
  BY <1>2, <1>13 DEF Tick, TickMillis, vars, HoldsSlot, Told
<1>14. Goal
  BY <1>3, <1>4, <1>5, <1>6, <1>7, <1>8, <1>9, <1>10, <1>11, <1>12, <1>13
  DEF Next, Handler
<1> QED
  BY <1>14 DEF Goal

LEMMA PoolBegins == Init => Service!Init
<1> SUFFICES ASSUME Init PROVE Service!Init
  OBVIOUS
<1>1. \A q \in Requests : ~HoldsSlot(q) /\ Told(q) = "none"
  BY DEF Init, HoldsSlot, Told
<1> QED
  BY <1>1 DEF Service!Init

\* As long as lease ids are distinct, one endpoint's atomics, mutex and watchdog
\* act as the admission service does with one pool: what RouterCore takes a pool
\* to be, a set of at most as many holders as the endpoint has slots, is what the
\* loads, compare-and-swaps and decrements amount to.
THEOREM PoolRefines == Spec => ActsAsOnePool
<1>1. IInv /\ [Next]_vars => (UniqueIDs' => [Service!Next]_(Service!vars))
  BY PoolStep
<1>2. [Next]_vars /\ IInv => [UniqueIDs' => [Service!Next]_(Service!vars)]_vars
  BY <1>1
<1> QED
  BY Invariance, PoolBegins, <1>2, PTL DEF Spec, ActsAsOnePool

-----------------------------------------------------------------------------
(* HealthWorker *)

\* The inductive invariant: the counters are run lengths, and the flag is the
\* hysteresis over the history.
HealthIInv == HealthTypeOK /\ CountersAreRuns /\ HysteresisExact

\* What one more probe does to the history.
LEMMA Appended ==
    ASSUME NEW s \in Seq(BOOLEAN), NEW ok \in BOOLEAN
    PROVE  /\ Append(s, ok) \in Seq(BOOLEAN)
           /\ Len(Append(s, ok)) = Len(s) + 1
           /\ \A i \in 1 .. Len(s) : Append(s, ok)[i] = s[i]
           /\ Append(s, ok)[Len(s) + 1] = ok
  OBVIOUS

\* A threshold in use is a positive integer.
LEMMA Thresholds ==
    /\ AtLeastOne(FailureThreshold) \in Nat \ {0}
    /\ AtLeastOne(RecoveryThreshold) \in Nat \ {0}
    /\ \A n \in Nat : n + 1 >= FailureThreshold <=> n + 1 >= AtLeastOne(FailureThreshold)
    /\ \A n \in Nat : n + 1 >= RecoveryThreshold <=> n + 1 >= AtLeastOne(RecoveryThreshold)
  BY ThresholdsAreInts DEF AtLeastOne

\* apply on a success: it resets the failures, and counts up or recovers.
LEMMA SuccessFields ==
    ASSUME NEW s \in States
    PROVE  LET t == Apply(s, TRUE) IN
           /\ t \in States
           /\ t.HealthFailures = 0
           /\ s.Healthy = TRUE => t.Healthy = TRUE
           /\ s.Healthy = FALSE /\ s.HealthSuccesses + 1 >= RecoveryThreshold
                  => t.Healthy = TRUE
           /\ s.Healthy = FALSE /\ ~(s.HealthSuccesses + 1 >= RecoveryThreshold)
                  => t.Healthy = FALSE /\ t.HealthSuccesses = s.HealthSuccesses + 1
  <1> DEFINE t == Apply(s, TRUE)
  <1> HIDE DEF t
  <1>1. /\ s.Healthy \in BOOLEAN /\ s.HealthSuccesses \in Nat
        /\ s.HealthSuccesses + 1 \in Nat
    BY DEF States
  <1>2. CASE s.Healthy = FALSE /\ s.HealthSuccesses + 1 >= RecoveryThreshold
    <2>1. t = [s EXCEPT !.HealthyNow = TRUE, !.HealthFailures = 0,
                        !.Healthy = TRUE, !.HealthSuccesses = 0]
      BY <1>2 DEF t, Apply, ApplySuccess
    <2>2. t = [Enabled |-> s.Enabled, Healthy |-> TRUE, HealthyNow |-> TRUE,
               Draining |-> s.Draining, HealthFailures |-> 0,
               HealthSuccesses |-> 0]
      BY <2>1 DEF States
    <2>3. t \in States /\ t.Healthy = TRUE /\ t.HealthFailures = 0
      BY <2>2 DEF States
    <2> QED
      BY <1>2, <2>3 DEF t
  <1>3. CASE ~(s.Healthy = FALSE /\ s.HealthSuccesses + 1 >= RecoveryThreshold)
    <2>1. t = [s EXCEPT !.HealthyNow = TRUE, !.HealthFailures = 0,
                        !.Healthy = s.Healthy, !.HealthSuccesses = s.HealthSuccesses + 1]
      BY <1>1, <1>3 DEF t, Apply, ApplySuccess
    <2>2. t = [Enabled |-> s.Enabled, Healthy |-> s.Healthy, HealthyNow |-> TRUE,
               Draining |-> s.Draining, HealthFailures |-> 0,
               HealthSuccesses |-> s.HealthSuccesses + 1]
      BY <2>1 DEF States
    <2>3. /\ t \in States /\ t.Healthy = s.Healthy /\ t.HealthFailures = 0
          /\ t.HealthSuccesses = s.HealthSuccesses + 1
      BY <1>1, <2>2 DEF States
    <2> QED
      BY <1>1, <1>3, <2>3 DEF t
  <1> QED
    BY <1>2, <1>3

\* apply on a failure: it resets the successes, and counts up or gives up.
LEMMA FailureFields ==
    ASSUME NEW s \in States
    PROVE  LET t == Apply(s, FALSE) IN
           /\ t \in States
           /\ t.HealthSuccesses = 0
           /\ s.Healthy = FALSE => t.Healthy = FALSE
           /\ s.Healthy = TRUE /\ s.HealthFailures + 1 >= FailureThreshold
                  => t.Healthy = FALSE
           /\ s.Healthy = TRUE /\ ~(s.HealthFailures + 1 >= FailureThreshold)
                  => t.Healthy = TRUE /\ t.HealthFailures = s.HealthFailures + 1
  <1> DEFINE t == Apply(s, FALSE)
  <1> HIDE DEF t
  <1>1. /\ s.Healthy \in BOOLEAN /\ s.HealthFailures \in Nat
        /\ s.HealthFailures + 1 \in Nat
    BY DEF States
  <1>2. CASE s.Healthy = TRUE /\ s.HealthFailures + 1 >= FailureThreshold
    <2>1. t = [s EXCEPT !.HealthyNow = FALSE, !.HealthSuccesses = 0,
                        !.Healthy = FALSE, !.HealthFailures = 0]
      BY <1>2 DEF t, Apply, ApplyFailure
    <2>2. t = [Enabled |-> s.Enabled, Healthy |-> FALSE, HealthyNow |-> FALSE,
               Draining |-> s.Draining, HealthFailures |-> 0,
               HealthSuccesses |-> 0]
      BY <2>1 DEF States
    <2>3. t \in States /\ t.Healthy = FALSE /\ t.HealthSuccesses = 0
      BY <2>2 DEF States
    <2> QED
      BY <1>2, <2>3 DEF t
  <1>3. CASE ~(s.Healthy = TRUE /\ s.HealthFailures + 1 >= FailureThreshold)
    <2>1. t = [s EXCEPT !.HealthyNow = FALSE, !.HealthSuccesses = 0,
                        !.Healthy = s.Healthy, !.HealthFailures = s.HealthFailures + 1]
      BY <1>1, <1>3 DEF t, Apply, ApplyFailure
    <2>2. t = [Enabled |-> s.Enabled, Healthy |-> s.Healthy, HealthyNow |-> FALSE,
               Draining |-> s.Draining, HealthFailures |-> s.HealthFailures + 1,
               HealthSuccesses |-> 0]
      BY <2>1 DEF States
    <2>3. /\ t \in States /\ t.Healthy = s.Healthy /\ t.HealthSuccesses = 0
          /\ t.HealthFailures = s.HealthFailures + 1
      BY <1>1, <2>2 DEF States
    <2> QED
      BY <1>1, <1>3, <2>3 DEF t
  <1> QED
    BY <1>2, <1>3

\* The invariant holds of a fresh State and an empty history.
LEMMA InitHealthIInv == HealthInit => HealthIInv
  <1> SUFFICES ASSUME HealthInit PROVE HealthIInv
    OBVIOUS
  <1>1. PICK enabled \in BOOLEAN : st = FreshState(enabled)
    BY DEF HealthInit
  <1>2. /\ st \in States
        /\ st.Healthy = TRUE
        /\ st.HealthFailures = 0
    BY <1>1 DEF FreshState, States
  <1>3. probes = <<>> /\ Len(probes) = 0
    BY DEF HealthInit
  <1>4. HealthTypeOK
    BY <1>2, <1>3, MaxProbesIsNat DEF HealthTypeOK
  <1>5. CountersAreRuns
    <2>1. /\ 0 < AtLeastOne(FailureThreshold)
          /\ RunEndsAt(FALSE, st.HealthFailures, Len(probes))
      BY <1>2, <1>3, Thresholds DEF RunEndsAt
    <2> QED
      BY <1>2, <1>3, <2>1 DEF CountersAreRuns
  <1>6. HysteresisExact
    BY <1>2, <1>3 DEF HysteresisExact
  <1> QED
    BY <1>4, <1>5, <1>6 DEF HealthIInv

\* A run inside the old history is a run of the new one.
LEMMA RunsPersist ==
    ASSUME NEW ok \in BOOLEAN, HealthTypeOK, probes' = Append(probes, ok),
           NEW b \in BOOLEAN, NEW n \in Nat, NEW i \in 1 .. Len(probes)
    PROVE  RunEndsAt(b, n, i)' <=> RunEndsAt(b, n, i)
  <1>1. /\ probes \in Seq(BOOLEAN)
        /\ \A k \in 1 .. Len(probes) : probes'[k] = probes[k]
    BY Appended DEF HealthTypeOK
  <1>2. \A j \in (i - n + 1) .. i : i >= n => j \in 1 .. Len(probes)
    BY <1>1
  <1> QED
    BY <1>1, <1>2 DEF RunEndsAt

\* The last probe of the new history against a run of length n + 1: it ends one
\* exactly when it is ok and the n before it do.
LEMMA RunsGrow ==
    ASSUME NEW ok \in BOOLEAN, HealthTypeOK, probes' = Append(probes, ok),
           NEW b \in BOOLEAN, NEW n \in Nat
    PROVE  RunEndsAt(b, n + 1, Len(probes))'
               <=> ok = b /\ RunEndsAt(b, n, Len(probes))
  <1>1. /\ probes \in Seq(BOOLEAN) /\ Len(probes) \in Nat
        /\ Len(probes') = Len(probes) + 1
        /\ \A k \in 1 .. Len(probes) : probes'[k] = probes[k]
        /\ probes'[Len(probes) + 1] = ok
    BY Appended DEF HealthTypeOK
  <1> DEFINE L == Len(probes)
  <1>2. RunEndsAt(b, n + 1, L)'
            <=> L >= n /\ \A j \in (L - n + 1) .. (L + 1) : probes'[j] = b
    BY <1>1 DEF RunEndsAt
  <1>3. RunEndsAt(b, n, L) <=> L >= n /\ \A j \in (L - n + 1) .. L : probes[j] = b
    BY DEF RunEndsAt
  <1>4. ASSUME L >= n
        PROVE  (L - n + 1) .. (L + 1) = ((L - n + 1) .. L) \cup {L + 1}
    BY <1>1, <1>4
  <1>5. ASSUME L >= n
        PROVE  \A j \in (L - n + 1) .. L : probes'[j] = probes[j]
    BY <1>1, <1>5
  <1> QED
    BY <1>1, <1>2, <1>3, <1>4, <1>5

\* A run longer than a broken one is none.
LEMMA BrokenRuns ==
    ASSUME HealthTypeOK, NEW b \in BOOLEAN, NEW c \in BOOLEAN, b # c,
           NEW m \in Nat, NEW n \in Nat, m < n, RunBroken(c, m)
    PROVE  ~RunEndsAt(b, n, Len(probes))
  BY DEF HealthTypeOK, RunBroken, RunEndsAt

\* The threshold runs of the new history: those of the old one, and possibly one
\* that ends with the new probe.
LEMMA NewRuns ==
    ASSUME NEW ok \in BOOLEAN, HealthTypeOK, probes' = Append(probes, ok)
    PROVE  /\ Len(probes) \in Nat /\ Len(probes') = Len(probes) + 1
           /\ \A i \in 1 .. Len(probes) :
                  (Fails(i)' <=> Fails(i)) /\ (Recovers(i)' <=> Recovers(i))
           /\ \A i : i = Len(probes) + 1 =>
                  /\ Fails(i)' <=> ok = FALSE /\
                       RunEndsAt(FALSE, AtLeastOne(FailureThreshold) - 1, Len(probes))
                  /\ Recovers(i)' <=> ok = TRUE /\
                       RunEndsAt(TRUE, AtLeastOne(RecoveryThreshold) - 1, Len(probes))
  <1>1. Len(probes) \in Nat /\ Len(probes') = Len(probes) + 1
    BY Appended DEF HealthTypeOK
  <1>2. ASSUME NEW i \in 1 .. Len(probes)
        PROVE  (Fails(i)' <=> Fails(i)) /\ (Recovers(i)' <=> Recovers(i))
    <2>1. /\ AtLeastOne(FailureThreshold) \in Nat
          /\ AtLeastOne(RecoveryThreshold) \in Nat
      BY Thresholds
    <2>2. /\ RunEndsAt(FALSE, AtLeastOne(FailureThreshold), i)'
                 <=> RunEndsAt(FALSE, AtLeastOne(FailureThreshold), i)
          /\ RunEndsAt(TRUE, AtLeastOne(RecoveryThreshold), i)'
                 <=> RunEndsAt(TRUE, AtLeastOne(RecoveryThreshold), i)
      BY <2>1, RunsPersist
    <2> QED
      BY <2>2 DEF Fails, Recovers
  <1>3. ASSUME NEW i, i = Len(probes) + 1
        PROVE  /\ Fails(i)' <=> ok = FALSE /\
                    RunEndsAt(FALSE, AtLeastOne(FailureThreshold) - 1, Len(probes))
               /\ Recovers(i)' <=> ok = TRUE /\
                    RunEndsAt(TRUE, AtLeastOne(RecoveryThreshold) - 1, Len(probes))
    <2>1. /\ AtLeastOne(FailureThreshold) - 1 \in Nat
          /\ AtLeastOne(RecoveryThreshold) - 1 \in Nat
          /\ (AtLeastOne(FailureThreshold) - 1) + 1 = AtLeastOne(FailureThreshold)
          /\ (AtLeastOne(RecoveryThreshold) - 1) + 1 = AtLeastOne(RecoveryThreshold)
      BY Thresholds
    <2>2. i = Len(probes')
      BY <1>1, <1>3
    <2>3. /\ RunEndsAt(FALSE, (AtLeastOne(FailureThreshold) - 1) + 1, Len(probes))'
               <=> ok = FALSE /\ RunEndsAt(FALSE, AtLeastOne(FailureThreshold) - 1, Len(probes))
          /\ RunEndsAt(TRUE, (AtLeastOne(RecoveryThreshold) - 1) + 1, Len(probes))'
               <=> ok = TRUE /\ RunEndsAt(TRUE, AtLeastOne(RecoveryThreshold) - 1, Len(probes))
      BY <2>1, RunsGrow
    <2> QED
      BY <2>1, <2>2, <2>3 DEF Fails, Recovers
  <1> QED
    BY <1>1, <1>2, <1>3

\* A successful probe keeps the invariant: it extends the run of successes that
\* brings the endpoint back, and ends no run of failures.
LEMMA SuccessStep ==
    ASSUME HealthIInv, Poll(TRUE)
    PROVE  CountersAreRuns' /\ HysteresisExact'
  <1>1. /\ HealthTypeOK /\ CountersAreRuns /\ HysteresisExact
        /\ st \in States /\ probes \in Seq(BOOLEAN)
        /\ st' = Apply(st, TRUE) /\ probes' = Append(probes, TRUE)
    BY DEF HealthIInv, HealthTypeOK, Poll
  <1>2. PICK L \in Nat : L = Len(probes)
    BY <1>1
  <1>3. PICK S \in Nat : S = st.HealthSuccesses
    BY <1>1 DEF States
  <1>4. PICK R \in Nat : R = AtLeastOne(RecoveryThreshold)
    BY Thresholds
  <1>5. /\ Len(probes') = L + 1
        /\ \A i \in 1 .. L : probes'[i] = probes[i]
        /\ probes'[L + 1] = TRUE
    BY <1>1, <1>2, Appended
  <1>6. PICK last \in Nat : last = L + 1
    BY <1>2
  <1>7. /\ \A i \in 1 .. L : (Fails(i)' <=> Fails(i)) /\ (Recovers(i)' <=> Recovers(i))
        /\ ~Fails(last)'
        /\ Recovers(last)' <=> RunEndsAt(TRUE, R - 1, L)
    BY <1>1, <1>2, <1>4, <1>6, NewRuns
  <1>8. /\ st.Healthy \in BOOLEAN /\ R > 0
        /\ S + 1 >= RecoveryThreshold <=> S + 1 >= R
        /\ 0 < AtLeastOne(FailureThreshold)
    BY <1>1, <1>3, <1>4, Thresholds DEF States
  <1>9. ASSUME st'.Healthy = TRUE, st'.HealthFailures = 0
        PROVE  CountersAreRuns'
    <2>1. RunBroken(TRUE, st.HealthFailures)' /\ RunEndsAt(FALSE, st.HealthFailures, Len(probes))'
      BY <1>5, <1>9 DEF RunBroken, RunEndsAt
    <2> QED
      BY <1>8, <1>9, <2>1 DEF CountersAreRuns
  <1>10. CASE st.Healthy = TRUE
    <2>1. st'.Healthy = TRUE /\ st'.HealthFailures = 0
      BY <1>1, <1>10, SuccessFields
    <2>2. \A i \in 1 .. L : Fails(i) => \E j \in (i + 1) .. L : Recovers(j)
      BY <1>1, <1>2, <1>10 DEF HysteresisExact
    <2>3. \A i \in 1 .. last : Fails(i)' => \E j \in (i + 1) .. last : Recovers(j)'
      BY <1>6, <1>7, <2>2
    <2> QED
      BY <1>5, <1>6, <1>9, <2>1, <2>3 DEF HysteresisExact
  <1>11. CASE st.Healthy = FALSE /\ S + 1 >= RecoveryThreshold
    <2>1. st'.Healthy = TRUE /\ st'.HealthFailures = 0
      BY <1>1, <1>3, <1>11, SuccessFields
    <2>2. S < R /\ RunEndsAt(TRUE, S, L)
      BY <1>1, <1>2, <1>3, <1>4, <1>11 DEF CountersAreRuns
    <2>3. S = R - 1
      BY <1>8, <1>11, <2>2
    <2>4. Recovers(last)'
      BY <1>7, <2>2, <2>3
    <2>5. \A i \in 1 .. last : Fails(i)' => \E j \in (i + 1) .. last : Recovers(j)'
      BY <1>6, <1>7, <2>4
    <2> QED
      BY <1>5, <1>6, <1>9, <2>1, <2>5 DEF HysteresisExact
  <1>12. CASE st.Healthy = FALSE /\ ~(S + 1 >= RecoveryThreshold)
    <2>1. st'.Healthy = FALSE /\ st'.HealthSuccesses = S + 1
      BY <1>1, <1>3, <1>12, SuccessFields
    <2>2. RunBroken(FALSE, S) /\ RunEndsAt(TRUE, S, L)
      BY <1>1, <1>2, <1>3, <1>12 DEF CountersAreRuns
    <2>3. S + 1 < R
      BY <1>8, <1>12
    <2>4. CountersAreRuns'
      <3>1. RunBroken(FALSE, st.HealthSuccesses)'
        BY <1>2, <1>5, <2>1, <2>2 DEF RunBroken
      <3>2. RunEndsAt(TRUE, S + 1, Len(probes))'
        BY <1>1, <1>2, <2>2, RunsGrow
      <3>3. RunEndsAt(TRUE, st.HealthSuccesses, Len(probes))'
        BY <2>1, <3>2
      <3> QED
        BY <1>4, <2>1, <2>3, <3>1, <3>3 DEF CountersAreRuns
    <2>5. ~RunEndsAt(TRUE, R - 1, L)
      <3>1. R - 1 \in Nat /\ S < R - 1
        BY <1>8, <2>3
      <3> QED
        BY <1>1, <1>2, <2>2, <3>1, BrokenRuns
    <2>6. PICK i \in 1 .. L : Fails(i) /\ \A j \in (i + 1) .. L : ~Recovers(j)
      BY <1>1, <1>2, <1>12 DEF HysteresisExact
    <2>7. i \in 1 .. last /\ Fails(i)' /\ \A j \in (i + 1) .. last : ~Recovers(j)'
      <3>1. i \in 1 .. last /\ Fails(i)'
        BY <1>6, <1>7, <2>6
      <3>2. ~Recovers(last)'
        BY <1>7, <2>5
      <3>3. \A j \in (i + 1) .. last : j = last \/ (j \in (i + 1) .. L /\ j \in 1 .. L)
        BY <1>6, <2>6
      <3> QED
        BY <1>7, <2>6, <3>1, <3>2, <3>3
    <2> QED
      BY <1>5, <1>6, <2>1, <2>4, <2>7 DEF HysteresisExact
  <1> QED
    BY <1>8, <1>10, <1>11, <1>12

\* A failed probe keeps the invariant: it extends the run of failures that takes
\* the endpoint out, and ends no run of successes.
LEMMA FailureStep ==
    ASSUME HealthIInv, Poll(FALSE)
    PROVE  CountersAreRuns' /\ HysteresisExact'
  <1>1. /\ HealthTypeOK /\ CountersAreRuns /\ HysteresisExact
        /\ st \in States /\ probes \in Seq(BOOLEAN)
        /\ st' = Apply(st, FALSE) /\ probes' = Append(probes, FALSE)
    BY DEF HealthIInv, HealthTypeOK, Poll
  <1>2. PICK L \in Nat : L = Len(probes)
    BY <1>1
  <1>3. PICK N \in Nat : N = st.HealthFailures
    BY <1>1 DEF States
  <1>4. PICK F \in Nat : F = AtLeastOne(FailureThreshold)
    BY Thresholds
  <1>5. /\ Len(probes') = L + 1
        /\ \A i \in 1 .. L : probes'[i] = probes[i]
        /\ probes'[L + 1] = FALSE
    BY <1>1, <1>2, Appended
  <1>6. PICK last \in Nat : last = L + 1
    BY <1>2
  <1>7. /\ \A i \in 1 .. L : (Fails(i)' <=> Fails(i)) /\ (Recovers(i)' <=> Recovers(i))
        /\ ~Recovers(last)'
        /\ Fails(last)' <=> RunEndsAt(FALSE, F - 1, L)
    BY <1>1, <1>2, <1>4, <1>6, NewRuns
  <1>8. /\ st.Healthy \in BOOLEAN /\ F > 0
        /\ N + 1 >= FailureThreshold <=> N + 1 >= F
        /\ 0 < AtLeastOne(RecoveryThreshold)
    BY <1>1, <1>3, <1>4, Thresholds DEF States
  <1>9. ASSUME st'.Healthy = FALSE, st'.HealthSuccesses = 0
        PROVE  CountersAreRuns'
    <2>1. RunBroken(FALSE, st.HealthSuccesses)' /\ RunEndsAt(TRUE, st.HealthSuccesses, Len(probes))'
      BY <1>5, <1>9 DEF RunBroken, RunEndsAt
    <2> QED
      BY <1>8, <1>9, <2>1 DEF CountersAreRuns
  <1>10. CASE st.Healthy = FALSE
    <2>1. st'.Healthy = FALSE /\ st'.HealthSuccesses = 0
      BY <1>1, <1>10, FailureFields
    <2>2. PICK i \in 1 .. L : Fails(i) /\ \A j \in (i + 1) .. L : ~Recovers(j)
      BY <1>1, <1>2, <1>10 DEF HysteresisExact
    <2>3. \A j \in (i + 1) .. last : j = last \/ (j \in (i + 1) .. L /\ j \in 1 .. L)
      BY <1>6, <2>2
    <2>4. i \in 1 .. last /\ Fails(i)' /\ \A j \in (i + 1) .. last : ~Recovers(j)'
      BY <1>6, <1>7, <2>2, <2>3
    <2> QED
      BY <1>5, <1>6, <1>9, <2>1, <2>4 DEF HysteresisExact
  <1>11. CASE st.Healthy = TRUE /\ N + 1 >= FailureThreshold
    <2>1. st'.Healthy = FALSE /\ st'.HealthSuccesses = 0
      BY <1>1, <1>3, <1>11, FailureFields
    <2>2. N < F /\ RunEndsAt(FALSE, N, L)
      BY <1>1, <1>2, <1>3, <1>4, <1>11 DEF CountersAreRuns
    <2>3. N = F - 1
      BY <1>8, <1>11, <2>2
    <2>4. Fails(last)'
      BY <1>7, <2>2, <2>3
    <2>5. last \in 1 .. last /\ ~(\E j \in (last + 1) .. last : Recovers(j)')
      BY <1>6
    <2> QED
      BY <1>5, <1>6, <1>9, <2>1, <2>4, <2>5 DEF HysteresisExact
  <1>12. CASE st.Healthy = TRUE /\ ~(N + 1 >= FailureThreshold)
    <2>1. st'.Healthy = TRUE /\ st'.HealthFailures = N + 1
      BY <1>1, <1>3, <1>12, FailureFields
    <2>2. (N = L \/ RunBroken(TRUE, N)) /\ RunEndsAt(FALSE, N, L)
      BY <1>1, <1>2, <1>3, <1>12 DEF CountersAreRuns
    <2>3. N + 1 < F
      BY <1>8, <1>12
    <2>4. CountersAreRuns'
      <3>1. st'.HealthFailures = Len(probes') \/ RunBroken(TRUE, st.HealthFailures)'
        BY <1>2, <1>5, <2>1, <2>2 DEF RunBroken
      <3>2. RunEndsAt(FALSE, N + 1, Len(probes))'
        BY <1>1, <1>2, <2>2, RunsGrow
      <3>3. RunEndsAt(FALSE, st.HealthFailures, Len(probes))'
        BY <2>1, <3>2
      <3> QED
        BY <1>4, <2>1, <2>3, <3>1, <3>3 DEF CountersAreRuns
    <2>5. ~RunEndsAt(FALSE, F - 1, L)
      <3>1. F - 1 \in Nat /\ N < F - 1
        BY <1>8, <2>3
      <3>2. CASE N = L
        BY <3>1, <3>2 DEF RunEndsAt
      <3>3. CASE RunBroken(TRUE, N)
        BY <1>1, <1>2, <3>1, <3>3, BrokenRuns
      <3> QED
        BY <2>2, <3>2, <3>3
    <2>6. \A i \in 1 .. L : Fails(i) => \E j \in (i + 1) .. L : Recovers(j)
      BY <1>1, <1>2, <1>12 DEF HysteresisExact
    <2>7. ~Fails(last)'
      BY <1>7, <2>5
    <2>8. \A i \in 1 .. last : Fails(i)' => \E j \in (i + 1) .. last : Recovers(j)'
      BY <1>6, <1>7, <2>6, <2>7
    <2> QED
      BY <1>5, <1>6, <2>1, <2>4, <2>8 DEF HysteresisExact
  <1> QED
    BY <1>8, <1>10, <1>11, <1>12

\* The type invariant of one probe.
LEMMA HealthTypeStep ==
    ASSUME HealthIInv, NEW ok \in BOOLEAN, Poll(ok)
    PROVE  HealthTypeOK'
  <1>1. /\ st \in States /\ probes \in Seq(BOOLEAN) /\ Len(probes) < MaxProbes
        /\ st' = Apply(st, ok) /\ probes' = Append(probes, ok)
    BY DEF HealthIInv, HealthTypeOK, Poll
  <1>2. st' \in States
    <2>1. CASE ok = TRUE
      BY <1>1, <2>1, SuccessFields
    <2>2. CASE ok = FALSE
      BY <1>1, <2>2, FailureFields
    <2> QED
      BY <2>1, <2>2
  <1>3. probes' \in Seq(BOOLEAN) /\ Len(probes') <= MaxProbes
    BY <1>1, Appended, MaxProbesIsNat
  <1> QED
    BY <1>2, <1>3 DEF HealthTypeOK

\* The invariant is inductive.
LEMMA HealthIInvStep == HealthIInv /\ [HealthNext]_healthVars => HealthIInv'
  <1> SUFFICES ASSUME HealthIInv, [HealthNext]_healthVars PROVE HealthIInv'
    OBVIOUS
  <1>1. CASE Poll(TRUE)
    BY <1>1, SuccessStep, HealthTypeStep DEF HealthIInv
  <1>2. CASE Poll(FALSE)
    BY <1>2, FailureStep, HealthTypeStep DEF HealthIInv
  <1>3. CASE UNCHANGED healthVars
    BY <1>3 DEF healthVars, HealthIInv, HealthTypeOK, CountersAreRuns, HysteresisExact, RunEndsAt, RunBroken,
                Fails, Recovers
  <1> QED
    BY <1>1, <1>2, <1>3 DEF HealthNext

\* apply never drives a counter negative or a field out of its type, whatever
\* the probes answer.
THEOREM HealthTypes == HealthSpec => []HealthTypeOK
  <1>1. HealthIInv => HealthTypeOK
    BY DEF HealthIInv
  <1> QED
    BY InitHealthIInv, HealthIInvStep, <1>1, PTL DEF HealthSpec

\* For every pair of thresholds and every history of probes, Healthy is exactly
\* the hysteresis the thresholds describe.
THEOREM Hysteresis == HealthSpec => []HysteresisExact
  <1>1. HealthIInv => HysteresisExact
    BY DEF HealthIInv
  <1> QED
    BY InitHealthIInv, HealthIInvStep, <1>1, PTL DEF HealthSpec

\* The two counters are run lengths, always short of their thresholds.
THEOREM Counters == HealthSpec => []CountersAreRuns
  <1>1. HealthIInv => CountersAreRuns
    BY DEF HealthIInv
  <1> QED
    BY InitHealthIInv, HealthIInvStep, <1>1, PTL DEF HealthSpec

-----------------------------------------------------------------------------
(* RouteDecision *)
-----------------------------------------------------------------------------
\* The table

Entries == [Manifest : Manifests, State : LiveStates]

\* Any order the map iteration may take: every entry once, and no two of a rank.
TableOrder(es) ==
    /\ DOMAIN es \subseteq Nat
    /\ IsFiniteSet(DOMAIN es)
    /\ \A i \in DOMAIN es : es[i] \in Entries
    /\ \A i, j \in DOMAIN es : i # j => es[i].Manifest.rank # es[j].Manifest.rank

LEMMA TablesAreOrdered ==
    ASSUME NEW T \in Tables, NEW es \in SetToSeqs(T)
    PROVE  TableOrder(es)
<1>1. /\ IsFiniteSet(T) /\ T \subseteq Entries
      /\ \A d, e \in T : d # e => d.Manifest.rank # e.Manifest.rank
  BY TablesAssumption DEF Entries
<1>2. /\ es \in [1 .. Cardinality(T) -> T]
      /\ \A i, j \in 1 .. Cardinality(T) : i # j => es[i] # es[j]
  BY DEF SetToSeqs
<1>3. Cardinality(T) \in Nat
  BY <1>1, FS_CardinalityType
<1>4. IsFiniteSet(1 .. Cardinality(T))
  BY <1>3, FS_Interval
<1> QED
  BY <1>1, <1>2, <1>3, <1>4 DEF TableOrder

\* What orderedCandidates puts in order.
WalkOrder(es, P) == {p \in P \X P : Before(es[p[1]].Manifest, es[p[2]].Manifest)}

LEMMA OrderIsWeak ==
    ASSUME NEW es, TableOrder(es), NEW P, P \subseteq DOMAIN es
    PROVE  WeakOrder(P, WalkOrder(es, P))
<1>1. \A i \in P : /\ es[i].Manifest.Priority \in Int
                   /\ es[i].Manifest.MaxContext \in Int
                   /\ es[i].Manifest.rank \in Nat
  BY DEF TableOrder, Entries, Manifests
<1>2. \A i, j \in P : <<i, j>> \in WalkOrder(es, P) <=> Before(es[i].Manifest, es[j].Manifest)
  BY DEF WalkOrder
<1> QED
  BY <1>1, <1>2 DEF WeakOrder, Before

\* Entries of different rank are never tied in the walk's order.
LEMMA EarlierIsBefore ==
    ASSUME NEW es, TableOrder(es), NEW P, P \subseteq DOMAIN es,
           NEW i \in P, NEW j \in P, Earlier(WalkOrder(es, P), i, j)
    PROVE  Before(es[i].Manifest, es[j].Manifest)
<1>1. /\ es[i].Manifest.Priority \in Int /\ es[j].Manifest.Priority \in Int
      /\ es[i].Manifest.MaxContext \in Int /\ es[j].Manifest.MaxContext \in Int
      /\ es[i].Manifest.rank \in Nat /\ es[j].Manifest.rank \in Nat
  BY DEF TableOrder, Entries, Manifests
<1>2. i # j
  <2>1. ASSUME i = j PROVE FALSE
    BY <1>1, <2>1 DEF Earlier, WalkOrder, TableOrder, Before
  <2> QED
    BY <2>1
<1>3. es[i].Manifest.rank # es[j].Manifest.rank
  BY <1>2 DEF TableOrder
<1>4. Before(es[i].Manifest, es[j].Manifest) \/ ~ Before(es[j].Manifest, es[i].Manifest)
  BY DEF Earlier, WalkOrder
<1> QED
  BY <1>1, <1>3, <1>4 DEF Before

\* The sort has a place for each entry that passes every gate.
LEMMA WalkPlaces ==
    ASSUME NEW es, TableOrder(es), NEW rq, NEW c, NEW P, P = Kept(es, rq, c)
    PROVE  /\ P \subseteq Nat /\ P \subseteq DOMAIN es /\ IsFiniteSet(P)
           /\ Cardinality(P) \in Nat
           /\ orderedCandidates(es, rq, c) = SliceStable(es, P, WalkOrder(es, P))
           /\ \E at : PlacedAt(es, P, WalkOrder(es, P), at)
<1>1. P \subseteq Nat /\ P \subseteq DOMAIN es /\ P \in SUBSET DOMAIN es
  BY DEF TableOrder, Kept
<1>2. IsFiniteSet(P) /\ Cardinality(P) \in Nat
  BY <1>1, FS_Subset, FS_CardinalityType DEF TableOrder
<1>3. WeakOrder(P, WalkOrder(es, P))
  BY <1>1, OrderIsWeak
<1>4. orderedCandidates(es, rq, c) = SliceStable(es, P, WalkOrder(es, P))
  BY DEF orderedCandidates, WalkOrder
<1>5. \E at : PlacedAt(es, P, WalkOrder(es, P), at)
  BY <1>1, <1>2, <1>3, SortPlaces, Zenon
<1> QED
  BY <1>1, <1>2, <1>4, <1>5

\* The walk is in strict order.
LEMMA WalkIsSorted ==
    ASSUME NEW es, TableOrder(es), NEW rq, NEW c, NEW w, w = orderedCandidates(es, rq, c)
    PROVE  \A i, j \in DOMAIN w : i < j => Before(w[i].Manifest, w[j].Manifest)
<1> DEFINE P == Kept(es, rq, c)
           N == 1 .. Cardinality(P)
<1>1. /\ P \subseteq DOMAIN es
      /\ w = SliceStable(es, P, WalkOrder(es, P))
      /\ \E at : PlacedAt(es, P, WalkOrder(es, P), at)
  BY WalkPlaces
<1> HIDE DEF P
<1>2. PICK at : PlacedAt(es, P, WalkOrder(es, P), at)
  BY <1>1
<1>3. /\ at \in [N -> P]
      /\ w = [n \in N |-> es[at[n]]]
      /\ \A n, m \in N : n < m => Earlier(WalkOrder(es, P), at[n], at[m])
  BY <1>1, <1>2 DEF PlacedAt
<1>4. ASSUME NEW n \in N, NEW m \in N, n < m
      PROVE  Before(es[at[n]].Manifest, es[at[m]].Manifest)
  <2>1. at[n] \in P /\ at[m] \in P /\ Earlier(WalkOrder(es, P), at[n], at[m])
    BY <1>3, <1>4
  <2> QED
    BY <1>1, <2>1, EarlierIsBefore
<1> QED
  BY <1>3, <1>4

\* The walk holds the entries that pass every gate.
LEMMA WalkHolds ==
    ASSUME NEW es, TableOrder(es), NEW rq, NEW c
    PROVE  ToSet(orderedCandidates(es, rq, c)) = {es[i] : i \in Kept(es, rq, c)}
<1> DEFINE P == Kept(es, rq, c)
<1>1. /\ orderedCandidates(es, rq, c) = SliceStable(es, P, WalkOrder(es, P))
      /\ \E at : PlacedAt(es, P, WalkOrder(es, P), at)
  BY WalkPlaces
<1> HIDE DEF P
<1>2. ToSet(SliceStable(es, P, WalkOrder(es, P))) = {es[i] : i \in P}
  BY <1>1, SortHolds
<1> QED
  BY <1>1, <1>2 DEF P

-----------------------------------------------------------------------------
\* What fits

\* The larger of the two reserves is met exactly when both are.
LEMMA ReserveIsBoth ==
    ASSUME NEW bytes \in Nat, NEW fixed \in Int, NEW ctx \in Int
    PROVE  ctx >= fixed + Max({ReserveTokens,
                               RoundedQuarterPercent(bytes * ReservePercent), 0})
           <=> /\ ctx >= fixed + ReserveTokens
               /\ 800 * (ctx - fixed) >= 2 * bytes * ReservePercent - 399
<1>1. ReserveTokens \in Int /\ ReservePercent \in Nat
  BY ReserveAssumption
<1>2. PICK n \in Nat : n = bytes * ReservePercent
  BY <1>1
<1>3. 2 * bytes * ReservePercent = 2 * n
  BY <1>1, <1>2
<1>4. PICK pct \in Nat : pct = RoundedQuarterPercent(n)
  BY DEF RoundedQuarterPercent
<1>5. 800 * pct <= 2 * n + 400 /\ 2 * n + 400 < 800 * pct + 800
  BY <1>4 DEF RoundedQuarterPercent
<1>6. PICK m : m = Max({ReserveTokens, pct, 0})
  OBVIOUS
<1>7. m \in {ReserveTokens, pct, 0} /\ \A y \in {ReserveTokens, pct, 0} : m >= y
  <2>1. \E x \in {ReserveTokens, pct, 0} : \A y \in {ReserveTokens, pct, 0} : x >= y
    BY <1>1, <1>4
  <2> QED
    BY <1>6, <2>1 DEF Max
<1>8. ctx >= fixed + m <=> ctx >= fixed + ReserveTokens /\ ctx >= fixed + pct
  BY <1>1, <1>4, <1>7
<1>9. ctx >= fixed + pct <=> 800 * (ctx - fixed) >= 2 * n - 399
  BY <1>4, <1>5
<1> QED
  BY <1>2, <1>3, <1>4, <1>6, <1>8, <1>9

-----------------------------------------------------------------------------
\* The decision

DecisionInv ==
    /\ body \in Bodies
    /\ \E T \in Tables : entries \in SetToSeqs(T)
    /\ Routed => walk = orderedCandidates(entries, req, reqCtx)

\* The request and the table do not change under a decision, and the walk is
\* the one orderedCandidates returns for them.
THEOREM DecisionIsInvariant == DecisionSpec => []DecisionInv
<1>1. DecisionInit => DecisionInv
  BY DEF DecisionInit, DecisionInv, Routed
<1>2. DecisionInv /\ [DecisionNext]_decisionVars => DecisionInv'
  <2> SUFFICES ASSUME DecisionInv, [DecisionNext]_decisionVars PROVE DecisionInv'
    OBVIOUS
  <2>1. CASE Route
    BY <2>1 DEF Route, DecisionInv, Routed, req, reqCtx
  <2>2. CASE UNCHANGED decisionVars
    BY <2>2 DEF decisionVars, DecisionInv, Routed, req, reqCtx
  <2> QED
    BY <2>1, <2>2 DEF DecisionNext
<1> QED
  BY <1>1, <1>2, PTL DEF DecisionSpec

\* Whatever order the map iteration of proxy.orderedCandidates met the entries
\* in, the walk is strictly sorted by priority, context and id.
THEOREM WalkOrderHolds == DecisionSpec => []WalkIgnoresMapOrder
<1>1. DecisionInv => WalkIgnoresMapOrder
  <2> SUFFICES ASSUME DecisionInv, Routed
               PROVE  \A i, j \in DOMAIN walk :
                        i < j => Before(walk[i].Manifest, walk[j].Manifest)
    BY DEF WalkIgnoresMapOrder
  <2>1. TableOrder(entries) /\ walk = orderedCandidates(entries, req, reqCtx)
    BY TablesAreOrdered DEF DecisionInv
  <2> QED
    BY <2>1, WalkIsSorted
<1> QED
  BY <1>1, DecisionIsInvariant, PTL

\* The walk holds exactly the entries that have room for the prompt, the output
\* and both reserves, have the capabilities asked for and may be routed to.
THEOREM WalkFitsHolds == DecisionSpec => []WalkIsWhatFits
<1>1. DecisionInv => WalkIsWhatFits
  <2> DEFINE fixed == body.bytes \div 4 + req.RequestedMaxOutput
             Fits(m) == /\ m.MaxContext >= fixed + ReserveTokens
                        /\ 800 * (m.MaxContext - fixed) >= 2 * body.bytes * ReservePercent - 399
             Serves(e) == /\ Fits(e.Manifest)
                          /\ body.parts \cap ImageParts # {} => e.Manifest.Vision
                          /\ body.tools = "nonempty" => e.Manifest.Tools
                          /\ body.stream => e.Manifest.Streaming
                          /\ e.State.Enabled /\ e.State.Healthy /\ ~e.State.Draining
  <2> SUFFICES ASSUME DecisionInv, Routed
               PROVE  ToSet(walk) = {e \in ToSet(entries) : Serves(e)}
    BY Zenon DEF WalkIsWhatFits
  <2>1. TableOrder(entries) /\ walk = orderedCandidates(entries, req, reqCtx)
    BY TablesAreOrdered DEF DecisionInv
  <2>2. body \in RequestBodies
    BY BodiesAssumption DEF DecisionInv
  <2>3. body.bytes \in Nat /\ fixed \in Int
    BY <2>2 DEF RequestBodies, req, Classify
  <2>4. reqCtx = fixed + Max({ReserveTokens,
                              RoundedQuarterPercent(body.bytes * ReservePercent), 0})
    BY DEF reqCtx, RequiredContext, req, Classify
  <2>5. ASSUME NEW i \in DOMAIN entries
        PROVE  i \in Kept(entries, req, reqCtx) <=> Serves(entries[i])
    <3>1. entries[i].Manifest.MaxContext \in Int
      BY <2>1 DEF TableOrder, Entries, Manifests
    <3>2. entries[i].Manifest.MaxContext >= reqCtx <=> Fits(entries[i].Manifest)
      <4> HIDE DEF fixed
      <4> QED
        BY <2>3, <2>4, <3>1, ReserveIsBoth
    <3> HIDE DEF Fits, fixed
    <3>3. /\ req.HasImages = (body.parts \cap ImageParts # {})
          /\ req.RequiresTools = (body.tools = "nonempty")
          /\ req.RequiresStreaming = body.stream
      BY DEF req, Classify, detectImage
    <3> QED
      BY <3>2, <3>3 DEF Kept, Compatible, Routable
  <2> HIDE DEF Serves
  <2>6. ToSet(walk) = {entries[i] : i \in Kept(entries, req, reqCtx)}
    BY <2>1, WalkHolds
  <2>7. Kept(entries, req, reqCtx) = {i \in DOMAIN entries : Serves(entries[i])}
    BY <2>5 DEF Kept
  <2> QED
    BY <2>6, <2>7 DEF ToSet
<1> QED
  BY <1>1, DecisionIsInvariant, PTL

=============================================================================
