--------------------------- MODULE AgentRegistry ----------------------------
(***************************************************************************)
(* ocdeck/model.py: the registry of the OpenCode Deck broker, as operators *)
(* on one value.  Every method of Registry runs under its lock, so each is *)
(* one step of whoever calls it.                                           *)
(*                                                                         *)
(* `order' is the insertion order of the records dictionary; slot[i] is    *)
(* the slot a record carries and must agree with `slots'.                  *)
(***************************************************************************)
EXTENDS Integers, Sequences, SequencesExt, FiniteSetsExt

CONSTANTS Instance,      \* launch ids
          NoInstance,    \* None in slots, a dark key
          SlotCount,     \* keys of the Mini
          Producer,      \* bridges that report for a launch
          NoProducer,    \* no bridge has reported yet
          MaxSeq         \* bound: sequence numbers of a bridge

ASSUME SlotCountAssumption == SlotCount \in Nat \ {0}
ASSUME MaxSeqAssumption == MaxSeq \in Nat
ASSUME NobodyAssumption == NoInstance \notin Instance /\ NoProducer \notin Producer

Slot == 0 .. (SlotCount - 1)
NoSlot == SlotCount

\* What a record says of its agent, apart from the slot: "asks" is a report with
\* pending requests, and one that has grown old counts as "unknown".
StatusSet == {"idle", "busy", "asks", "unknown"}
Report ==
    [seq : -1 .. MaxSeq, producer : Producer \cup {NoProducer}, retired : SUBSET Producer,
     status : StatusSet]
NewReport ==
    [seq |-> -1, producer |-> NoProducer, retired |-> {}, status |-> "unknown"]

Registry ==
    [slots : [Slot -> Instance \cup {NoInstance}],
     generations : [Slot -> Nat],
     order : Seq(Instance),
     slot : [Instance -> Slot \cup {NoSlot}],
     report : [Instance -> Report]]

EmptyRegistry ==
    [slots |-> [s \in Slot |-> NoInstance],
     generations |-> [s \in Slot |-> 0],
     order |-> <<>>,
     slot |-> [i \in Instance |-> NoSlot],
     report |-> [i \in Instance |-> NewReport]]

Records(r) == ToSet(r.order)
Dark(r) == {s \in Slot : r.slots[s] = NoInstance}
-----------------------------------------------------------------------------
\* Mutant of Given: a slot moves without a new generation.
GivenSilently(r, i, s) == [r EXCEPT !.slots[s] = i, !.slot[i] = s]

\* Slot s goes to i.
Given(r, i, s) ==
    [r EXCEPT !.slots[s] = i, !.generations[s] = @ + 1, !.slot[i] = s]

\* upsert of a launch whose process has been probed.
Upserted(r, i) ==
    IF i \in Records(r) THEN r
    ELSE LET new == [r EXCEPT !.order = Append(@, i), !.slot[i] = NoSlot, !.report[i] = NewReport]
         IN IF Dark(r) = {} THEN new ELSE Given(new, i, Min(Dark(r)))

\* The place of a launch in the order of registration.
Place(r, i) == CHOOSE n \in DOMAIN r.order : r.order[n] = i

\* The record is popped and its slot freed.
Popped(r, i) ==
    LET gone == [r EXCEPT !.order = IF i \in Records(r) THEN RemoveAt(@, Place(r, i)) ELSE @,
                          !.slot[i] = NoSlot, !.report[i] = NewReport]
    IN IF i \notin Records(r) \/ r.slot[i] = NoSlot THEN gone
       ELSE [gone EXCEPT !.slots[r.slot[i]] = NoInstance, !.generations[r.slot[i]] = @ + 1]

\* Overflow agents take the free slots in registration order.
Promoted(r) ==
    LET after[n \in 0 .. Len(r.order)] ==
            IF n = 0 THEN r
            ELSE LET q == after[n - 1]
                     i == r.order[n]
                 IN IF q.slot[i] = NoSlot /\ Dark(q) # {} THEN Given(q, i, Min(Dark(q))) ELSE q
    IN after[Len(r.order)]

\* Mutant of Removed: the freed slot waits for the next registration.
RemovedOnly(r, i) == Popped(r, i)

\* (The set has one element: so TLC pops the record once.)
Removed(r, i) == CHOOSE q \in {Promoted(p) : p \in {Popped(r, i)}} : TRUE

\* sweep: every record whose process is seen to be dead is removed, in order.
Swept(r, dead) ==
    LET after[n \in 0 .. Len(r.order)] ==
            IF n = 0 THEN r
            ELSE IF r.order[n] \in dead THEN Removed(after[n - 1], r.order[n])
            ELSE after[n - 1]
    IN after[Len(r.order)]
-----------------------------------------------------------------------------
\* snapshot: a new bridge retires the one before it; a retired one and an old
\* sequence number are refused.
Turned(p, producer) ==
    IF p.producer = producer THEN p
    ELSE [p EXCEPT !.retired = IF p.producer = NoProducer THEN @ ELSE @ \cup {p.producer},
                   !.producer = producer, !.seq = -1]

Latest(p, m) == IF m.seq <= p.seq THEN p ELSE [p EXCEPT !.seq = m.seq, !.status = m.status]

\* Mutant of Snapshot: a retired bridge is heard again.
SnapshotOfAnyone(p, m) == IF m.status \in StatusSet THEN Latest(Turned(p, m.producer), m) ELSE p

Snapshot(p, m) ==
    IF m.status \notin StatusSet \/ m.producer \in p.retired THEN p
    ELSE Latest(Turned(p, m.producer), m)
-----------------------------------------------------------------------------
\* view: what each key is to say, and of whom.
State(p) ==
    CASE p.status = "asks" -> "input"
      [] p.status = "busy" -> "running"
      [] p.status \in {"idle", "unknown"} -> p.status

View(r) ==
    [s \in Slot |->
       [inst |-> r.slots[s], generation |-> r.generations[s],
        state |-> IF r.slots[s] \in Records(r) THEN State(r.report[r.slots[s]]) ELSE "off"]]

\* resolve: the view is still true of its slot.
Resolves(r, s, v) ==
    /\ r.slots[s] = v.inst
    /\ r.generations[s] = v.generation
    /\ v.inst \in Records(r)
=============================================================================
