---------------------------- MODULE SlotRegistry ----------------------------
(***************************************************************************)
(* opendeck_broker/registry.py and the reducer of model.py: the six-slot   *)
(* registry as operators on one registry value.                            *)
(*                                                                         *)
(* The dictionaries _instances, _producer and _last_seen always have the   *)
(* same keys (every method adds or removes all three): `known' is that set *)
(* and age[i] the time since _last_seen[i].  `facts' are the Instance      *)
(* objects; they are shared with the adapter's launches, which change them *)
(* in place, so they are not part of the registry value.                   *)
(***************************************************************************)
EXTENDS Naturals, FiniteSets, FiniteSetsExt

CONSTANTS Instance,      \* instance ids, one uuid per launch
          NoInstance,    \* None in _slot_occupant
          SlotCount,     \* SLOT_COUNT
          Lease          \* lease_seconds, in ticks of the main loop

ASSUME SlotCountAssumption == SlotCount \in Nat \ {0}
ASSUME LeaseAssumption == Lease \in Nat \ {0}
ASSUME InstanceAssumption == NoInstance \notin Instance

Slot == 0 .. (SlotCount - 1)
Overflow == SlotCount            \* _instance_slot[i] is None
Unassigned == SlotCount + 1      \* i is not in _instance_slot

Registry ==
    [occupant   : [Slot -> Instance \cup {NoInstance}],
     generation : [Slot -> Nat],
     slotOf     : [Instance -> Slot \cup {Overflow, Unassigned}],
     known      : SUBSET Instance,
     age        : [Instance -> 0 .. (Lease + 1)]]

EmptyRegistry ==
    [occupant   |-> [s \in Slot |-> NoInstance],
     generation |-> [s \in Slot |-> 0],
     slotOf     |-> [i \in Instance |-> Unassigned],
     known      |-> {},
     age        |-> [i \in Instance |-> 0]]
-----------------------------------------------------------------------------
Touched(r, i) == [r EXCEPT !.age[i] = 0]

\* The instance is on record: where register begins, and what accept_snapshot
\* does once more after a register.
Recorded(r, i) == [Touched(r, i) EXCEPT !.known = @ \cup {i}]

Dark(r) == {s \in Slot : r.occupant[s] = NoInstance}
Holds(r, i, s) == s \in Slot /\ r.slotOf[i] = s /\ r.occupant[s] = i

\* Where the loop over the slots ends.  (What comes before it, "existing", is
\* never found: a POST makes a new id, and accept_snapshot registers an instance
\* that is not on record and so has no slot.)
Choice(r) == IF Dark(r) = {} THEN Overflow ELSE Min(Dark(r))

\* Mutant of Claimed: reuse of a slot does not count.
ClaimedSilently(r, i, s) ==
    IF s = Overflow THEN [r EXCEPT !.slotOf[i] = Overflow]
    ELSE [r EXCEPT !.occupant[s] = i, !.slotOf[i] = s]

\* The rest of register: the slot is taken, whatever happened to it since.
Claimed(r, i, s) ==
    IF s = Overflow THEN [r EXCEPT !.slotOf[i] = Overflow]
    ELSE [r EXCEPT !.occupant[s] = i, !.generation[s] = @ + 1, !.slotOf[i] = s]

\* Mutant of Accepted: a snapshot does not renew the lease.
AcceptedUntouched(r, i) == r

\* accept_snapshot of a newer message of an instance on record.
Accepted(r, i) == Touched(r, i)

Heartbeat(r, i) == IF i \in r.known THEN Touched(r, i) ELSE r
-----------------------------------------------------------------------------
\* Mutant of Freed: the slot keeps its occupant.
FreedKeepingKey(r, S) ==
    [r EXCEPT !.slotOf = [i \in Instance |-> IF i \in S THEN Unassigned ELSE r.slotOf[i]],
              !.known = @ \ S,
              !.age = [i \in Instance |-> IF i \in S THEN 0 ELSE r.age[i]]]

\* _free_slot of every member of S.
Freed(r, S) ==
    [r EXCEPT !.occupant = [s \in Slot |->
                   IF \E i \in S : Holds(r, i, s) THEN NoInstance ELSE r.occupant[s]],
              !.slotOf = [i \in Instance |-> IF i \in S THEN Unassigned ELSE r.slotOf[i]],
              !.known = @ \ S,
              !.age = [i \in Instance |-> IF i \in S THEN 0 ELSE r.age[i]]]

\* Mutant of Expired: the lease is never seen to have run out.
ExpiredLate(r) == {i \in r.known : r.age[i] > Lease + 1}

Expired(r) == {i \in r.known : r.age[i] > Lease}
Swept(r) == Freed(r, Expired(r))

\* One tick of time.monotonic.
Aged(r) ==
    [r EXCEPT !.age = [i \in Instance |->
        IF i \in r.known /\ r.age[i] <= Lease THEN r.age[i] + 1 ELSE r.age[i]]]
-----------------------------------------------------------------------------
\* The facts of an Instance object; the lists of pending ids are whether one
\* is pending, and retry is a kind of busy.
NewFacts == [status |-> "idle", input |-> FALSE, trusted |-> TRUE]

DeriveDisplay(f) ==
    IF ~f.trusted THEN "unknown"
    ELSE IF f.input THEN "input"
    ELSE IF f.status = "busy" THEN "run"
    ELSE "idle"

Black == [appearance |-> "black", label |-> NoInstance]

\* The picture of key s: its colour, and the label of whom it stands for.
Picture(r, facts, s) ==
    LET i == r.occupant[s]
    IN IF i \in r.known THEN [appearance |-> DeriveDisplay(facts[i]), label |-> i] ELSE Black

Frame(r, facts) == [s \in Slot |-> Picture(r, facts, s)]

\* validate_press: the instance has a slot, and that slot's generation is the
\* one the press was made for.
ValidatePress(r, i, g) == r.slotOf[i] \in Slot /\ r.generation[r.slotOf[i]] = g
=============================================================================
