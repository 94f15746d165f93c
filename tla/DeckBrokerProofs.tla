-------------------------- MODULE DeckBrokerProofs --------------------------
(***************************************************************************)
(* Proofs about DeckBroker for every number of keys, launches and REST     *)
(* threads, every lease and every number of calls and events.              *)
(***************************************************************************)
EXTENDS DeckBroker, WellFoundedInduction, TLAPS

-----------------------------------------------------------------------------
\* Registries

\* Whoever holds a key of r is on record with that key, and whoever is not on
\* record has none.
Tidy(r) ==
    /\ \A s \in Slot : r.occupant[s] # NoInstance =>
          r.occupant[s] \in r.known /\ r.slotOf[r.occupant[s]] = s
    /\ \A i \in Instance \ r.known : r.slotOf[i] = Unassigned

\* From r to q launches leave, nobody moves, and a key that is given away
\* has a new generation.
Passes(r, q) ==
    /\ \A s, t \in Slot : r.occupant[s] = q.occupant[t] /\ r.occupant[s] # NoInstance => s = t
    /\ \A s \in Slot : q.generation[s] >= r.generation[s]
    /\ \A s \in Slot :
         q.occupant[s] \notin {r.occupant[s], NoInstance} => q.generation[s] > r.generation[s]

\* A set of keys that is not empty has a lowest one.
LEMMA LowestKey ==
    ASSUME NEW S \in SUBSET Slot, S # {}
    PROVE  Min(S) \in S
<1> DEFINE less == OpToRel(<, Nat)
<1>1. S \subseteq Nat
  BY SlotCountAssumption DEF Slot
<1>2. IsWellFoundedOn(less, Nat)
  BY NatLessThanWellFounded
<1>3. \A m, n \in Nat : m < n => <<m, n>> \in less
  BY DEF OpToRel
<1> HIDE DEF less
<1>4. PICK n \in S : \A m \in S : ~ (<<m, n>> \in less)
  BY <1>1, <1>2, WFMin
<1>5. ASSUME NEW m \in S PROVE n <= m
  <2>1. m \in Nat /\ n \in Nat
    BY <1>1
  <2>2. ~ (m < n)
    BY <1>3, <1>4, <2>1, Zenon
  <2> QED
    BY <2>1, <2>2
<1> QED
  BY <1>4, <1>5 DEF Min

LEMMA RegistryFields ==
    ASSUME NEW r \in Registry
    PROVE  /\ r.occupant \in [Slot -> Instance \cup {NoInstance}]
           /\ r.generation \in [Slot -> Nat]
           /\ r.slotOf \in [Instance -> Slot \cup {Overflow, Unassigned}]
           /\ r.known \in SUBSET Instance
           /\ r.age \in [Instance -> 0 .. (Lease + 1)]
           /\ r = [occupant |-> r.occupant, generation |-> r.generation, slotOf |-> r.slotOf,
                   known |-> r.known, age |-> r.age]
  BY DEF Registry

LEMMA AgesAreNumbers ==
    ASSUME NEW r \in Registry
    PROVE  Lease \in Nat /\ \A i \in Instance : r.age[i] \in Nat
<1>1. \A i \in Instance : r.age[i] \in 0 .. (Lease + 1)
  BY RegistryFields
<1> QED
  BY <1>1, LeaseAssumption

\* A sign of life.
LEMMA TouchedIs ==
    ASSUME NEW r \in Registry, NEW i \in Instance
    PROVE  /\ Touched(r, i) \in Registry
           /\ Touched(r, i).occupant = r.occupant
           /\ Touched(r, i).generation = r.generation
           /\ Touched(r, i).slotOf = r.slotOf
           /\ Touched(r, i).known = r.known
           /\ Touched(r, i).age = [r.age EXCEPT ![i] = 0]
<1>1. Touched(r, i) =
        [occupant |-> r.occupant, generation |-> r.generation, slotOf |-> r.slotOf,
         known |-> r.known, age |-> [r.age EXCEPT ![i] = 0]]
  BY RegistryFields DEF Touched
<1>2. [r.age EXCEPT ![i] = 0] \in [Instance -> 0 .. (Lease + 1)]
  BY RegistryFields, LeaseAssumption
<1> QED
  BY <1>1, <1>2, RegistryFields DEF Registry

\* register, the first half: nothing is assigned yet.
LEMMA RecordedIs ==
    ASSUME NEW r \in Registry, NEW i \in Instance
    PROVE  /\ Recorded(r, i) \in Registry
           /\ Recorded(r, i).occupant = r.occupant
           /\ Recorded(r, i).generation = r.generation
           /\ Recorded(r, i).slotOf = r.slotOf
           /\ Recorded(r, i).known = r.known \cup {i}
           /\ Recorded(r, i).age = [r.age EXCEPT ![i] = 0]
<1>1. Recorded(r, i) =
        [occupant |-> r.occupant, generation |-> r.generation, slotOf |-> r.slotOf,
         known |-> r.known \cup {i}, age |-> [r.age EXCEPT ![i] = 0]]
  <2> DEFINE q == Touched(r, i)
  <2>1. q = [occupant |-> q.occupant, generation |-> q.generation, slotOf |-> q.slotOf,
             known |-> q.known, age |-> q.age]
    BY TouchedIs, RegistryFields
  <2>2. Recorded(r, i) = [q EXCEPT !.known = @ \cup {i}]
    BY DEF Recorded
  <2>3. /\ q.occupant = r.occupant /\ q.generation = r.generation /\ q.slotOf = r.slotOf
        /\ q.known = r.known /\ q.age = [r.age EXCEPT ![i] = 0]
    BY TouchedIs
  <2> HIDE DEF q
  <2> QED
    BY <2>1, <2>2, <2>3
<1>2. [r.age EXCEPT ![i] = 0] \in [Instance -> 0 .. (Lease + 1)]
  BY RegistryFields, LeaseAssumption
<1> QED
  BY <1>1, <1>2, RegistryFields DEF Registry

\* The search ends at a key or at none.
LEMMA ChoiceIs ==
    ASSUME NEW r \in Registry
    PROVE  Choice(r) \in Slot \cup {Overflow}
<1>1. CASE Dark(r) = {}
  BY <1>1 DEF Choice
<1>2. CASE Dark(r) # {}
  <2>1. Min(Dark(r)) \in Dark(r)
    BY <1>2, LowestKey DEF Dark
  <2> QED
    BY <1>2, <2>1 DEF Choice, Dark
<1> QED
  BY <1>1, <1>2

LEMMA SlotFacts ==
    /\ Overflow \notin Slot /\ Unassigned \notin Slot
    /\ NoInstance \notin Instance
  BY SlotCountAssumption, InstanceAssumption DEF Slot, Overflow, Unassigned

\* A claim of a key: its occupant changes, and nothing but that key's.
LEMMA ClaimedIs ==
    ASSUME NEW r \in Registry, NEW i \in Instance, NEW s \in Slot
    PROVE  /\ Claimed(r, i, s) \in Registry
           /\ \A t \in Slot : Claimed(r, i, s).occupant[t] = IF t = s THEN i ELSE r.occupant[t]
           /\ \A t \in Slot : Claimed(r, i, s).generation[t] =
                              IF t = s THEN r.generation[t] + 1 ELSE r.generation[t]
           /\ \A j \in Instance : Claimed(r, i, s).slotOf[j] = IF j = i THEN s ELSE r.slotOf[j]
           /\ Claimed(r, i, s).known = r.known
           /\ Claimed(r, i, s).age = r.age
<1>1. Claimed(r, i, s) =
        [r EXCEPT !.occupant[s] = i, !.generation[s] = @ + 1, !.slotOf[i] = s]
  BY SlotFacts DEF Claimed
<1>2. Claimed(r, i, s) =
        [occupant |-> [r.occupant EXCEPT ![s] = i],
         generation |-> [r.generation EXCEPT ![s] = @ + 1],
         slotOf |-> [r.slotOf EXCEPT ![i] = s], known |-> r.known, age |-> r.age]
  <2> DEFINE occ == [r.occupant EXCEPT ![s] = i]
             gen == [r.generation EXCEPT ![s] = @ + 1]
             slo == [r.slotOf EXCEPT ![i] = s]
  <2>1. Claimed(r, i, s) = [r EXCEPT !.occupant = occ, !.generation = gen, !.slotOf = slo]
    BY <1>1
  <2> HIDE DEF occ, gen, slo
  <2>2. Claimed(r, i, s) = [occupant |-> occ, generation |-> gen, slotOf |-> slo,
                            known |-> r.known, age |-> r.age]
    BY <2>1, RegistryFields
  <2> QED
    BY <2>2 DEF occ, gen, slo
<1>3. /\ [r.occupant EXCEPT ![s] = i] \in [Slot -> Instance \cup {NoInstance}]
      /\ [r.generation EXCEPT ![s] = @ + 1] \in [Slot -> Nat]
      /\ [r.slotOf EXCEPT ![i] = s] \in [Instance -> Slot \cup {Overflow, Unassigned}]
  BY RegistryFields
<1>4. Claimed(r, i, s) \in Registry
  BY <1>2, <1>3, RegistryFields DEF Registry
<1> QED
  BY <1>2, <1>4, RegistryFields

LEMMA UnclaimedIs ==
    ASSUME NEW r \in Registry, NEW i \in Instance
    PROVE  /\ Claimed(r, i, Overflow) \in Registry
           /\ Claimed(r, i, Overflow).occupant = r.occupant
           /\ Claimed(r, i, Overflow).generation = r.generation
           /\ Claimed(r, i, Overflow).slotOf = [r.slotOf EXCEPT ![i] = Overflow]
           /\ Claimed(r, i, Overflow).known = r.known
           /\ Claimed(r, i, Overflow).age = r.age
<1>1. Claimed(r, i, Overflow) =
        [occupant |-> r.occupant, generation |-> r.generation,
         slotOf |-> [r.slotOf EXCEPT ![i] = Overflow], known |-> r.known, age |-> r.age]
  BY RegistryFields DEF Claimed
<1>2. [r.slotOf EXCEPT ![i] = Overflow] \in [Instance -> Slot \cup {Overflow, Unassigned}]
  BY RegistryFields
<1> QED
  BY <1>1, <1>2, RegistryFields DEF Registry

\* A key is given to a launch that has none: it is on record with it.
LEMMA KeyGiven ==
    ASSUME NEW r \in Registry, NEW q \in Registry, NEW i \in Instance, NEW s \in Slot,
           Tidy(r), \A t \in Slot : r.occupant[t] # i,
           \A t \in Slot : q.occupant[t] = IF t = s THEN i ELSE r.occupant[t],
           \A t \in Slot : q.generation[t] = IF t = s THEN r.generation[t] + 1 ELSE r.generation[t],
           \A j \in Instance : q.slotOf[j] = IF j = i THEN s ELSE r.slotOf[j],
           q.known = r.known \cup {i}
    PROVE  Tidy(q) /\ Passes(r, q)
<1>1. ASSUME NEW t \in Slot, q.occupant[t] # NoInstance
      PROVE  q.occupant[t] \in q.known /\ q.slotOf[q.occupant[t]] = t
  <2>1. CASE t = s
    BY <2>1, RegistryFields
  <2>2. CASE t # s
    <3>1. q.occupant[t] = r.occupant[t] /\ r.occupant[t] \in Instance /\ r.occupant[t] # i
      BY <1>1, <2>2, RegistryFields
    <3> QED
      BY <3>1, <1>1, RegistryFields DEF Tidy
  <2> QED
    BY <2>1, <2>2
<1>2. \A j \in Instance \ q.known : q.slotOf[j] = Unassigned
  BY RegistryFields DEF Tidy
<1>3. ASSUME NEW t \in Slot, NEW u \in Slot,
             r.occupant[t] = q.occupant[u], r.occupant[t] # NoInstance
      PROVE  t = u
  BY <1>3, RegistryFields DEF Tidy
<1>4. ASSUME NEW t \in Slot
      PROVE  /\ q.generation[t] >= r.generation[t]
             /\ q.occupant[t] # r.occupant[t] => q.generation[t] > r.generation[t]
  <2>1. r.generation[t] \in Nat
    BY RegistryFields
  <2> QED
    BY <2>1, RegistryFields
<1> QED
  BY <1>1, <1>2, <1>3, <1>4 DEF Tidy, Passes

\* A launch that has no key goes without one.
LEMMA NoKeyGiven ==
    ASSUME NEW r \in Registry, NEW q \in Registry, NEW i \in Instance,
           Tidy(r), \A t \in Slot : r.occupant[t] # i,
           q.occupant = r.occupant, q.generation = r.generation,
           q.slotOf = [r.slotOf EXCEPT ![i] = Overflow], q.known = r.known \cup {i}
    PROVE  Tidy(q) /\ Passes(r, q)
<1>1. Tidy(q)
  BY RegistryFields DEF Tidy
<1>2. Passes(r, q)
  BY RegistryFields DEF Passes, Tidy
<1> QED
  BY <1>1, <1>2

LEMMA ClaimedKeeps ==
    ASSUME NEW r \in Registry, NEW i \in Instance, NEW s \in Slot \cup {Overflow}
    PROVE  /\ Claimed(r, i, s) \in Registry
           /\ Claimed(r, i, s).known = r.known /\ Claimed(r, i, s).age = r.age
<1>1. CASE s = Overflow
  BY <1>1, UnclaimedIs
<1>2. CASE s \in Slot
  BY <1>2, ClaimedIs
<1> QED
  BY <1>1, <1>2

\* The end of a registration: only the key that was found changes, and if the
\* launch had none, all is well.
LEMMA RegisteredIs ==
    ASSUME NEW r \in Registry, NEW i \in Instance, NEW s \in Slot \cup {Overflow},
           NEW c, c = Claimed(r, i, s), NEW q \in Registry,
           q.occupant = c.occupant, q.generation = c.generation, q.slotOf = c.slotOf,
           q.known = r.known \cup {i}
    PROVE  /\ q.known = r.known \cup {i}
           /\ \A t \in Slot : q.occupant[t] = r.occupant[t] \/ (t = s /\ q.occupant[t] = i)
           /\ Tidy(r) /\ (\A t \in Slot : r.occupant[t] # i) => Tidy(q) /\ Passes(r, q)
<1>1. CASE s = Overflow
  <2>1. c = Claimed(r, i, Overflow)
    BY <1>1
  <2>2. /\ c.occupant = r.occupant /\ c.generation = r.generation
        /\ c.slotOf = [r.slotOf EXCEPT ![i] = Overflow]
    BY <2>1, UnclaimedIs
  <2>3. /\ q.occupant = r.occupant /\ q.generation = r.generation
        /\ q.slotOf = [r.slotOf EXCEPT ![i] = Overflow] /\ q.known = r.known \cup {i}
    BY <2>2
  <2> QED
    BY <2>3, NoKeyGiven
<1>2. CASE s \in Slot
  <2>1. /\ \A t \in Slot : q.occupant[t] = IF t = s THEN i ELSE r.occupant[t]
        /\ \A t \in Slot : q.generation[t] =
                           IF t = s THEN r.generation[t] + 1 ELSE r.generation[t]
        /\ \A j \in Instance : q.slotOf[j] = IF j = i THEN s ELSE r.slotOf[j]
    BY <1>2, ClaimedIs
  <2>2. \A t \in Slot : q.occupant[t] = r.occupant[t] \/ (t = s /\ q.occupant[t] = i)
    BY <2>1, RegistryFields
  <2>3. Tidy(r) /\ (\A t \in Slot : r.occupant[t] # i) => Tidy(q) /\ Passes(r, q)
    BY <1>2, <2>1, KeyGiven
  <2> QED
    BY <2>1, <2>2, <2>3
<1> QED
  BY <1>1, <1>2

\* register of a launch that is on record, to the end.
LEMMA ClaimedPasses ==
    ASSUME NEW r \in Registry, NEW i \in Instance, NEW s \in Slot \cup {Overflow}, i \in r.known
    PROVE  LET q == Claimed(r, i, s)
           IN /\ q \in Registry /\ q.known = r.known /\ q.age = r.age
              /\ \A t \in Slot : q.occupant[t] = r.occupant[t] \/ (t = s /\ q.occupant[t] = i)
              /\ Tidy(r) /\ (\A t \in Slot : r.occupant[t] # i) => Tidy(q) /\ Passes(r, q)
<1> DEFINE q == Claimed(r, i, s)
<1>1. q \in Registry /\ q.known = r.known /\ q.age = r.age
  BY ClaimedKeeps
<1>2. PICK c : c = Claimed(r, i, s)
  OBVIOUS
<1>3. q = c /\ q.known = r.known \cup {i}
  BY <1>1, <1>2
<1> HIDE DEF q
<1> QED
  BY <1>1, <1>2, <1>3, RegisteredIs DEF q

\* register of a launch that may be forgotten again by now, and what
\* accept_snapshot adds.
LEMMA TakenPasses ==
    ASSUME NEW r \in Registry, NEW i \in Instance, NEW s \in Slot \cup {Overflow}
    PROVE  LET q == Recorded(Claimed(r, i, s), i)
           IN /\ q \in Registry /\ q.known = r.known \cup {i} /\ q.age = [r.age EXCEPT ![i] = 0]
              /\ \A t \in Slot : q.occupant[t] = r.occupant[t] \/ (t = s /\ q.occupant[t] = i)
              /\ Tidy(r) /\ (\A t \in Slot : r.occupant[t] # i) => Tidy(q) /\ Passes(r, q)
<1>1. PICK c : c = Claimed(r, i, s)
  OBVIOUS
<1>2. c \in Registry /\ c.known = r.known /\ c.age = r.age
  BY <1>1, ClaimedKeeps
<1>3. PICK q : q = Recorded(c, i)
  OBVIOUS
<1>4. /\ q \in Registry /\ q.occupant = c.occupant /\ q.generation = c.generation
      /\ q.slotOf = c.slotOf /\ q.known = r.known \cup {i} /\ q.age = [r.age EXCEPT ![i] = 0]
  BY <1>2, <1>3, RecordedIs
<1>5. /\ q.known = r.known \cup {i}
      /\ \A t \in Slot : q.occupant[t] = r.occupant[t] \/ (t = s /\ q.occupant[t] = i)
      /\ Tidy(r) /\ (\A t \in Slot : r.occupant[t] # i) => Tidy(q) /\ Passes(r, q)
  BY <1>1, <1>4, RegisteredIs
<1> QED
  BY <1>1, <1>2, <1>3, <1>4, <1>5

\* A registry that differs in who is on record and when it was heard of: nobody
\* is forgotten.
LEMMA HeardPasses ==
    ASSUME NEW r \in Registry, NEW q \in Registry, q.occupant = r.occupant,
           q.generation = r.generation, q.slotOf = r.slotOf, r.known \subseteq q.known, Tidy(r)
    PROVE  Tidy(q) /\ Passes(r, q)
<1>1. Tidy(q)
  BY DEF Tidy
<1>2. \A s \in Slot : r.generation[s] \in Nat
  BY RegistryFields
<1>3. Passes(r, q)
  BY <1>2 DEF Passes, Tidy
<1> QED
  BY <1>1, <1>3

\* Launches that are forgotten leave their keys.
LEMMA FreedPasses ==
    ASSUME NEW r \in Registry, NEW S \in SUBSET Instance
    PROVE  LET q == Freed(r, S)
           IN /\ q \in Registry
              /\ Tidy(r) => Tidy(q) /\ Passes(r, q)
              /\ q.known = r.known \ S
              /\ \A i \in Instance : q.age[i] =< r.age[i]
              /\ \A t \in Slot : \/ q.occupant[t] = r.occupant[t]
                                 \/ r.occupant[t] \in S /\ q.occupant[t] = NoInstance
<1> DEFINE q == Freed(r, S)
           occ == [s \in Slot |-> IF \E i \in S : Holds(r, i, s) THEN NoInstance ELSE r.occupant[s]]
           slo == [i \in Instance |-> IF i \in S THEN Unassigned ELSE r.slotOf[i]]
           ag == [i \in Instance |-> IF i \in S THEN 0 ELSE r.age[i]]
<1>1. q = [occupant |-> occ, generation |-> r.generation, slotOf |-> slo,
           known |-> r.known \ S, age |-> ag]
  <2>1. q = [r EXCEPT !.occupant = occ, !.slotOf = slo, !.known = r.known \ S, !.age = ag]
    BY DEF Freed
  <2> DEFINE R == [occupant |-> r.occupant, generation |-> r.generation, slotOf |-> r.slotOf,
                   known |-> r.known, age |-> r.age]
             known == r.known \ S
  <2>2. r = R
    BY RegistryFields
  <2> HIDE DEF q, occ, slo, ag, R, known
  <2>3. q = [R EXCEPT !.occupant = occ, !.slotOf = slo, !.known = known, !.age = ag]
    BY <2>1, <2>2 DEF known
  <2> QED
    BY <2>3 DEF R, known
<1>2. /\ occ \in [Slot -> Instance \cup {NoInstance}]
      /\ slo \in [Instance -> Slot \cup {Overflow, Unassigned}]
      /\ ag \in [Instance -> 0 .. (Lease + 1)]
  BY RegistryFields, LeaseAssumption
<1>3. q \in Registry
  BY <1>1, <1>2, RegistryFields DEF Registry
<1>4. \A t \in Slot : \/ occ[t] = r.occupant[t]
                      \/ r.occupant[t] \in S /\ occ[t] = NoInstance
  BY DEF Holds
<1>12. ASSUME Tidy(r)
       PROVE  \A t \in Slot : occ[t] = r.occupant[t] => r.occupant[t] \notin S
  BY <1>12, SlotFacts DEF Tidy, Holds
<1>13. \A i \in S : slo[i] = Unassigned
  OBVIOUS
<1>5. \A i \in Instance : ag[i] =< r.age[i]
  <2>1. \A i \in Instance : r.age[i] \in 0 .. (Lease + 1)
    BY RegistryFields
  <2> QED
    BY <2>1, LeaseAssumption
<1>6. \A i \in Instance \ S : slo[i] = r.slotOf[i]
  OBVIOUS
<1>7. \A t \in Slot : r.occupant[t] \in Instance \cup {NoInstance} /\ r.generation[t] \in Nat
  BY RegistryFields
<1>8. /\ q.occupant = occ /\ q.generation = r.generation /\ q.slotOf = slo
      /\ q.known = r.known \ S /\ q.age = ag
  BY <1>1
<1> HIDE DEF q, occ, slo, ag
<1>9. ASSUME Tidy(r) PROVE Tidy(q)
  <2>1. ASSUME NEW t \in Slot, q.occupant[t] # NoInstance
        PROVE  q.occupant[t] \in q.known /\ q.slotOf[q.occupant[t]] = t
    <3>1. occ[t] = r.occupant[t] /\ r.occupant[t] \in Instance \ S
      BY <1>4, <1>7, <1>8, <1>9, <1>12, <2>1
    <3> QED
      BY <1>6, <1>8, <1>9, <2>1, <3>1 DEF Tidy
  <2>2. \A i \in Instance \ q.known : q.slotOf[i] = Unassigned
    BY <1>6, <1>8, <1>9, <1>13 DEF Tidy
  <2> QED
    BY <2>1, <2>2 DEF Tidy
<1>10. ASSUME Tidy(r) PROVE Passes(r, q)
  <2>1. ASSUME NEW t \in Slot, NEW u \in Slot,
               r.occupant[t] = q.occupant[u], r.occupant[t] # NoInstance
        PROVE  t = u
    BY <1>4, <1>8, <1>10, <2>1 DEF Tidy
  <2>2. ASSUME NEW t \in Slot
        PROVE  q.generation[t] >= r.generation[t] /\ q.occupant[t] \in {r.occupant[t], NoInstance}
    BY <1>4, <1>7, <1>8
  <2> QED
    BY <2>1, <2>2 DEF Passes
<1>11. \A t \in Slot : \/ q.occupant[t] = r.occupant[t]
                       \/ r.occupant[t] \in S /\ q.occupant[t] = NoInstance
  BY <1>4, <1>8
<1> QED
  BY <1>3, <1>5, <1>8, <1>9, <1>10, <1>11 DEF q

\* A tick.
LEMMA AgedIs ==
    ASSUME NEW r \in Registry
    PROVE  /\ Aged(r) \in Registry
           /\ Aged(r).occupant = r.occupant
           /\ Aged(r).generation = r.generation
           /\ Aged(r).slotOf = r.slotOf
           /\ Aged(r).known = r.known
           /\ \A i \in Instance : Aged(r).age[i] =< r.age[i] + 1
<1> DEFINE ag == [i \in Instance |-> IF i \in r.known /\ r.age[i] <= Lease
                                     THEN r.age[i] + 1 ELSE r.age[i]]
<1>1. Aged(r) = [occupant |-> r.occupant, generation |-> r.generation, slotOf |-> r.slotOf,
                 known |-> r.known, age |-> ag]
  BY RegistryFields DEF Aged
<1>2. \A i \in Instance : r.age[i] \in 0 .. (Lease + 1)
  BY RegistryFields
<1>3. ag \in [Instance -> 0 .. (Lease + 1)] /\ \A i \in Instance : ag[i] =< r.age[i] + 1
  BY <1>2, LeaseAssumption
<1> HIDE DEF ag
<1> QED
  BY <1>1, <1>3, RegistryFields DEF Registry

-----------------------------------------------------------------------------
\* The inductive invariant

RestState ==
    [pc : {"idle", "claim", "accept", "take", "render"}, inst : Instance \cup {NoInstance},
     slot : Slot \cup {Overflow}]

LoopState ==
    [pc : {"start", "poll", "probe", "apply", "take", "render", "presses", "stopped"},
     todo : SUBSET Instance, cur : Instance \cup {NoInstance}, slot : Slot \cup {Overflow},
     states : Sessions]

Types ==
    /\ reg \in Registry
    /\ launches \in SUBSET Instance
    /\ rest \in [Worker -> RestState]
    /\ loop \in LoopState
    /\ db \in Sessions
    /\ proc \in [Instance -> {"none", "running", "exited"}]
    /\ \A w \in Worker : rest[w].pc \in {"claim", "accept", "take"} <=> rest[w].inst \in Instance
    /\ loop.pc \in {"apply", "take"} <=> loop.cur \in Instance

\* The launches the adapter has, or the main loop works on.
Handled == launches \cup loop.todo \cup {loop.cur}

HasNoKey(i) == \A s \in Slot : reg.occupant[s] # i

\* A launch that a POST registers is on record, heard of within its lease, on no
\* key, and nobody else's business.
Private(w) ==
    /\ rest[w].inst \in reg.known
    /\ reg.age[rest[w].inst] =< Lease
    /\ proc[rest[w].inst] = "running"
    /\ HasNoKey(rest[w].inst)
    /\ rest[w].inst \notin Handled
    /\ \A v \in Worker \ {w} : rest[v].inst # rest[w].inst

RegisteringIsPrivate == \A w \in Worker : rest[w].pc = "claim" => Private(w)

\* Nothing knows of a launch that does not exist yet.
UnbornIsUnknown ==
    \A i \in Instance : proc[i] = "none" =>
        /\ i \notin reg.known \cup Handled
        /\ HasNoKey(i)
        /\ \A w \in Worker : rest[w].inst # i

\* When the main loop sweeps, it has heard of every launch within its lease.
LaunchesAreHeard ==
    \A i \in launches : i \in reg.known /\ reg.age[i] > Lease =>
        \/ loop.pc = "poll"
        \/ loop.pc \in {"probe", "apply", "take"} /\ i \in loop.todo \cup {loop.cur}

IInv == Types /\ RegisteringIsPrivate /\ UnbornIsUnknown /\ LaunchesAreHeard

\* A launch that a snapshot registers again has no key: this needs that nobody
\* else registers it at the same time.
TakesAreFree ==
    /\ \A w \in Worker : rest[w].pc = "take" => HasNoKey(rest[w].inst)
    /\ loop.pc = "take" => HasNoKey(loop.cur)

Tidied == Tidy(reg) /\ TakesAreFree

\* What a step does to the keys, apart from what holds after it.
LaunchesKeepKeys ==
    \A i \in launches \cap launches', s \in Slot :
        reg.occupant[s] = i => reg'.occupant[s] = i \/ Overwritten(s)
StaysTidy == Tidied /\ RegisteredOnce => Tidied' /\ Passes(reg, reg')

Good == IInv' /\ LaunchesKeepKeys /\ StaysTidy

\* The step begins no second half of a snapshot's registration.
SameTakers ==
    /\ \A w \in Worker : rest'[w].pc = "take" => rest[w].pc = "take" /\ rest'[w].inst = rest[w].inst
    /\ loop'.pc = "take" => loop.pc = "take" /\ loop'.cur = loop.cur

LEMMA InvInit == Init => IInv /\ Tidied
<1> SUFFICES ASSUME Init PROVE IInv /\ Tidied
  OBVIOUS
<1>1. EmptyRegistry \in Registry
  BY LeaseAssumption DEF EmptyRegistry, Registry
<1>2. /\ Tidy(EmptyRegistry) /\ EmptyRegistry.known = {}
      /\ \A s \in Slot : EmptyRegistry.occupant[s] = NoInstance
  BY DEF EmptyRegistry, Tidy
<1>3. Types
  BY <1>1, SlotFacts, SessionsAssumption DEF Init, Types, RestState, LoopState, Idle, Waiting
<1>4. RegisteringIsPrivate /\ UnbornIsUnknown /\ LaunchesAreHeard /\ TakesAreFree
  BY <1>2, SlotFacts DEF Init, RegisteringIsPrivate, UnbornIsUnknown, LaunchesAreHeard, Handled,
                          Idle, Waiting, HasNoKey, TakesAreFree
<1> QED
  BY <1>1, <1>2, <1>3, <1>4 DEF Init, IInv, Tidied

\* A step that leaves the keys alone.
LEMMA KeysHeard ==
    ASSUME IInv, reg' \in Registry, reg'.occupant = reg.occupant,
           reg'.generation = reg.generation, reg'.slotOf = reg.slotOf,
           reg.known \subseteq reg'.known, SameTakers
    PROVE  LaunchesKeepKeys /\ StaysTidy
<1>1. Tidied => TakesAreFree'
  BY DEF Tidied, TakesAreFree, HasNoKey, SameTakers
<1>2. reg \in Registry
  BY DEF IInv, Types
<1>3. Tidied => Tidy(reg') /\ Passes(reg, reg')
  BY <1>2, HeardPasses DEF Tidied
<1>4. LaunchesKeepKeys
  BY DEF LaunchesKeepKeys
<1> QED
  BY <1>1, <1>3, <1>4 DEF StaysTidy, Tidied

LEMMA SameRegistry ==
    ASSUME IInv, reg' = reg, SameTakers
    PROVE  LaunchesKeepKeys /\ StaysTidy
<1>1. reg' \in Registry
  BY DEF IInv, Types
<1> QED
  BY <1>1, KeysHeard

\* A step that forgets launches the adapter does not keep.
LEMMA KeysFreed ==
    ASSUME IInv, NEW S \in SUBSET Instance, reg' = Freed(reg, S), S \cap launches' = {}, SameTakers
    PROVE  /\ LaunchesKeepKeys /\ StaysTidy
           /\ reg' \in Registry /\ reg'.known = reg.known \ S
           /\ \A i \in Instance : reg'.age[i] =< reg.age[i]
           /\ \A i \in Instance : HasNoKey(i) => HasNoKey(i)'
<1>1. reg \in Registry
  BY DEF IInv, Types
<1>2. /\ reg' \in Registry
      /\ Tidy(reg) => Tidy(reg') /\ Passes(reg, reg')
      /\ reg'.known = reg.known \ S
      /\ \A i \in Instance : reg'.age[i] =< reg.age[i]
      /\ \A t \in Slot : \/ reg'.occupant[t] = reg.occupant[t]
                         \/ reg.occupant[t] \in S /\ reg'.occupant[t] = NoInstance
  BY <1>1, FreedPasses
<1>3. \A i \in Instance : HasNoKey(i) => HasNoKey(i)'
  BY <1>2, SlotFacts DEF HasNoKey
<1>4. Tidied => TakesAreFree'
  <2>1. /\ \A w \in Worker : rest'[w].pc = "take" => rest[w].inst \in Instance
        /\ loop'.pc = "take" => loop.cur \in Instance
    BY DEF IInv, Types, SameTakers
  <2> QED
    BY <1>3, <2>1 DEF Tidied, TakesAreFree, SameTakers, HasNoKey
<1>5. LaunchesKeepKeys
  BY <1>2 DEF LaunchesKeepKeys
<1> QED
  BY <1>2, <1>3, <1>4, <1>5 DEF StaysTidy, Tidied

LEMMA Went ==
    ASSUME NEW w \in Worker, NEW pc, Go(w, pc)
    PROVE  rest' = [rest EXCEPT ![w] = [pc |-> pc, inst |-> NoInstance, slot |-> Overflow]]
<1>1. [Idle EXCEPT !.pc = pc] = [pc |-> pc, inst |-> NoInstance, slot |-> Overflow]
  BY DEF Idle
<1> QED
  BY <1>1 DEF Go

-----------------------------------------------------------------------------
\* REST calls

LEMMA StepRegister ==
    ASSUME IInv, NEW w \in Worker, NEW i \in Instance, Register(w, i)
    PROVE  Good
<1>1. /\ proc[i] = "none" /\ proc' = [proc EXCEPT ![i] = "running"]
      /\ reg' = Recorded(reg, i)
      /\ rest' = [rest EXCEPT ![w] = [pc |-> "claim", inst |-> i, slot |-> Choice(reg)]]
      /\ rest[w].pc = "idle" /\ UNCHANGED <<launches, db, loop>>
  <2>1. Fresh \in Unborn
    BY DEF Register, Fresh
  <2> QED
    BY <2>1 DEF Register, Call, At, Unborn
<1>2. /\ reg' \in Registry /\ reg'.occupant = reg.occupant /\ reg'.generation = reg.generation
      /\ reg'.slotOf = reg.slotOf /\ reg'.known = reg.known \cup {i}
      /\ reg'.age = [reg.age EXCEPT ![i] = 0]
  BY <1>1, RecordedIs DEF IInv, Types
<1>3. Choice(reg) \in Slot \cup {Overflow}
  BY ChoiceIs DEF IInv, Types
<1>4. Types'
  BY <1>1, <1>2, <1>3, SlotFacts DEF IInv, Types, RestState
<1>5. SameTakers
  BY <1>1 DEF IInv, Types, SameTakers
<1>6. LaunchesKeepKeys /\ StaysTidy
  BY <1>2, <1>5, KeysHeard
<1>7. RegisteringIsPrivate'
  <2> SUFFICES ASSUME NEW v \in Worker, rest'[v].pc = "claim" PROVE Private(v)'
    BY DEF RegisteringIsPrivate
  <2>1. i \notin reg.known \cup Handled /\ HasNoKey(i) /\ \A u \in Worker : rest[u].inst # i
    BY <1>1 DEF IInv, UnbornIsUnknown
  <2>2. CASE v = w
    <3>1. rest'[v].inst = i /\ \A u \in Worker \ {v} : rest'[u].inst # i
      BY <1>1, <2>1, <2>2 DEF IInv, Types
    <3>2. reg'.age[i] = 0 /\ HasNoKey(i)'
      BY <1>2, <2>1, RegistryFields DEF IInv, Types, HasNoKey
    <3> QED
      BY <1>1, <1>2, <2>1, <3>1, <3>2, LeaseAssumption DEF Private, Handled, IInv, Types, HasNoKey
  <2>3. CASE v # w
    <3>1. Private(v) /\ rest'[v] = rest[v] /\ rest[v].inst \in Instance
      BY <1>1, <2>3 DEF IInv, Types, RegisteringIsPrivate
    <3>2. rest[v].inst # i
      BY <2>1
    <3> QED
      BY <1>1, <1>2, <3>1, <3>2, RegistryFields DEF Private, Handled, IInv, Types, HasNoKey
  <2> QED
    BY <2>2, <2>3
<1>8. UnbornIsUnknown'
  BY <1>1, <1>2 DEF IInv, Types, UnbornIsUnknown, Handled, HasNoKey
<1>9. LaunchesAreHeard'
  BY <1>1, <1>2, LeaseAssumption, RegistryFields DEF IInv, Types, LaunchesAreHeard
<1> QED
  BY <1>4, <1>6, <1>7, <1>8, <1>9 DEF Good, IInv

LEMMA StepClaim ==
    ASSUME IInv, NEW w \in Worker, Claim(w)
    PROVE  Good
<1> DEFINE i == rest[w].inst
           s == rest[w].slot
<1>1. /\ rest[w].pc = "claim" /\ reg' = Claimed(reg, i, s)
      /\ launches' = launches \cup {i}
      /\ rest' = [rest EXCEPT ![w] = [pc |-> "render", inst |-> NoInstance, slot |-> Overflow]]
      /\ UNCHANGED <<proc, db, loop>>
  BY Went DEF Claim, At
<1>2. i \in Instance /\ s \in Slot \cup {Overflow} /\ Private(w)
  BY <1>1 DEF IInv, Types, RestState, RegisteringIsPrivate
<1>3. /\ reg' \in Registry
      /\ Tidy(reg) => Tidy(reg') /\ Passes(reg, reg')
      /\ reg'.known = reg.known /\ reg'.age = reg.age
      /\ \A t \in Slot : reg'.occupant[t] = reg.occupant[t] \/ (t = s /\ reg'.occupant[t] = i)
  BY <1>1, <1>2, ClaimedPasses DEF IInv, Types, Private, HasNoKey
<1> HIDE DEF i, s
<1>4. Types'
  BY <1>1, <1>2, <1>3, SlotFacts DEF IInv, Types, RestState
<1>5. LaunchesKeepKeys
  BY <1>1, <1>3 DEF LaunchesKeepKeys, Overwritten, s
<1>6. StaysTidy
  <2> SUFFICES ASSUME Tidied PROVE TakesAreFree'
    BY <1>3 DEF StaysTidy, Tidied
  <2>1. ASSUME NEW v \in Worker, rest'[v].pc = "take" PROVE HasNoKey(rest[v].inst)'
    <3>1. v # w /\ rest'[v] = rest[v] /\ rest[v].inst # i
      BY <1>1, <1>2, <2>1 DEF IInv, Types, Private, i
    <3> QED
      BY <1>1, <1>3, <2>1, <3>1 DEF Tidied, TakesAreFree, HasNoKey
  <2>2. loop'.pc = "take" => HasNoKey(loop.cur)'
    BY <1>1, <1>2, <1>3 DEF Tidied, TakesAreFree, HasNoKey, Private, Handled, i
  <2> QED
    BY <2>1, <2>2 DEF TakesAreFree, HasNoKey
<1>7. RegisteringIsPrivate'
  <2> SUFFICES ASSUME NEW v \in Worker, rest'[v].pc = "claim" PROVE Private(v)'
    BY DEF RegisteringIsPrivate
  <2>1. v # w /\ rest'[v] = rest[v]
    BY <1>1 DEF IInv, Types
  <2>2. Private(v) /\ rest[v].inst # i /\ rest[v].inst \in Instance
    BY <1>2, <2>1 DEF IInv, Types, RegisteringIsPrivate, Private, i
  <2>3. \A u \in Worker \ {v} : rest'[u].inst # rest'[v].inst
    BY <1>1, <2>1, <2>2, SlotFacts DEF Private, IInv, Types
  <2> QED
    BY <1>1, <1>3, <2>1, <2>2, <2>3 DEF Private, Handled, HasNoKey
<1>8. UnbornIsUnknown'
  BY <1>1, <1>2, <1>3, SlotFacts DEF IInv, Types, UnbornIsUnknown, Handled, Private, HasNoKey, i
<1>9. LaunchesAreHeard'
  BY <1>1, <1>2, <1>3, LeaseAssumption, RegistryFields
  DEF IInv, Types, LaunchesAreHeard, Private, i
<1> QED
  BY <1>4, <1>5, <1>6, <1>7, <1>8, <1>9 DEF Good, IInv

\* A call is for a launch that exists and is not being registered.
LEMMA RegistrableIs ==
    ASSUME IInv, NEW i \in Registrable
    PROVE  /\ i \in Instance /\ proc[i] # "none"
           /\ \A w \in Worker : rest[w].pc = "claim" => rest[w].inst # i
  BY DEF Registrable, Registering, At, IInv, Types

LEMMA StepDetach ==
    ASSUME IInv, NEW w \in Worker, NEW i \in Instance, Detach(w, i)
    PROVE  Good
<1>1. /\ rest[w].pc = "idle" /\ reg' = Freed(reg, {i}) /\ launches' = launches \ {i}
      /\ rest' = [rest EXCEPT ![w] = [pc |-> "render", inst |-> NoInstance, slot |-> Overflow]]
      /\ UNCHANGED <<proc, db, loop>> /\ i \in Registrable
  BY Went DEF Detach, Call, At
<1>2. SameTakers
  BY <1>1 DEF IInv, Types, SameTakers
<1>3. /\ LaunchesKeepKeys /\ StaysTidy
      /\ reg' \in Registry /\ reg'.known = reg.known \ {i}
      /\ \A j \in Instance : reg'.age[j] =< reg.age[j]
      /\ \A j \in Instance : HasNoKey(j) => HasNoKey(j)'
  BY <1>1, <1>2, KeysFreed
<1>4. Types'
  BY <1>1, <1>3, SlotFacts DEF IInv, Types, RestState
<1>5. \A j \in Instance : reg'.age[j] > Lease => reg.age[j] > Lease
  BY <1>3, AgesAreNumbers DEF IInv, Types
<1>6. RegisteringIsPrivate'
  <2> SUFFICES ASSUME NEW v \in Worker, rest'[v].pc = "claim" PROVE Private(v)'
    BY DEF RegisteringIsPrivate
  <2>1. v # w /\ rest'[v] = rest[v] /\ rest[v].inst # i
    BY <1>1, RegistrableIs DEF IInv, Types
  <2>2. Private(v) /\ rest[v].inst \in Instance
    BY <2>1 DEF IInv, Types, RegisteringIsPrivate
  <2>3. \A u \in Worker \ {v} : rest'[u].inst # rest'[v].inst
    BY <1>1, <2>1, <2>2, SlotFacts DEF Private, IInv, Types
  <2>4. reg'.age[rest[v].inst] =< Lease
    BY <1>3, <1>5, <2>2, AgesAreNumbers DEF Private, IInv, Types
  <2>5. HasNoKey(rest[v].inst)'
    BY <1>3, <2>1, <2>2 DEF Private, HasNoKey
  <2>6. rest[v].inst \notin Handled' /\ rest[v].inst \in reg'.known
    BY <1>1, <1>3, <2>1, <2>2 DEF Private, Handled
  <2> QED
    BY <1>1, <2>1, <2>2, <2>3, <2>4, <2>5, <2>6 DEF Private, HasNoKey
<1>7. UnbornIsUnknown'
  <2>1. \A j \in Instance : proc[j] = "none" => HasNoKey(j)'
    BY <1>3 DEF IInv, UnbornIsUnknown
  <2> QED
    BY <1>1, <1>3, <2>1, SlotFacts DEF IInv, Types, UnbornIsUnknown, Handled
<1>8. LaunchesAreHeard'
  BY <1>1, <1>3, <1>5 DEF IInv, Types, LaunchesAreHeard
<1> QED
  BY <1>3, <1>4, <1>6, <1>7, <1>8 DEF Good, IInv

\* A sign of life of a launch on record.
LEMMA HeardIs ==
    ASSUME IInv, NEW i \in Instance, reg' = Touched(reg, i), SameTakers
    PROVE  /\ LaunchesKeepKeys /\ StaysTidy
           /\ reg' \in Registry /\ reg'.known = reg.known
           /\ \A j \in Instance : reg'.age[j] =< reg.age[j]
           /\ reg'.age[i] = 0
           /\ \A j \in Instance : HasNoKey(j) => HasNoKey(j)'
<1>1. reg \in Registry
  BY DEF IInv, Types
<1>2. /\ reg' \in Registry /\ reg'.occupant = reg.occupant /\ reg'.generation = reg.generation
      /\ reg'.slotOf = reg.slotOf /\ reg'.known = reg.known
      /\ reg'.age = [reg.age EXCEPT ![i] = 0]
  BY <1>1, TouchedIs
<1>3. LaunchesKeepKeys /\ StaysTidy
  BY <1>2, KeysHeard
<1>4. reg.age \in [Instance -> 0 .. (Lease + 1)]
  BY <1>1, RegistryFields
<1>5. reg'.age[i] = 0 /\ \A j \in Instance : reg'.age[j] =< reg.age[j]
  BY <1>2, <1>4, LeaseAssumption
<1> QED
  BY <1>2, <1>3, <1>5 DEF HasNoKey

LEMMA StepBeat ==
    ASSUME IInv, NEW w \in Worker, NEW i \in Instance, Beat(w, i)
    PROVE  Good
<1>1. reg' = Heartbeat(reg, i) /\ UNCHANGED <<launches, rest, proc, db, loop>>
  BY DEF Beat
<1>2. SameTakers
  BY <1>1 DEF SameTakers
<1>3. CASE reg' = reg
  <2>1. IInv'
    BY <1>1, <1>3 DEF IInv, Types, RegisteringIsPrivate, Private, UnbornIsUnknown,
                      LaunchesAreHeard, Handled, HasNoKey
  <2> QED
    BY <1>2, <1>3, <2>1, SameRegistry DEF Good
<1>4. CASE reg' = Touched(reg, i)
  <2>1. /\ LaunchesKeepKeys /\ StaysTidy
        /\ reg' \in Registry /\ reg'.known = reg.known
        /\ \A j \in Instance : reg'.age[j] =< reg.age[j]
        /\ \A j \in Instance : HasNoKey(j) => HasNoKey(j)'
    BY <1>2, <1>4, HeardIs
  <2>2. Types'
    BY <1>1, <2>1 DEF IInv, Types
  <2>3. \A j \in Instance : reg'.age[j] > Lease => reg.age[j] > Lease
    BY <2>1, AgesAreNumbers DEF IInv, Types
  <2>4. RegisteringIsPrivate'
    <3> SUFFICES ASSUME NEW v \in Worker, rest'[v].pc = "claim" PROVE Private(v)'
      BY DEF RegisteringIsPrivate
    <3>1. Private(v) /\ rest'[v] = rest[v] /\ rest[v].inst \in Instance
      BY <1>1 DEF IInv, Types, RegisteringIsPrivate
    <3>2. reg'.age[rest[v].inst] =< Lease
      BY <2>1, <2>3, <3>1, AgesAreNumbers DEF Private, IInv, Types
    <3>3. HasNoKey(rest[v].inst)'
      BY <2>1, <3>1 DEF Private, HasNoKey
    <3> QED
      BY <1>1, <2>1, <3>1, <3>2, <3>3 DEF Private, Handled, HasNoKey
  <2>5. UnbornIsUnknown'
    <3>1. \A j \in Instance : proc[j] = "none" => HasNoKey(j)'
      BY <2>1 DEF IInv, UnbornIsUnknown
    <3> QED
      BY <1>1, <2>1, <3>1 DEF IInv, Types, UnbornIsUnknown, Handled
  <2>6. LaunchesAreHeard'
    BY <1>1, <2>1, <2>3 DEF IInv, Types, LaunchesAreHeard
  <2> QED
    BY <2>1, <2>2, <2>4, <2>5, <2>6 DEF Good, IInv
<1> QED
  BY <1>1, <1>3, <1>4 DEF Heartbeat

LEMMA StepPut ==
    ASSUME IInv, NEW w \in Worker, NEW i \in Instance, Put(w, i)
    PROVE  Good
<1>1. /\ rest[w].pc = "idle" /\ i \in launches
      /\ rest' = [rest EXCEPT ![w] = [pc |-> "accept", inst |-> i, slot |-> Overflow]]
      /\ UNCHANGED <<reg, launches, proc, db, loop>>
  BY DEF Put, Call, At
<1>2. Types'
  BY <1>1, SlotFacts DEF IInv, Types, RestState
<1>3. RegisteringIsPrivate'
  <2> SUFFICES ASSUME NEW v \in Worker, rest'[v].pc = "claim" PROVE Private(v)'
    BY DEF RegisteringIsPrivate
  <2>1. v # w /\ rest'[v] = rest[v] /\ Private(v)
    BY <1>1 DEF IInv, Types, RegisteringIsPrivate
  <2>2. \A u \in Worker \ {v} : rest'[u].inst # rest'[v].inst
    BY <1>1, <2>1 DEF Private, Handled, IInv, Types
  <2> QED
    BY <1>1, <2>1, <2>2 DEF Private, Handled, HasNoKey
<1>4. UnbornIsUnknown' /\ LaunchesAreHeard'
  BY <1>1 DEF IInv, Types, UnbornIsUnknown, LaunchesAreHeard, Handled, HasNoKey
<1>5. SameTakers
  BY <1>1 DEF IInv, Types, SameTakers
<1> QED
  BY <1>1, <1>2, <1>3, <1>4, <1>5, SameRegistry DEF Good, IInv

\* A snapshot of a launch on record.
LEMMA StepAccept ==
    ASSUME IInv, NEW w \in Worker, Accept(w)
    PROVE  Good
<1> DEFINE i == rest[w].inst
<1>1. /\ rest[w].pc = "accept" /\ (reg' = Touched(reg, i) \/ reg' = reg)
      /\ rest' = [rest EXCEPT ![w] = [pc |-> "render", inst |-> NoInstance, slot |-> Overflow]]
      /\ UNCHANGED <<launches, proc, db, loop>>
  <2>1. reg' = Touched(reg, i) \/ reg' = reg
    BY DEF Accept, Accepted
  <2> QED
    BY <2>1, Went DEF Accept, At
<1>2. i \in Instance /\ reg \in Registry
  BY <1>1 DEF IInv, Types
<1>3. SameTakers
  BY <1>1 DEF IInv, Types, SameTakers
<1> HIDE DEF i
<1>4. /\ LaunchesKeepKeys /\ StaysTidy
      /\ reg' \in Registry /\ reg'.known = reg.known
      /\ \A j \in Instance : reg'.age[j] =< reg.age[j]
      /\ \A j \in Instance : HasNoKey(j) => HasNoKey(j)'
  <2>1. CASE reg' = reg
    <3>1. \A j \in Instance : reg'.age[j] =< reg.age[j]
      BY <1>2, <2>1, AgesAreNumbers
    <3> QED
      BY <1>2, <1>3, <2>1, <3>1, SameRegistry DEF HasNoKey
  <2>2. CASE reg' = Touched(reg, i)
    BY <1>2, <1>3, <2>2, HeardIs
  <2> QED
    BY <1>1, <2>1, <2>2
<1>5. Types'
  BY <1>1, <1>4, SlotFacts DEF IInv, Types, RestState
<1>6. \A j \in Instance : reg'.age[j] > Lease => reg.age[j] > Lease
  BY <1>2, <1>4, AgesAreNumbers
<1>7. RegisteringIsPrivate'
  <2> SUFFICES ASSUME NEW v \in Worker, rest'[v].pc = "claim" PROVE Private(v)'
    BY DEF RegisteringIsPrivate
  <2>1. v # w /\ rest'[v] = rest[v]
    BY <1>1 DEF IInv, Types
  <2>2. Private(v) /\ rest[v].inst \in Instance
    BY <2>1 DEF IInv, Types, RegisteringIsPrivate
  <2>3. \A u \in Worker \ {v} : rest'[u].inst # rest'[v].inst
    BY <1>1, <2>1, <2>2, SlotFacts DEF Private, IInv, Types
  <2>4. reg'.age[rest[v].inst] =< Lease
    BY <1>2, <1>4, <1>6, <2>2, AgesAreNumbers DEF Private
  <2>5. HasNoKey(rest[v].inst)'
    BY <1>4, <2>1, <2>2 DEF Private, HasNoKey
  <2> QED
    BY <1>1, <1>4, <2>1, <2>2, <2>3, <2>4, <2>5 DEF Private, Handled, HasNoKey
<1>8. UnbornIsUnknown'
  <2>1. \A j \in Instance : proc[j] = "none" => HasNoKey(j)'
    BY <1>4 DEF IInv, UnbornIsUnknown
  <2> QED
    BY <1>1, <1>4, <2>1, SlotFacts DEF IInv, Types, UnbornIsUnknown, Handled
<1>9. LaunchesAreHeard'
  BY <1>1, <1>4, <1>6 DEF IInv, Types, LaunchesAreHeard
<1> QED
  BY <1>4, <1>5, <1>7, <1>8, <1>9 DEF Good, IInv

\* The search of a registration by a snapshot: the launch is on record, without
\* a key yet.
LEMMA SearchedIs ==
    ASSUME IInv, NEW i \in Instance, reg' = Recorded(reg, i)
    PROVE  /\ reg' \in Registry /\ reg'.known = reg.known \cup {i}
           /\ \A j \in Instance : reg'.age[j] = IF j = i THEN 0 ELSE reg.age[j]
           /\ LaunchesKeepKeys
           /\ \A j \in Instance : HasNoKey(j) => HasNoKey(j)'
           /\ Tidied => Tidy(reg') /\ Passes(reg, reg')
           /\ Tidied /\ i \notin reg.known => HasNoKey(i)
<1>1. reg \in Registry
  BY DEF IInv, Types
<1>2. /\ reg' \in Registry /\ reg'.occupant = reg.occupant /\ reg'.generation = reg.generation
      /\ reg'.slotOf = reg.slotOf /\ reg'.known = reg.known \cup {i}
      /\ reg'.age = [reg.age EXCEPT ![i] = 0]
  BY <1>1, RecordedIs
<1>3. \A j \in Instance : reg'.age[j] = IF j = i THEN 0 ELSE reg.age[j]
  BY <1>1, <1>2, RegistryFields
<1>4. Tidied => Tidy(reg') /\ Passes(reg, reg')
  BY <1>1, <1>2, HeardPasses DEF Tidied
<1>5. Tidied /\ i \notin reg.known => HasNoKey(i)
  BY SlotFacts DEF Tidied, Tidy, HasNoKey
<1> QED
  BY <1>2, <1>3, <1>4, <1>5 DEF LaunchesKeepKeys, HasNoKey

LEMMA StepReregister ==
    ASSUME IInv, NEW w \in Worker, Reregister(w)
    PROVE  Good
<1> DEFINE i == rest[w].inst
<1>1. /\ rest[w].pc = "accept" /\ i \notin reg.known /\ reg' = Recorded(reg, i)
      /\ rest' = [rest EXCEPT ![w].pc = "take", ![w].slot = Choice(reg)]
      /\ UNCHANGED <<launches, proc, db, loop>>
  BY DEF Reregister, At
<1>2. i \in Instance /\ Choice(reg) \in Slot \cup {Overflow} /\ rest \in [Worker -> RestState]
  BY <1>1, ChoiceIs DEF IInv, Types
<1>3. /\ rest'[w].pc = "take" /\ rest'[w] \in RestState
      /\ \A v \in Worker : rest'[v].inst = rest[v].inst /\ (v # w => rest'[v] = rest[v])
  BY <1>1, <1>2 DEF RestState
<1>4. rest' \in [Worker -> RestState]
  BY <1>1, <1>2, <1>3
<1> HIDE DEF i
<1>5. /\ reg' \in Registry /\ reg'.known = reg.known \cup {i}
      /\ \A j \in Instance : reg'.age[j] = IF j = i THEN 0 ELSE reg.age[j]
      /\ LaunchesKeepKeys
      /\ \A j \in Instance : HasNoKey(j) => HasNoKey(j)'
      /\ Tidied => Tidy(reg') /\ Passes(reg, reg')
      /\ Tidied /\ i \notin reg.known => HasNoKey(i)
  BY <1>1, <1>2, SearchedIs
<1>6. Types'
  <2>1. \A v \in Worker :
          rest'[v].pc \in {"claim", "accept", "take"} <=> rest'[v].inst \in Instance
    BY <1>1, <1>2, <1>3 DEF IInv, Types, i
  <2> QED
    BY <1>1, <1>4, <1>5, <2>1 DEF IInv, Types
<1>7. StaysTidy
  <2> SUFFICES ASSUME Tidied PROVE TakesAreFree'
    BY <1>5 DEF StaysTidy, Tidied
  <2>1. ASSUME NEW v \in Worker, rest'[v].pc = "take" PROVE HasNoKey(rest[v].inst)'
    <3>1. HasNoKey(rest[v].inst) /\ rest[v].inst \in Instance
      BY <1>1, <1>2, <1>3, <1>5, <2>1 DEF Tidied, TakesAreFree, IInv, Types, i
    <3> QED
      BY <1>3, <1>5, <3>1 DEF HasNoKey
  <2>2. ASSUME loop'.pc = "take" PROVE HasNoKey(loop.cur)'
    <3>1. HasNoKey(loop.cur) /\ loop.cur \in Instance
      BY <1>1, <2>2 DEF Tidied, TakesAreFree, IInv, Types
    <3> QED
      BY <1>1, <1>5, <3>1 DEF HasNoKey
  <2> QED
    BY <2>1, <2>2 DEF TakesAreFree
<1>8. RegisteringIsPrivate'
  <2> SUFFICES ASSUME NEW v \in Worker, rest'[v].pc = "claim" PROVE Private(v)'
    BY DEF RegisteringIsPrivate
  <2>1. v # w /\ rest'[v] = rest[v]
    BY <1>3
  <2>2. Private(v) /\ rest[v].inst \in Instance /\ rest[v].inst # i
    BY <2>1 DEF IInv, Types, RegisteringIsPrivate, Private, i
  <2>3. HasNoKey(rest[v].inst)'
    BY <1>5, <2>1, <2>2 DEF Private, HasNoKey
  <2>4. \A u \in Worker \ {v} : rest'[u].inst # rest'[v].inst
    BY <1>3, <2>1, <2>2 DEF Private
  <2>5. reg'.age[rest[v].inst] =< Lease /\ rest[v].inst \in reg'.known
    BY <1>5, <2>2 DEF Private
  <2>6. proc'[rest[v].inst] = "running" /\ rest[v].inst \notin Handled'
    BY <1>1, <2>2 DEF Private, Handled
  <2> QED
    BY <2>1, <2>3, <2>4, <2>5, <2>6 DEF Private, HasNoKey
<1>9. UnbornIsUnknown'
  <2>1. \A j \in Instance : proc[j] = "none" => HasNoKey(j)' /\ j # i
    BY <1>5 DEF IInv, UnbornIsUnknown, i
  <2> QED
    BY <1>1, <1>3, <1>5, <2>1 DEF IInv, Types, UnbornIsUnknown, Handled
<1>10. LaunchesAreHeard'
  <2>1. \A j \in Instance : reg'.age[j] > Lease => reg.age[j] > Lease /\ j # i
    BY <1>2, <1>5, LeaseAssumption
  <2> QED
    BY <1>1, <1>5, <2>1 DEF IInv, Types, LaunchesAreHeard
<1> QED
  BY <1>5, <1>6, <1>7, <1>8, <1>9, <1>10 DEF Good, IInv

\* The end of a registration by a snapshot.
LEMMA TakenIs ==
    ASSUME IInv, NEW i \in Instance, NEW s \in Slot \cup {Overflow},
           reg' = Recorded(Claimed(reg, i, s), i)
    PROVE  /\ reg' \in Registry /\ reg'.known = reg.known \cup {i}
           /\ \A j \in Instance : reg'.age[j] = IF j = i THEN 0 ELSE reg.age[j]
           /\ \A t \in Slot : reg'.occupant[t] = reg.occupant[t] \/ (t = s /\ reg'.occupant[t] = i)
           /\ \A j \in Instance : HasNoKey(j) /\ j # i => HasNoKey(j)'
           /\ Tidied /\ HasNoKey(i) => Tidy(reg') /\ Passes(reg, reg')
<1>1. reg \in Registry
  BY DEF IInv, Types
<1>2. /\ reg' \in Registry /\ reg'.known = reg.known \cup {i}
      /\ reg'.age = [reg.age EXCEPT ![i] = 0]
      /\ \A t \in Slot : reg'.occupant[t] = reg.occupant[t] \/ (t = s /\ reg'.occupant[t] = i)
      /\ Tidy(reg) /\ (\A t \in Slot : reg.occupant[t] # i) => Tidy(reg') /\ Passes(reg, reg')
  BY <1>1, TakenPasses
<1>3. \A j \in Instance : reg'.age[j] = IF j = i THEN 0 ELSE reg.age[j]
  BY <1>1, <1>2, RegistryFields
<1> QED
  BY <1>2, <1>3 DEF HasNoKey, Tidied

LEMMA StepTake ==
    ASSUME IInv, NEW w \in Worker, Take(w)
    PROVE  Good
<1> DEFINE i == rest[w].inst
           s == rest[w].slot
<1>1. /\ rest[w].pc = "take" /\ reg' = Recorded(Claimed(reg, i, s), i)
      /\ rest' = [rest EXCEPT ![w] = [pc |-> "render", inst |-> NoInstance, slot |-> Overflow]]
      /\ UNCHANGED <<launches, proc, db, loop>>
  BY Went DEF Take, At
<1>2. i \in Instance /\ s \in Slot \cup {Overflow}
  BY <1>1 DEF IInv, Types, RestState
<1> HIDE DEF i, s
<1>3. /\ reg' \in Registry /\ reg'.known = reg.known \cup {i}
      /\ \A j \in Instance : reg'.age[j] = IF j = i THEN 0 ELSE reg.age[j]
      /\ \A t \in Slot : reg'.occupant[t] = reg.occupant[t] \/ (t = s /\ reg'.occupant[t] = i)
      /\ \A j \in Instance : HasNoKey(j) /\ j # i => HasNoKey(j)'
      /\ Tidied /\ HasNoKey(i) => Tidy(reg') /\ Passes(reg, reg')
  BY <1>1, <1>2, TakenIs
<1>4. Types'
  BY <1>1, <1>3, SlotFacts DEF IInv, Types, RestState
<1>5. LaunchesKeepKeys
  BY <1>1, <1>3 DEF LaunchesKeepKeys, Overwritten, s
<1>6. StaysTidy
  <2> SUFFICES ASSUME Tidied, RegisteredOnce PROVE Tidied' /\ Passes(reg, reg')
    BY DEF StaysTidy
  <2>1. Tidy(reg') /\ Passes(reg, reg')
    BY <1>1, <1>3 DEF Tidied, TakesAreFree, i
  <2>2. ASSUME NEW v \in Worker, rest'[v].pc = "take" PROVE HasNoKey(rest[v].inst)'
    <3>1. v # w /\ rest'[v] = rest[v]
      BY <1>1, <2>2 DEF IInv, Types
    <3>2. rest[v].inst # i /\ rest[v].inst \in Instance /\ HasNoKey(rest[v].inst)
      BY <1>1, <2>2, <3>1 DEF RegisteredOnce, At, Tidied, TakesAreFree, IInv, Types, i
    <3> QED
      BY <1>3, <3>1, <3>2 DEF HasNoKey
  <2>3. ASSUME loop'.pc = "take" PROVE HasNoKey(loop.cur)'
    <3>1. loop.cur # i /\ loop.cur \in Instance /\ HasNoKey(loop.cur)
      BY <1>1, <2>3 DEF RegisteredOnce, At, Tidied, TakesAreFree, IInv, Types, i
    <3> QED
      BY <1>1, <1>3, <3>1 DEF HasNoKey
  <2> QED
    BY <2>1, <2>2, <2>3 DEF Tidied, TakesAreFree
<1>7. RegisteringIsPrivate'
  <2> SUFFICES ASSUME NEW v \in Worker, rest'[v].pc = "claim" PROVE Private(v)'
    BY DEF RegisteringIsPrivate
  <2>1. v # w /\ rest'[v] = rest[v]
    BY <1>1 DEF IInv, Types
  <2>2. Private(v) /\ rest[v].inst \in Instance /\ rest[v].inst # i
    BY <2>1 DEF IInv, Types, RegisteringIsPrivate, Private, i
  <2>3. HasNoKey(rest[v].inst)'
    BY <1>3, <2>1, <2>2 DEF Private, HasNoKey
  <2>4. \A u \in Worker \ {v} : rest'[u].inst # rest'[v].inst
    BY <1>1, <2>1, <2>2, SlotFacts DEF Private, IInv, Types
  <2> QED
    BY <1>1, <1>3, <2>1, <2>2, <2>3, <2>4 DEF Private, Handled, HasNoKey
<1>8. UnbornIsUnknown'
  <2>1. \A j \in Instance : proc[j] = "none" => HasNoKey(j)' /\ j # i
    BY <1>3 DEF IInv, UnbornIsUnknown, i
  <2> QED
    BY <1>1, <1>3, <2>1, SlotFacts DEF IInv, Types, UnbornIsUnknown, Handled
<1>9. LaunchesAreHeard'
  <2>1. \A j \in Instance : reg'.age[j] > Lease => reg.age[j] > Lease /\ j # i
    BY <1>2, <1>3, LeaseAssumption
  <2> QED
    BY <1>1, <1>3, <2>1 DEF IInv, Types, LaunchesAreHeard
<1> QED
  BY <1>4, <1>5, <1>6, <1>7, <1>8, <1>9 DEF Good, IInv

LEMMA StepRestRender ==
    ASSUME IInv, NEW w \in Worker, RestRender(w)
    PROVE  Good
<1>1. /\ rest[w].pc = "render" /\ UNCHANGED <<reg, launches, proc, db, loop>>
      /\ rest' = [rest EXCEPT ![w] = [pc |-> "idle", inst |-> NoInstance, slot |-> Overflow]]
  BY Went DEF RestRender, At
<1>2. Types'
  BY <1>1, SlotFacts DEF IInv, Types, RestState
<1>3. RegisteringIsPrivate'
  <2> SUFFICES ASSUME NEW v \in Worker, rest'[v].pc = "claim" PROVE Private(v)'
    BY DEF RegisteringIsPrivate
  <2>1. v # w /\ rest'[v] = rest[v] /\ Private(v) /\ rest[v].inst \in Instance
    BY <1>1 DEF IInv, Types, RegisteringIsPrivate
  <2>2. \A u \in Worker \ {v} : rest'[u].inst # rest'[v].inst
    BY <1>1, <2>1, SlotFacts DEF Private, IInv, Types
  <2> QED
    BY <1>1, <2>1, <2>2 DEF Private, Handled, HasNoKey
<1>4. UnbornIsUnknown' /\ LaunchesAreHeard'
  BY <1>1, SlotFacts DEF IInv, Types, UnbornIsUnknown, LaunchesAreHeard, Handled, HasNoKey
<1>5. SameTakers
  BY <1>1 DEF IInv, Types, SameTakers
<1> QED
  BY <1>1, <1>2, <1>3, <1>4, <1>5, SameRegistry DEF Good, IInv

-----------------------------------------------------------------------------
\* The main loop

LEMMA StepObserve == ASSUME IInv, Observe PROVE Good
<1>1. /\ loop.pc = "poll" /\ UNCHANGED <<reg, launches, proc, db, rest>>
      /\ loop' = [loop EXCEPT !.pc = "probe", !.todo = launches, !.states = db]
  BY DEF Observe
<1>2. /\ loop' \in LoopState /\ loop'.pc = "probe" /\ loop'.todo = launches
      /\ loop'.cur = loop.cur /\ loop.cur \notin Instance
  BY <1>1 DEF IInv, Types, LoopState
<1>3. Types' /\ Handled' \subseteq Handled
  BY <1>1, <1>2 DEF IInv, Types, Handled
<1>4. RegisteringIsPrivate' /\ UnbornIsUnknown'
  BY <1>1, <1>3 DEF IInv, Types, RegisteringIsPrivate, Private, UnbornIsUnknown, HasNoKey
<1>5. LaunchesAreHeard' /\ SameTakers
  BY <1>1, <1>2 DEF IInv, Types, LaunchesAreHeard, SameTakers
<1> QED
  BY <1>1, <1>3, <1>4, <1>5, SameRegistry DEF Good, IInv

LEMMA StepProbeDead == ASSUME IInv, NEW i \in Instance, ProbeDead(i) PROVE Good
<1>1. /\ loop.pc = "probe" /\ i \in loop.todo /\ UNCHANGED <<rest, proc, db>>
      /\ launches' = launches \ {i} /\ reg' = Freed(reg, {i})
      /\ loop' = [loop EXCEPT !.todo = @ \ {i}]
  BY DEF ProbeDead
<1>2. SameTakers
  BY <1>1 DEF IInv, Types, LoopState, SameTakers
<1>3. /\ LaunchesKeepKeys /\ StaysTidy
      /\ reg' \in Registry /\ reg'.known = reg.known \ {i}
      /\ \A j \in Instance : reg'.age[j] =< reg.age[j]
      /\ \A j \in Instance : HasNoKey(j) => HasNoKey(j)'
  BY <1>1, <1>2, KeysFreed
<1>4. Types' /\ Handled' \subseteq Handled
  BY <1>1, <1>3 DEF IInv, Types, LoopState, Handled
<1>5. \A j \in Instance : reg'.age[j] > Lease => reg.age[j] > Lease
  BY <1>3, AgesAreNumbers DEF IInv, Types
<1>6. RegisteringIsPrivate'
  <2> SUFFICES ASSUME NEW v \in Worker, rest'[v].pc = "claim" PROVE Private(v)'
    BY DEF RegisteringIsPrivate
  <2>1. rest'[v] = rest[v] /\ Private(v) /\ rest[v].inst \in Instance
    BY <1>1 DEF IInv, Types, RegisteringIsPrivate
  <2>2. rest[v].inst # i
    BY <1>1, <2>1 DEF Private, Handled
  <2>3. reg'.age[rest[v].inst] =< Lease
    BY <1>3, <1>5, <2>1, AgesAreNumbers DEF Private, IInv, Types
  <2>4. HasNoKey(rest[v].inst)'
    BY <1>3, <2>1 DEF Private, HasNoKey
  <2> QED
    BY <1>1, <1>3, <1>4, <2>1, <2>2, <2>3, <2>4 DEF Private, HasNoKey
<1>7. UnbornIsUnknown'
  <2>1. \A j \in Instance : proc[j] = "none" => HasNoKey(j)'
    BY <1>3 DEF IInv, UnbornIsUnknown
  <2> QED
    BY <1>1, <1>3, <1>4, <2>1 DEF IInv, Types, UnbornIsUnknown
<1>8. LaunchesAreHeard'
  BY <1>1, <1>3, <1>5 DEF IInv, Types, LaunchesAreHeard, LoopState
<1> QED
  BY <1>3, <1>4, <1>6, <1>7, <1>8 DEF Good, IInv

LEMMA StepProbeAlive == ASSUME IInv, NEW i \in Instance, ProbeAlive(i) PROVE Good
<1>1. /\ loop.pc = "probe" /\ i \in loop.todo /\ UNCHANGED <<reg, launches, rest, proc, db>>
      /\ loop' = [loop EXCEPT !.pc = "apply", !.todo = @ \ {i}, !.cur = i]
  BY DEF ProbeAlive
<1>2. Types' /\ Handled' \subseteq Handled
  BY <1>1 DEF IInv, Types, LoopState, Handled
<1>3. RegisteringIsPrivate' /\ UnbornIsUnknown'
  BY <1>1, <1>2 DEF IInv, Types, RegisteringIsPrivate, Private, UnbornIsUnknown, HasNoKey
<1>4. LaunchesAreHeard' /\ SameTakers
  BY <1>1 DEF IInv, Types, LaunchesAreHeard, LoopState, SameTakers
<1> QED
  BY <1>1, <1>2, <1>3, <1>4, SameRegistry DEF Good, IInv

\* What a step of the main loop on a launch leaves of the invariant, given what
\* it does to the registry.
LEMMA LaunchWorkedOn ==
    ASSUME IInv, loop.pc \in {"apply", "take"}, UNCHANGED <<launches, rest, proc, db>>,
           loop' \in LoopState, loop'.todo = loop.todo,
           loop'.pc \in {"probe", "take"},
           loop'.cur = IF loop'.pc = "take" THEN loop.cur ELSE NoInstance,
           reg' \in Registry, reg'.known \ {loop.cur} = reg.known \ {loop.cur},
           \A j \in Instance : reg'.age[j] = IF j = loop.cur THEN 0 ELSE reg.age[j],
           \A j \in Instance : HasNoKey(j) /\ j # loop.cur => HasNoKey(j)'
    PROVE  IInv'
<1> DEFINE i == loop.cur
<1>1. i \in Instance /\ proc[i] # "none" /\ reg \in Registry
  BY DEF IInv, Types, UnbornIsUnknown, Handled
<1>2. \A v \in Worker : rest[v].pc = "claim" => rest[v].inst # i
  BY DEF IInv, RegisteringIsPrivate, Private, Handled
<1>3. Types'
  BY <1>1, SlotFacts DEF IInv, Types
<1>4. Handled' \subseteq Handled \cup {NoInstance}
  BY DEF Handled
<1> HIDE DEF i
<1>5. RegisteringIsPrivate'
  <2> SUFFICES ASSUME NEW v \in Worker, rest'[v].pc = "claim" PROVE Private(v)'
    BY DEF RegisteringIsPrivate
  <2>1. /\ rest'[v] = rest[v] /\ Private(v) /\ rest[v].inst \in Instance
        /\ rest[v].inst # loop.cur
    BY <1>2 DEF IInv, Types, RegisteringIsPrivate, i
  <2>2. reg'.age[rest[v].inst] =< Lease /\ rest[v].inst \in reg'.known
    BY <2>1 DEF Private
  <2>3. HasNoKey(rest[v].inst)'
    BY <2>1 DEF Private, HasNoKey
  <2>4. rest[v].inst \notin Handled'
    BY <1>4, <2>1, SlotFacts DEF Private
  <2> QED
    BY <2>1, <2>2, <2>3, <2>4 DEF Private, HasNoKey
<1>6. UnbornIsUnknown'
  <2>1. \A j \in Instance : proc[j] = "none" => HasNoKey(j)' /\ j # loop.cur
    BY <1>1 DEF IInv, UnbornIsUnknown, i
  <2> QED
    BY <1>4, <2>1, SlotFacts DEF IInv, Types, UnbornIsUnknown
<1>7. LaunchesAreHeard'
  <2>1. \A j \in Instance : reg'.age[j] > Lease => reg.age[j] > Lease /\ j # loop.cur
    BY LeaseAssumption
  <2> QED
    BY <2>1 DEF IInv, Types, LaunchesAreHeard
<1> QED
  BY <1>3, <1>5, <1>6, <1>7 DEF IInv

LEMMA StepApply == ASSUME IInv, Apply PROVE Good
<1> DEFINE i == loop.cur
<1>1. loop.pc = "apply" /\ UNCHANGED <<launches, rest, proc, db>>
  BY DEF Apply
<1>2. i \in Instance /\ reg \in Registry /\ loop \in LoopState
  BY <1>1 DEF IInv, Types
<1>3. CASE /\ reg' = Touched(reg, i)
           /\ loop' = [loop EXCEPT !.pc = "probe", !.cur = NoInstance]
  <2>1. /\ loop' \in LoopState /\ loop'.todo = loop.todo /\ loop'.pc = "probe"
        /\ loop'.cur = NoInstance
    BY <1>2, <1>3 DEF LoopState
  <2>2. SameTakers
    BY <1>1, <2>1 DEF SameTakers
  <2>3. LaunchesKeepKeys /\ StaysTidy
    BY <1>2, <1>3, <2>2, HeardIs
  <2>4. /\ reg' \in Registry /\ reg'.known = reg.known /\ reg'.occupant = reg.occupant
        /\ reg'.age = [reg.age EXCEPT ![i] = 0]
    BY <1>2, <1>3, TouchedIs
  <2>5. \A j \in Instance : reg'.age[j] = IF j = i THEN 0 ELSE reg.age[j]
    BY <1>2, <2>4, RegistryFields
  <2>6. \A j \in Instance : HasNoKey(j) => HasNoKey(j)'
    BY <2>4 DEF HasNoKey
  <2>7. IInv'
    BY <1>1, <2>1, <2>4, <2>5, <2>6, LaunchWorkedOn
  <2> QED
    BY <2>3, <2>7 DEF Good
<1>4. CASE /\ i \notin reg.known
           /\ reg' = Recorded(reg, i)
           /\ loop' = [loop EXCEPT !.pc = "take", !.slot = Choice(reg)]
  <2>1. /\ loop' \in LoopState /\ loop'.todo = loop.todo /\ loop'.pc = "take"
        /\ loop'.cur = i
    BY <1>2, <1>4, ChoiceIs DEF LoopState
  <2>2. /\ reg' \in Registry /\ reg'.known = reg.known \cup {i}
        /\ \A j \in Instance : reg'.age[j] = IF j = i THEN 0 ELSE reg.age[j]
        /\ LaunchesKeepKeys
        /\ \A j \in Instance : HasNoKey(j) => HasNoKey(j)'
        /\ Tidied => Tidy(reg') /\ Passes(reg, reg')
        /\ Tidied /\ i \notin reg.known => HasNoKey(i)
    BY <1>2, <1>4, SearchedIs
  <2>3. IInv'
    BY <1>1, <2>1, <2>2, LaunchWorkedOn
  <2>4. StaysTidy
    <3> SUFFICES ASSUME Tidied PROVE TakesAreFree'
      BY <2>2 DEF StaysTidy, Tidied
    <3>1. ASSUME NEW v \in Worker, rest'[v].pc = "take" PROVE HasNoKey(rest[v].inst)'
      <4>1. HasNoKey(rest[v].inst) /\ rest[v].inst \in Instance
        BY <1>1, <3>1 DEF Tidied, TakesAreFree, IInv, Types
      <4> QED
        BY <1>1, <2>2, <4>1 DEF HasNoKey
    <3>2. HasNoKey(loop.cur)'
      BY <1>2, <1>4, <2>1, <2>2 DEF HasNoKey
    <3> QED
      BY <3>1, <3>2 DEF TakesAreFree
  <2> QED
    BY <2>2, <2>3, <2>4 DEF Good
<1> QED
  BY <1>3, <1>4 DEF Apply, Accepted

LEMMA StepMainTake == ASSUME IInv, MainTake PROVE Good
<1> DEFINE i == loop.cur
           s == loop.slot
<1>1. /\ loop.pc = "take" /\ UNCHANGED <<launches, rest, proc, db>>
      /\ reg' = Recorded(Claimed(reg, i, s), i)
      /\ loop' = [loop EXCEPT !.pc = "probe", !.cur = NoInstance, !.slot = Overflow]
  BY DEF MainTake
<1>2. i \in Instance /\ s \in Slot \cup {Overflow} /\ loop \in LoopState
  BY <1>1 DEF IInv, Types, LoopState
<1>3. /\ loop' \in LoopState /\ loop'.todo = loop.todo /\ loop'.pc = "probe"
      /\ loop'.cur = NoInstance
  BY <1>1, <1>2 DEF LoopState
<1>4. /\ reg' \in Registry /\ reg'.known = reg.known \cup {i}
      /\ \A j \in Instance : reg'.age[j] = IF j = i THEN 0 ELSE reg.age[j]
      /\ \A t \in Slot : reg'.occupant[t] = reg.occupant[t] \/ (t = s /\ reg'.occupant[t] = i)
      /\ \A j \in Instance : HasNoKey(j) /\ j # i => HasNoKey(j)'
      /\ Tidied /\ HasNoKey(i) => Tidy(reg') /\ Passes(reg, reg')
  BY <1>1, <1>2, TakenIs
<1>5. IInv'
  BY <1>1, <1>3, <1>4, LaunchWorkedOn
<1>6. LaunchesKeepKeys
  BY <1>1, <1>4 DEF LaunchesKeepKeys, Overwritten
<1>7. StaysTidy
  <2> SUFFICES ASSUME Tidied, RegisteredOnce PROVE Tidied' /\ Passes(reg, reg')
    BY DEF StaysTidy
  <2>1. Tidy(reg') /\ Passes(reg, reg')
    BY <1>1, <1>4 DEF Tidied, TakesAreFree
  <2>2. ASSUME NEW v \in Worker, rest'[v].pc = "take" PROVE HasNoKey(rest[v].inst)'
    <3>1. rest[v].inst # i /\ rest[v].inst \in Instance /\ HasNoKey(rest[v].inst)
      BY <1>1, <2>2 DEF RegisteredOnce, At, Tidied, TakesAreFree, IInv, Types
    <3> QED
      BY <1>1, <1>4, <3>1 DEF HasNoKey
  <2> QED
    BY <1>3, <2>1, <2>2 DEF Tidied, TakesAreFree
<1> QED
  BY <1>5, <1>6, <1>7 DEF Good

\* The sweep takes only launches the adapter no longer has.
LEMMA StepSweep == ASSUME IInv, Sweep PROVE Good
<1> DEFINE S == Expired(reg)
<1>1. /\ loop.pc = "probe" /\ loop.todo = {} /\ UNCHANGED <<launches, rest, proc, db>>
      /\ reg' = Freed(reg, S)
      /\ loop' = [pc |-> "render", todo |-> {}, cur |-> NoInstance, slot |-> Overflow,
                  states |-> "idle"]
  BY DEF Sweep, Swept, Waiting
<1>2. reg \in Registry /\ S \in SUBSET Instance
  BY RegistryFields DEF IInv, Types, Expired
<1>3. \A i \in launches : i \notin S
  BY <1>1 DEF IInv, Types, LaunchesAreHeard, Expired, LoopState
<1>4. \A w \in Worker : rest[w].pc = "claim" => rest[w].inst \notin S
  <2>1. ASSUME NEW w \in Worker, rest[w].pc = "claim", rest[w].inst \in S PROVE FALSE
    <3>1. reg.age[rest[w].inst] =< Lease /\ rest[w].inst \in Instance
      BY <2>1 DEF IInv, Types, RegisteringIsPrivate, Private
    <3> QED
      BY <1>2, <2>1, <3>1, AgesAreNumbers DEF Expired
  <2> QED
    BY <2>1
<1> HIDE DEF S
<1>5. SameTakers /\ S \cap launches' = {}
  BY <1>1, <1>3 DEF SameTakers
<1>6. /\ LaunchesKeepKeys /\ StaysTidy
      /\ reg' \in Registry /\ reg'.known = reg.known \ S
      /\ \A j \in Instance : reg'.age[j] =< reg.age[j]
      /\ \A j \in Instance : HasNoKey(j) => HasNoKey(j)'
  BY <1>1, <1>2, <1>5, KeysFreed
<1>7. Types' /\ Handled' \subseteq Handled \cup {NoInstance}
  BY <1>1, <1>6, SlotFacts, SessionsAssumption DEF IInv, Types, LoopState, Handled
<1>8. \A j \in Instance : reg'.age[j] > Lease => reg.age[j] > Lease
  BY <1>2, <1>6, AgesAreNumbers
<1>9. RegisteringIsPrivate'
  <2> SUFFICES ASSUME NEW v \in Worker, rest'[v].pc = "claim" PROVE Private(v)'
    BY DEF RegisteringIsPrivate
  <2>1. /\ rest'[v] = rest[v] /\ Private(v) /\ rest[v].inst \in Instance
        /\ rest[v].inst \notin S
    BY <1>1, <1>4 DEF IInv, Types, RegisteringIsPrivate
  <2>2. reg'.age[rest[v].inst] =< Lease
    BY <1>2, <1>6, <1>8, <2>1, AgesAreNumbers DEF Private
  <2>3. HasNoKey(rest[v].inst)'
    BY <1>6, <2>1 DEF Private, HasNoKey
  <2>4. rest[v].inst \notin Handled'
    BY <1>7, <2>1, SlotFacts DEF Private
  <2> QED
    BY <1>1, <1>6, <2>1, <2>2, <2>3, <2>4 DEF Private, HasNoKey
<1>10. UnbornIsUnknown'
  <2>1. \A j \in Instance : proc[j] = "none" => HasNoKey(j)'
    BY <1>6 DEF IInv, UnbornIsUnknown
  <2> QED
    BY <1>1, <1>6, <1>7, <2>1, SlotFacts DEF IInv, Types, UnbornIsUnknown
<1>11. LaunchesAreHeard'
  BY <1>1, <1>3, <1>6, <1>8 DEF IInv, Types, LaunchesAreHeard, LoopState
<1> QED
  BY <1>6, <1>7, <1>9, <1>10, <1>11 DEF Good, IInv

LEMMA StepSleep == ASSUME IInv, Sleep PROVE Good
<1>1. /\ loop.pc = "presses" /\ UNCHANGED <<launches, rest, proc, db>> /\ reg' = Aged(reg)
      /\ loop' = [loop EXCEPT !.pc = "poll"]
      /\ \A w \in Worker : rest[w].pc = "claim" => reg.age[rest[w].inst] < Lease
  <2>1. \A w \in Worker : rest[w].pc = "claim" => rest[w].inst \in Registering
    BY DEF IInv, Types, Registering, At
  <2> QED
    BY <2>1 DEF Sleep, Loop
<1>2. /\ reg' \in Registry /\ reg'.occupant = reg.occupant /\ reg'.generation = reg.generation
      /\ reg'.slotOf = reg.slotOf /\ reg'.known = reg.known
      /\ \A i \in Instance : reg'.age[i] =< reg.age[i] + 1
  BY <1>1, AgedIs DEF IInv, Types
<1>3. Types' /\ Handled' = Handled
  BY <1>1, <1>2 DEF IInv, Types, LoopState, Handled
<1>4. SameTakers
  BY <1>1 DEF IInv, Types, LoopState, SameTakers
<1>5. LaunchesKeepKeys /\ StaysTidy
  BY <1>2, <1>4, KeysHeard
<1>6. RegisteringIsPrivate'
  <2> SUFFICES ASSUME NEW v \in Worker, rest'[v].pc = "claim" PROVE Private(v)'
    BY DEF RegisteringIsPrivate
  <2>1. rest'[v] = rest[v] /\ Private(v) /\ rest[v].inst \in Instance
    BY <1>1 DEF IInv, Types, RegisteringIsPrivate
  <2>2. reg'.age[rest[v].inst] =< Lease
    <3>1. reg \in Registry /\ reg.age[rest[v].inst] < Lease
      BY <1>1, <2>1 DEF IInv, Types
    <3> QED
      BY <1>2, <2>1, <3>1, AgesAreNumbers
  <2> QED
    BY <1>1, <1>2, <1>3, <2>1, <2>2 DEF Private, HasNoKey
<1>7. UnbornIsUnknown'
  BY <1>1, <1>2, <1>3 DEF IInv, Types, UnbornIsUnknown, HasNoKey
<1>8. LaunchesAreHeard'
  BY <1>1 DEF IInv, Types, LaunchesAreHeard, LoopState
<1> QED
  BY <1>3, <1>5, <1>6, <1>7, <1>8 DEF Good, IInv

\* The steps that only touch the keys, the presses, the database or the place
\* of the main loop.
LEMMA StepElsewhere ==
    ASSUME IInv, UNCHANGED <<reg, launches>>,
           UNCHANGED rest \/ rest' = [w \in Worker |-> Idle],
           loop' \in LoopState, loop'.cur = loop.cur, loop'.todo = loop.todo,
           loop'.pc = loop.pc \/ loop.pc \in {"start", "render", "presses"},
           loop'.pc \in {"apply", "take"} => loop.pc = loop'.pc,
           db' \in Sessions,
           proc' \in [Instance -> {"none", "running", "exited"}],
           \A i \in Instance : proc[i] = proc'[i] \/ (i \notin Registering /\ proc'[i] = "exited")
    PROVE  Good
<1>1. Idle = [pc |-> "idle", inst |-> NoInstance, slot |-> Overflow]
  BY DEF Idle
<1>2. Types'
  BY <1>1, SlotFacts DEF IInv, Types, RestState
<1>3. RegisteringIsPrivate'
  <2> SUFFICES ASSUME NEW v \in Worker, rest'[v].pc = "claim" PROVE Private(v)'
    BY DEF RegisteringIsPrivate
  <2>1. UNCHANGED rest
    BY <1>1
  <2>2. Private(v) /\ rest[v].inst \in Instance /\ rest[v].inst \in Registering
    BY <2>1 DEF IInv, Types, RegisteringIsPrivate, Registering, At
  <2> QED
    BY <2>1, <2>2 DEF Private, Handled, HasNoKey
<1>4. UnbornIsUnknown'
  BY <1>1, SlotFacts DEF IInv, Types, UnbornIsUnknown, Handled, HasNoKey
<1>5. LaunchesAreHeard'
  BY DEF IInv, Types, LaunchesAreHeard
<1>6. SameTakers
  BY <1>1 DEF SameTakers
<1> QED
  BY <1>2, <1>3, <1>4, <1>5, <1>6, SameRegistry DEF Good, IInv

LEMMA LoopMoves ==
    ASSUME loop \in LoopState, NEW pc \in {"poll", "presses", "stopped"}, Loop(pc)
    PROVE  loop' \in LoopState /\ loop'.pc = pc /\ loop'.cur = loop.cur /\ loop'.todo = loop.todo
  BY DEF Loop, LoopState

LEMMA StepWorld ==
    ASSUME IInv,
           \/ Start \/ MainRender \/ HandlePress \/ Stop \/ SessionChanges
           \/ \E s \in Slot : OnKey(s)
           \/ \E i \in Instance : Exit(i)
    PROVE  Good
<1>1. /\ loop \in LoopState /\ db \in Sessions /\ rest \in [Worker -> RestState]
      /\ proc \in [Instance -> {"none", "running", "exited"}]
  BY DEF IInv, Types
<1>2. CASE Start \/ MainRender \/ Stop
  <2>1. /\ UNCHANGED <<reg, launches, proc, db>>
        /\ UNCHANGED rest \/ rest' = [w \in Worker |-> Idle]
        /\ loop.pc \in {"start", "render", "presses"}
        /\ Loop("poll") \/ Loop("stopped") \/ Loop("presses")
    BY <1>2 DEF Start, MainRender, Stop
  <2>2. /\ loop' \in LoopState /\ loop'.pc \in {"poll", "stopped", "presses"}
        /\ loop'.cur = loop.cur /\ loop'.todo = loop.todo
    BY <1>1, <2>1, LoopMoves
  <2> QED
    BY <1>1, <2>1, <2>2, StepElsewhere
<1>3. CASE HandlePress \/ SessionChanges \/ \E s \in Slot : OnKey(s)
  <2>1. UNCHANGED <<reg, launches, proc, rest, loop>> /\ db' \in Sessions
    BY <1>1, <1>3 DEF HandlePress, SessionChanges, OnKey
  <2> QED
    BY <1>1, <2>1, StepElsewhere
<1>4. ASSUME NEW i \in Instance, Exit(i) PROVE Good
  <2>1. /\ UNCHANGED <<reg, launches, db, rest, loop>> /\ i \notin Registering
        /\ proc' = [proc EXCEPT ![i] = "exited"]
    BY <1>4 DEF Exit
  <2>2. /\ proc' \in [Instance -> {"none", "running", "exited"}]
        /\ \A j \in Instance : proc[j] = proc'[j] \/ (j \notin Registering /\ proc'[j] = "exited")
    BY <1>1, <2>1
  <2> QED
    BY <1>1, <2>1, <2>2, StepElsewhere
<1> QED
  BY <1>2, <1>3, <1>4

LEMMA StepNext == IInv /\ [Next]_vars => Good
<1> SUFFICES ASSUME IInv, [Next]_vars PROVE Good
  OBVIOUS
<1>1. CASE UNCHANGED vars
  <2>1. UNCHANGED <<reg, launches, proc, db, rest, loop>>
    BY <1>1 DEF vars
  <2>2. IInv' /\ SameTakers
    BY <2>1 DEF IInv, Types, RegisteringIsPrivate, Private, UnbornIsUnknown,
                LaunchesAreHeard, Handled, HasNoKey, SameTakers
  <2> QED
    BY <2>1, <2>2, SameRegistry DEF Good
<1>2. CASE MainStep
  BY <1>2, StepWorld, StepObserve, StepProbeDead, StepProbeAlive, StepApply, StepMainTake,
     StepSweep, StepSleep
  DEF MainStep
<1>3. CASE Stop \/ SessionChanges \/ (\E s \in Slot : OnKey(s)) \/ \E i \in Instance : Exit(i)
  BY <1>3, StepWorld
<1>4. ASSUME NEW w \in Worker,
             \/ RestStep(w)
             \/ \E i \in Instance : Register(w, i) \/ Detach(w, i) \/ Beat(w, i) \/ Put(w, i)
      PROVE  Good
  BY <1>4, StepClaim, StepAccept, StepReregister, StepTake, StepRestRender, StepRegister,
     StepDetach, StepBeat, StepPut
  DEF RestStep
<1> QED
  BY <1>1, <1>2, <1>3, <1>4 DEF Next

-----------------------------------------------------------------------------
\* What the OpenDeck broker guarantees

\* Whatever the threads, leases and exits do, a key belongs to a launch on record
\* whose key it is, unless two threads register the same forgotten launch at once.
THEOREM DeckKeys == Spec /\ []RegisteredOnce => []KeysAreBacked
<1>1. IInv /\ [Next]_vars => IInv'
  BY StepNext DEF Good
<1>2. IInv /\ Tidied /\ RegisteredOnce /\ [Next]_vars => Tidied'
  BY StepNext DEF Good, StaysTidy
<1>3. IInv /\ Tidied => KeysAreBacked
  BY DEF IInv, Types, Tidied, Tidy, KeysAreBacked
<1> QED
  BY InvInit, <1>1, <1>2, <1>3, PTL DEF Spec

\* A launch the adapter has keeps its key through every sweep, snapshot, refresh
\* and detach, in every order of the threads, until a registration that found the
\* key dark takes it later.
THEOREM DeckKeepsKeys == Spec => LaunchKeepsItsKey
<1>1. IInv /\ [Next]_vars => IInv'
  BY StepNext DEF Good
<1>2. IInv /\ [Next]_vars =>
        [\A i \in launches \cap launches', s \in Slot :
           reg.occupant[s] = i => reg'.occupant[s] = i \/ Overwritten(s)]_vars
  BY StepNext DEF Good, LaunchesKeepKeys
<1> QED
  BY InvInit, <1>1, <1>2, PTL DEF Spec, LaunchKeepsItsKey

LEMMA AssignmentStep ==
    IInv /\ IInv' /\ Tidy(reg') /\ Passes(reg, reg') => Assignment!Reassign
<1> SUFFICES ASSUME IInv, IInv', Tidy(reg'), Passes(reg, reg') PROVE Assignment!Reassign
  OBVIOUS
<1>1. /\ reg'.occupant \in [Slot -> Instance \cup {NoInstance}]
      /\ reg'.generation \in [Slot -> Nat]
  BY RegistryFields DEF IInv, Types
<1>2. \A s, t \in Slot : reg'.occupant[s] = reg'.occupant[t] /\ reg'.occupant[s] # NoInstance => s = t
  BY DEF Tidy
<1> QED
  BY <1>1, <1>2 DEF Passes, Assignment!Reassign, Assignment!Exclusive, Assignment!NoMove

\* The broker implements the abstract assignment, races of launches for a key
\* included: keys are never shared, launches never moved, and a key changes hands
\* with a new generation, unless two threads register the same forgotten launch at
\* once.
THEOREM DeckRefines == Spec /\ []RegisteredOnce => ImplementsAssignment
<1>1. IInv /\ [Next]_vars => IInv'
  BY StepNext DEF Good
<1>2. IInv /\ Tidied /\ RegisteredOnce /\ [Next]_vars => Tidied'
  BY StepNext DEF Good, StaysTidy
<1>3. Init => Assignment!Init
  BY DEF Init, EmptyRegistry, Assignment!Init
<1>4. IInv /\ Tidied /\ RegisteredOnce /\ [Next]_vars =>
        [Assignment!Next]_(<<reg.occupant, reg.generation>>)
  BY StepNext, AssignmentStep DEF Good, StaysTidy, Tidied, Assignment!Next
<1> QED
  BY InvInit, <1>1, <1>2, <1>3, <1>4, PTL DEF Spec, ImplementsAssignment, Assignment!Spec
=============================================================================
