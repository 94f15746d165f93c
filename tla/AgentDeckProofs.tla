-------------------------- MODULE AgentDeckProofs --------------------------
(***************************************************************************)
(* Proofs about AgentDeck for every number of keys, launches, bridges and  *)
(* presses, whatever the requests, the device and the process go through.  *)
(***************************************************************************)
EXTENDS AgentDeck, WellFoundedInduction, TLAPS

-----------------------------------------------------------------------------
\* Registries

\* The records and the slots of r tell the same story, and nobody is twice on
\* record.
Tidy(r) ==
    /\ r \in Registry
    /\ \A n, m \in DOMAIN r.order : r.order[n] = r.order[m] => n = m
    /\ \A i \in Instance, s \in Slot : r.slots[s] = i <=> i \in Records(r) /\ r.slot[i] = s

\* Who waits for a key registered after whoever has one.
InTurn(r) ==
    \A n, m \in DOMAIN r.order :
        n < m /\ r.slot[r.order[n]] = NoSlot => r.slot[r.order[m]] = NoSlot

\* Nobody waits while a key is dark.
NoneWaits(r) == (\E i \in Records(r) : r.slot[i] = NoSlot) => Dark(r) = {}

\* A bridge that was replaced is not the one that is heard.
OneVoice(r) == \A i \in Instance : r.report[i].producer \notin r.report[i].retired

\* From r to q whoever stays keeps its key, and a key that changes hands has a
\* new generation.
Follows(r, q) ==
    /\ \A i \in Records(r) \cap Records(q) : r.slot[i] # NoSlot => q.slot[i] = r.slot[i]
    /\ \A s \in Slot : q.generations[s] >= r.generations[s]
    /\ \A s \in Slot : q.slots[s] # r.slots[s] => q.generations[s] > r.generations[s]

\* From r to q launches only leave, and of those that stay what they said.
Shrinks(r, q) ==
    /\ Follows(r, q)
    /\ Records(q) \subseteq Records(r)
    /\ \A i \in Instance : q.report[i] \in {r.report[i], NewReport}
    /\ \A i \in Records(q) : q.report[i] = r.report[i]

\* A set of naturals that is not empty has a least element.
LEMMA LeastNat ==
    ASSUME NEW S, S \subseteq Nat, S # {}
    PROVE  Min(S) \in S /\ \A n \in S : Min(S) <= n
<1> DEFINE less == OpToRel(<, Nat)
<1>1. IsWellFoundedOn(less, Nat)
  BY NatLessThanWellFounded
<1>2. \A m, n \in Nat : m < n => <<m, n>> \in less
  BY DEF OpToRel
<1> HIDE DEF less
<1>3. PICK m \in S : \A n \in S : ~ (<<n, m>> \in less)
  BY <1>1, WFMin
<1>4. \A n \in S : ~ (n < m)
  BY <1>2, <1>3
<1>5. m \in S /\ \A n \in S : m <= n
  BY <1>4
<1> QED
  BY <1>5 DEF Min

LEMMA SlotsAreNumbers == Slot \subseteq Nat /\ NoSlot \notin Slot
  BY SlotCountAssumption DEF Slot, NoSlot

LEMMA RegistryFields ==
    ASSUME NEW r \in Registry
    PROVE  /\ r.slots \in [Slot -> Instance \cup {NoInstance}]
           /\ r.generations \in [Slot -> Nat]
           /\ r.order \in Seq(Instance) /\ Len(r.order) \in Nat
           /\ DOMAIN r.order = 1 .. Len(r.order)
           /\ r.slot \in [Instance -> Slot \cup {NoSlot}]
           /\ r.report \in [Instance -> Report]
           /\ Records(r) \subseteq Instance
           /\ Dark(r) \subseteq Slot
<1>1. r.order \in Seq(Instance)
  BY DEF Registry
<1>2. Records(r) \subseteq Instance
  BY <1>1 DEF Records, ToSet
<1> QED
  BY <1>1, <1>2 DEF Registry, Dark

LEMMA FollowsItself ==
    ASSUME NEW r \in Registry
    PROVE  Shrinks(r, r)
  BY RegistryFields DEF Shrinks, Follows

LEMMA ShrinksOn ==
    ASSUME NEW r \in Registry, NEW q \in Registry, NEW p \in Registry, Shrinks(r, q), Shrinks(q, p)
    PROVE  Shrinks(r, p)
<1>1. \A x \in {r, q, p} : x.generations \in [Slot -> Nat] /\ Records(x) \subseteq Instance
  BY RegistryFields
<1>2. Records(p) \subseteq Records(r)
  BY DEF Shrinks
<1>3. ASSUME NEW i \in Records(r) \cap Records(p), r.slot[i] # NoSlot
      PROVE  p.slot[i] = r.slot[i]
  <2>1. i \in Records(q)
    BY DEF Shrinks
  <2> QED
    BY <1>3, <2>1 DEF Shrinks, Follows
<1>4. ASSUME NEW s \in Slot
      PROVE  /\ p.generations[s] >= r.generations[s]
             /\ p.slots[s] # r.slots[s] => p.generations[s] > r.generations[s]
  <2>1. /\ r.generations[s] \in Nat /\ q.generations[s] \in Nat /\ p.generations[s] \in Nat
        /\ q.generations[s] >= r.generations[s] /\ p.generations[s] >= q.generations[s]
    BY <1>1 DEF Shrinks, Follows
  <2>2. CASE q.slots[s] # r.slots[s]
    BY <2>1, <2>2 DEF Shrinks, Follows
  <2>3. CASE p.slots[s] # q.slots[s]
    BY <2>1, <2>3 DEF Shrinks, Follows
  <2> QED
    BY <2>1, <2>2, <2>3
<1>5. \A i \in Instance : p.report[i] \in {r.report[i], NewReport}
  BY DEF Shrinks
<1>6. \A i \in Records(p) : p.report[i] = r.report[i]
  BY DEF Shrinks
<1> QED
  BY <1>2, <1>3, <1>4, <1>5, <1>6 DEF Shrinks, Follows

-----------------------------------------------------------------------------
\* A key is given

LEMMA GivenIs ==
    ASSUME NEW r \in Registry, NEW i \in Instance, NEW s \in Slot
    PROVE  /\ Given(r, i, s) \in Registry
           /\ Given(r, i, s).slots = [r.slots EXCEPT ![s] = i]
           /\ Given(r, i, s).generations = [r.generations EXCEPT ![s] = r.generations[s] + 1]
           /\ Given(r, i, s).order = r.order
           /\ Given(r, i, s).slot = [r.slot EXCEPT ![i] = s]
           /\ Given(r, i, s).report = r.report
<1>1. PICK a, b, c : /\ a = [r.slots EXCEPT ![s] = i]
                     /\ b = [r.generations EXCEPT ![s] = r.generations[s] + 1]
                     /\ c = [r.slot EXCEPT ![i] = s]
  OBVIOUS
<1>2. /\ a \in [Slot -> Instance \cup {NoInstance}] /\ b \in [Slot -> Nat]
      /\ c \in [Instance -> Slot \cup {NoSlot}]
  BY <1>1, RegistryFields
<1>3. Given(r, i, s) = [[[r EXCEPT !.slots = a] EXCEPT !.generations = b] EXCEPT !.slot = c]
  BY <1>1 DEF Given, Registry
<1>4. PICK x : x = [r EXCEPT !.slots = a]
  OBVIOUS
<1>5. x = [slots |-> a, generations |-> r.generations, order |-> r.order, slot |-> r.slot,
           report |-> r.report]
  BY <1>4 DEF Registry
<1>6. PICK y : y = [x EXCEPT !.generations = b]
  OBVIOUS
<1>7. y = [slots |-> a, generations |-> b, order |-> r.order, slot |-> r.slot,
           report |-> r.report]
  BY <1>5, <1>6
<1>8. Given(r, i, s) = [slots |-> a, generations |-> b, order |-> r.order, slot |-> c,
                        report |-> r.report]
  BY <1>3, <1>4, <1>6, <1>7
<1> QED
  BY <1>1, <1>2, <1>8 DEF Registry

\* Who waits gets a dark key.
LEMMA GivenKeeps ==
    ASSUME NEW r, Tidy(r), NEW i \in Records(r), r.slot[i] = NoSlot, NEW s \in Dark(r)
    PROVE  /\ Tidy(Given(r, i, s)) /\ Shrinks(r, Given(r, i, s))
           /\ Given(r, i, s).order = r.order /\ Given(r, i, s).report = r.report
           /\ Given(r, i, s).slot = [r.slot EXCEPT ![i] = s]
<1> DEFINE q == Given(r, i, s)
<1>1. r \in Registry /\ i \in Instance /\ s \in Slot /\ r.slots[s] = NoInstance
  BY RegistryFields DEF Tidy, Dark
<1>2. /\ q \in Registry
      /\ q.slots = [r.slots EXCEPT ![s] = i]
      /\ q.generations = [r.generations EXCEPT ![s] = r.generations[s] + 1]
      /\ q.order = r.order /\ q.slot = [r.slot EXCEPT ![i] = s] /\ q.report = r.report
  BY <1>1, GivenIs
<1> HIDE DEF q
<1>3. Records(q) = Records(r)
  BY <1>2 DEF Records
<1>4. /\ r.slots \in [Slot -> Instance \cup {NoInstance}] /\ r.generations \in [Slot -> Nat]
      /\ r.slot \in [Instance -> Slot \cup {NoSlot}]
  BY <1>1, RegistryFields
<1>5. ASSUME NEW j \in Instance, NEW t \in Slot
      PROVE  q.slots[t] = j <=> j \in Records(q) /\ q.slot[j] = t
  <2>1. NoSlot \notin Slot /\ NoInstance \notin Instance
    BY SlotsAreNumbers, NobodyAssumption
  <2>2. /\ r.slots[t] = j <=> j \in Records(r) /\ r.slot[j] = t
        /\ r.slots[s] = j <=> j \in Records(r) /\ r.slot[j] = s
    BY <1>1 DEF Tidy
  <2>3. CASE j = i
    BY <1>1, <1>2, <1>3, <1>4, <2>1, <2>2, <2>3
  <2>4. CASE j # i
    BY <1>1, <1>2, <1>3, <1>4, <2>1, <2>2, <2>4
  <2> QED
    BY <2>3, <2>4
<1>6. Tidy(q)
  BY <1>2, <1>5 DEF Tidy
<1>7. Shrinks(r, q)
  <2>1. \A j \in Records(r) \cap Records(q) : r.slot[j] # NoSlot => q.slot[j] = r.slot[j]
    BY <1>1, <1>2, <1>4, RegistryFields
  <2>2. \A t \in Slot : /\ q.generations[t] >= r.generations[t]
                        /\ q.slots[t] # r.slots[t] => q.generations[t] > r.generations[t]
    BY <1>1, <1>2, <1>4
  <2> QED
    BY <1>2, <1>3, <2>1, <2>2 DEF Shrinks, Follows
<1> QED
  BY <1>2, <1>6, <1>7 DEF q

-----------------------------------------------------------------------------
\* A launch leaves

LEMMA RemoveAtIs ==
    ASSUME NEW T, NEW s \in Seq(T), NEW at \in 1 .. Len(s)
    PROVE  /\ RemoveAt(s, at) \in Seq(T) /\ Len(RemoveAt(s, at)) = Len(s) - 1
           /\ \A k \in 1 .. Len(s) - 1 : RemoveAt(s, at)[k] = s[IF k < at THEN k ELSE k + 1]
<1>1. Len(s) \in Nat /\ at \in Nat
  OBVIOUS
<1>2. PICK a \in Seq(T), b \in Seq(T) : a = SubSeq(s, 1, at - 1) /\ b = SubSeq(s, at + 1, Len(s))
  <2>1. SubSeq(s, 1, at - 1) \in Seq(T)
    BY <1>1
  <2>2. SubSeq(s, at + 1, Len(s)) \in Seq(T)
    BY <1>1
  <2> QED
    BY <2>1, <2>2
<1>3. Len(a) = at - 1 /\ \A k \in 1 .. at - 1 : a[k] = s[k]
  BY <1>1, <1>2
<1>4. Len(b) = Len(s) - at /\ \A k \in 1 .. Len(s) - at : b[k] = s[k + at]
  BY <1>1, <1>2
<1>5. RemoveAt(s, at) = a \o b
  BY <1>2 DEF RemoveAt
<1>6. RemoveAt(s, at) \in Seq(T) /\ Len(RemoveAt(s, at)) = Len(s) - 1
  <2>1. a \o b \in Seq(T) /\ Len(a \o b) = Len(a) + Len(b)
    OBVIOUS
  <2> QED
    BY <1>1, <1>3, <1>4, <1>5, <2>1
<1>7. ASSUME NEW k \in 1 .. Len(s) - 1
      PROVE  RemoveAt(s, at)[k] = s[IF k < at THEN k ELSE k + 1]
  <2>1. CASE k < at
    BY <1>1, <1>3, <1>4, <1>5, <2>1
  <2>2. CASE ~ (k < at)
    <3>1. RemoveAt(s, at)[k] = b[k - (at - 1)]
      BY <1>1, <1>3, <1>4, <1>5, <2>2
    <3>2. k - (at - 1) \in 1 .. Len(s) - at
      BY <1>1, <2>2
    <3>3. b[k - (at - 1)] = s[k - (at - 1) + at] /\ k - (at - 1) + at = k + 1
      BY <1>1, <1>4, <3>2
    <3> QED
      BY <2>2, <3>1, <3>3
  <2> QED
    BY <2>1, <2>2
<1> QED
  BY <1>6, <1>7

\* The order once a launch is off it.
Left(r, i) == IF i \in Records(r) THEN RemoveAt(r.order, Place(r, i)) ELSE r.order

LEMMA LeftIs ==
    ASSUME NEW r, Tidy(r), NEW i \in Instance
    PROVE  /\ Left(r, i) \in Seq(Instance)
           /\ ToSet(Left(r, i)) = Records(r) \ {i}
           /\ \A n, m \in DOMAIN Left(r, i) :
                n < m => \E a, b \in DOMAIN r.order :
                           /\ a < b /\ Left(r, i)[n] = r.order[a] /\ Left(r, i)[m] = r.order[b]
<1>1. /\ r.order \in Seq(Instance) /\ Len(r.order) \in Nat
      /\ DOMAIN r.order = 1 .. Len(r.order)
      /\ \A n, m \in DOMAIN r.order : r.order[n] = r.order[m] => n = m
  BY RegistryFields DEF Tidy
<1>2. CASE i \notin Records(r)
  <2>1. Left(r, i) = r.order
    BY <1>2 DEF Left
  <2>2. ToSet(r.order) = Records(r)
    BY DEF Records
  <2> QED
    BY <1>1, <1>2, <2>1, <2>2
<1>3. CASE i \in Records(r)
  <2> DEFINE at == Place(r, i)
             q == Left(r, i)
  <2>1. at \in 1 .. Len(r.order) /\ r.order[at] = i
    BY <1>1, <1>3 DEF Place, Records, ToSet
  <2>2. q = RemoveAt(r.order, at)
    BY <1>3 DEF Left
  <2> HIDE DEF at, q
  <2>3. /\ q \in Seq(Instance) /\ Len(q) = Len(r.order) - 1
        /\ \A k \in 1 .. Len(r.order) - 1 : q[k] = r.order[IF k < at THEN k ELSE k + 1]
    BY <1>1, <2>1, <2>2, RemoveAtIs
  <2>4. DOMAIN q = 1 .. Len(r.order) - 1
    BY <1>1, <2>3
  <2>5. ToSet(q) = Records(r) \ {i}
    <3>1. ASSUME NEW j \in ToSet(q) PROVE j \in Records(r) /\ j # i
      <4>1. PICK k \in DOMAIN q : j = q[k]
        BY DEF ToSet
      <4>2. PICK n \in DOMAIN r.order : n # at /\ j = r.order[n]
        <5>1. CASE k < at
          BY <1>1, <2>1, <2>3, <2>4, <4>1, <5>1
        <5>2. CASE ~ (k < at)
          BY <1>1, <2>1, <2>3, <2>4, <4>1, <5>2
        <5> QED
          BY <5>1, <5>2
      <4> QED
        BY <1>1, <2>1, <4>2 DEF Records, ToSet
    <3>2. ASSUME NEW j \in Records(r), j # i PROVE j \in ToSet(q)
      <4>1. PICK n \in 1 .. Len(r.order) : j = r.order[n]
        BY <1>1 DEF Records, ToSet
      <4>2. CASE n < at
        <5>1. n \in DOMAIN q /\ q[n] = j
          BY <1>1, <2>1, <2>3, <2>4, <4>1, <4>2
        <5> QED
          BY <5>1 DEF ToSet
      <4>3. CASE ~ (n < at)
        <5>1. n # at
          BY <2>1, <3>2, <4>1
        <5>2. n - 1 \in DOMAIN q /\ q[n - 1] = j
          BY <1>1, <2>1, <2>3, <2>4, <4>1, <4>3, <5>1
        <5> QED
          BY <5>2 DEF ToSet
      <4> QED
        BY <4>2, <4>3
    <3> QED
      BY <3>1, <3>2
  <2>6. ASSUME NEW n \in DOMAIN q, NEW m \in DOMAIN q, n < m
        PROVE  \E a, b \in DOMAIN r.order : a < b /\ q[n] = r.order[a] /\ q[m] = r.order[b]
    <3>1. PICK a, b : /\ a = (IF n < at THEN n ELSE n + 1) /\ b = (IF m < at THEN m ELSE m + 1)
      OBVIOUS
    <3>2. a \in DOMAIN r.order /\ b \in DOMAIN r.order /\ a < b
      BY <1>1, <2>1, <2>4, <2>6, <3>1
    <3>3. q[n] = r.order[a] /\ q[m] = r.order[b]
      BY <2>3, <2>4, <3>1
    <3> QED
      BY <3>2, <3>3
  <2> QED
    BY <2>3, <2>5, <2>6 DEF q
<1> QED
  BY <1>2, <1>3

LEMMA PoppedIs ==
    ASSUME NEW r, Tidy(r), NEW i \in Instance
    PROVE  /\ Popped(r, i) \in Registry
           /\ Popped(r, i).order = Left(r, i)
           /\ Popped(r, i).slot = [r.slot EXCEPT ![i] = NoSlot]
           /\ Popped(r, i).report = [r.report EXCEPT ![i] = NewReport]
           /\ \A s \in Slot :
                IF i \in Records(r) /\ r.slot[i] = s
                THEN /\ Popped(r, i).slots[s] = NoInstance
                     /\ Popped(r, i).generations[s] = r.generations[s] + 1
                ELSE /\ Popped(r, i).slots[s] = r.slots[s]
                     /\ Popped(r, i).generations[s] = r.generations[s]
<1>1. /\ r \in Registry /\ r.slots \in [Slot -> Instance \cup {NoInstance}]
      /\ r.generations \in [Slot -> Nat]
      /\ r.slot \in [Instance -> Slot \cup {NoSlot}] /\ r.report \in [Instance -> Report]
  BY RegistryFields DEF Tidy
<1>2. PICK a, b, c : /\ a = Left(r, i) /\ b = [r.slot EXCEPT ![i] = NoSlot]
                     /\ c = [r.report EXCEPT ![i] = NewReport]
  OBVIOUS
<1>3. a \in Seq(Instance) /\ b \in [Instance -> Slot \cup {NoSlot}] /\ c \in [Instance -> Report]
  <2>1. NewReport \in Report
    BY MaxSeqAssumption DEF NewReport, Report, StatusSet
  <2> QED
    BY <1>1, <1>2, <2>1, LeftIs
<1>4. PICK gone : gone = [slots |-> r.slots, generations |-> r.generations, order |-> a,
                          slot |-> b, report |-> c]
  OBVIOUS
<1>5. [r EXCEPT !.order = IF i \in Records(r) THEN RemoveAt(@, Place(r, i)) ELSE @,
                !.slot[i] = NoSlot, !.report[i] = NewReport] = gone
  <2>1. [r EXCEPT !.order = IF i \in Records(r) THEN RemoveAt(@, Place(r, i)) ELSE @,
                  !.slot[i] = NoSlot, !.report[i] = NewReport]
          = [r EXCEPT !.order = a, !.slot = b, !.report = c]
    <3>1. a = IF i \in Records(r) THEN RemoveAt(r.order, Place(r, i)) ELSE r.order
      BY <1>2 DEF Left
    <3> QED
      BY <1>1, <1>2, <3>1, Zenon DEF Registry
  <2>2. r = [slots |-> r.slots, generations |-> r.generations, order |-> r.order,
             slot |-> r.slot, report |-> r.report]
    BY <1>1 DEF Registry
  <2>3. [r EXCEPT !.order = a, !.slot = b, !.report = c] = gone
    <3>1. PICK x : x = [r EXCEPT !.order = a]
      OBVIOUS
    <3>2. x = [slots |-> r.slots, generations |-> r.generations, order |-> a, slot |-> r.slot,
               report |-> r.report]
      BY <2>2, <3>1
    <3>3. PICK y : y = [x EXCEPT !.slot = b]
      OBVIOUS
    <3>4. y = [slots |-> r.slots, generations |-> r.generations, order |-> a, slot |-> b,
               report |-> r.report]
      BY <3>2, <3>3
    <3>5. [y EXCEPT !.report = c] = gone
      BY <1>4, <3>4
    <3>6. [r EXCEPT !.order = a, !.slot = b, !.report = c] = [y EXCEPT !.report = c]
      BY <3>1, <3>3, Zenon
    <3> QED
      BY <3>5, <3>6
  <2> QED
    BY <2>1, <2>3, Zenon
<1>6. CASE i \notin Records(r) \/ r.slot[i] = NoSlot
  <2>1. Popped(r, i) = gone
    BY <1>5, <1>6 DEF Popped
  <2>2. \A s \in Slot : ~ (i \in Records(r) /\ r.slot[i] = s)
    BY <1>6, SlotsAreNumbers
  <2> QED
    BY <1>1, <1>2, <1>3, <1>4, <2>1, <2>2 DEF Registry
<1>7. CASE ~ (i \notin Records(r) \/ r.slot[i] = NoSlot)
  <2>1. PICK s \in Slot : s = r.slot[i]
    BY <1>1, <1>7
  <2>2. PICK d, g : /\ d = [r.slots EXCEPT ![s] = NoInstance]
                    /\ g = [r.generations EXCEPT ![s] = r.generations[s] + 1]
    OBVIOUS
  <2>3. d \in [Slot -> Instance \cup {NoInstance}] /\ g \in [Slot -> Nat]
    BY <1>1, <2>2
  <2>4. Popped(r, i) = [gone EXCEPT !.slots[s] = NoInstance, !.generations[s] = @ + 1]
    BY <1>5, <1>7, <2>1 DEF Popped
  <2>5. Popped(r, i) = [gone EXCEPT !.slots = d, !.generations = g]
    BY <1>4, <2>2, <2>4
  <2>6. Popped(r, i) = [slots |-> d, generations |-> g, order |-> a, slot |-> b, report |-> c]
    BY <1>4, <2>5
  <2> QED
    BY <1>1, <1>2, <1>3, <1>7, <2>1, <2>2, <2>3, <2>6 DEF Registry
<1> QED
  BY <1>6, <1>7

LEMMA PoppedKeeps ==
    ASSUME NEW r, Tidy(r), InTurn(r), NEW i \in Instance
    PROVE  /\ Tidy(Popped(r, i)) /\ InTurn(Popped(r, i)) /\ Shrinks(r, Popped(r, i))
           /\ Records(Popped(r, i)) = Records(r) \ {i}
<1> DEFINE q == Popped(r, i)
<1>1. /\ r.slots \in [Slot -> Instance \cup {NoInstance}] /\ r.generations \in [Slot -> Nat]
      /\ r.slot \in [Instance -> Slot \cup {NoSlot}] /\ r.report \in [Instance -> Report]
      /\ Records(r) \subseteq Instance
      /\ \A n, m \in DOMAIN r.order : r.order[n] = r.order[m] => n = m
      /\ \A j \in Instance, s \in Slot : r.slots[s] = j <=> j \in Records(r) /\ r.slot[j] = s
  BY RegistryFields DEF Tidy
<1>2. /\ q \in Registry /\ q.order = Left(r, i)
      /\ q.slot = [r.slot EXCEPT ![i] = NoSlot]
      /\ q.report = [r.report EXCEPT ![i] = NewReport]
      /\ \A s \in Slot :
           IF i \in Records(r) /\ r.slot[i] = s
           THEN q.slots[s] = NoInstance /\ q.generations[s] = r.generations[s] + 1
           ELSE q.slots[s] = r.slots[s] /\ q.generations[s] = r.generations[s]
  BY PoppedIs
<1> HIDE DEF q
<1>3. /\ q.order \in Seq(Instance) /\ Records(q) = Records(r) \ {i}
      /\ \A n, m \in DOMAIN q.order :
           n < m => \E a, b \in DOMAIN r.order :
                      a < b /\ q.order[n] = r.order[a] /\ q.order[m] = r.order[b]
  BY <1>2, LeftIs DEF Records
<1>4. DOMAIN q.order = 1 .. Len(q.order) /\ Len(q.order) \in Nat
  BY <1>3
<1>5. DOMAIN r.order = 1 .. Len(r.order) /\ Len(r.order) \in Nat
  BY RegistryFields DEF Tidy
<1>6. Tidy(q)
  <2>1. ASSUME NEW n \in DOMAIN q.order, NEW m \in DOMAIN q.order, n < m
        PROVE  q.order[n] # q.order[m]
    <3>1. PICK a \in DOMAIN r.order, b \in DOMAIN r.order :
            a < b /\ q.order[n] = r.order[a] /\ q.order[m] = r.order[b]
      BY <1>3, <2>1
    <3>2. a # b
      BY <1>5, <3>1
    <3> QED
      BY <1>1, <3>1, <3>2
  <2>2. \A n, m \in DOMAIN q.order : q.order[n] = q.order[m] => n = m
    <3>1. \A n, m \in DOMAIN q.order : n = m \/ n < m \/ m < n
      BY <1>4
    <3> QED
      BY <2>1, <3>1
  <2>3. ASSUME NEW j \in Instance, NEW s \in Slot
        PROVE  q.slots[s] = j <=> j \in Records(q) /\ q.slot[j] = s
    <3>1. /\ NoSlot \notin Slot /\ NoInstance \notin Instance
          /\ r.slots[s] = j <=> j \in Records(r) /\ r.slot[j] = s
          /\ r.slots[s] = i <=> i \in Records(r) /\ r.slot[i] = s
      BY <1>1, SlotsAreNumbers, NobodyAssumption
    <3>2. CASE j = i
      BY <1>1, <1>2, <1>3, <3>1, <3>2
    <3>3. CASE j # i
      BY <1>1, <1>2, <1>3, <3>1, <3>3
    <3> QED
      BY <3>2, <3>3
  <2> QED
    BY <1>2, <2>2, <2>3 DEF Tidy
<1>7. InTurn(q)
  <2>1. ASSUME NEW n \in DOMAIN q.order, NEW m \in DOMAIN q.order, n < m,
               q.slot[q.order[n]] = NoSlot
        PROVE  q.slot[q.order[m]] = NoSlot
    <3>1. PICK a \in DOMAIN r.order, b \in DOMAIN r.order :
            a < b /\ q.order[n] = r.order[a] /\ q.order[m] = r.order[b]
      BY <1>3, <2>1
    <3>2. /\ q.order[n] \in Instance /\ q.order[m] \in Instance
          /\ q.order[n] # i /\ q.order[m] # i
      <4>1. \A k \in DOMAIN q.order : q.order[k] \in Records(q)
        BY DEF Records, ToSet
      <4> QED
        BY <1>1, <1>3, <4>1
    <3>3. q.slot[q.order[n]] = r.slot[q.order[n]] /\ q.slot[q.order[m]] = r.slot[q.order[m]]
      BY <1>1, <1>2, <3>2
    <3> QED
      BY <2>1, <3>1, <3>3 DEF InTurn
  <2> QED
    BY <2>1 DEF InTurn
<1>8. Shrinks(r, q)
  <2>1. \A j \in Records(r) \cap Records(q) : q.slot[j] = r.slot[j]
    BY <1>1, <1>2, <1>3
  <2>2. \A s \in Slot : /\ q.generations[s] >= r.generations[s]
                        /\ q.slots[s] # r.slots[s] => q.generations[s] > r.generations[s]
    BY <1>1, <1>2
  <2>3. \A j \in Instance : q.report[j] \in {r.report[j], NewReport}
    BY <1>1, <1>2
  <2>4. \A j \in Records(q) : q.report[j] = r.report[j]
    BY <1>1, <1>2, <1>3
  <2> QED
    BY <1>3, <2>1, <2>2, <2>3, <2>4 DEF Shrinks, Follows
<1> QED
  BY <1>3, <1>6, <1>7, <1>8 DEF q

-----------------------------------------------------------------------------
\* Those who wait take the dark keys in their order: the recursive function has
\* a value, and what is shown of its first n steps holds of the last.

PromotedAt(r, q, n) ==
    IF q.slot[r.order[n]] = NoSlot /\ Dark(q) # {} THEN Given(q, r.order[n], Min(Dark(q))) ELSE q

PromotedUpto(r, after, n) ==
    after = [k \in 0 .. n |-> IF k = 0 THEN r ELSE PromotedAt(r, after[k - 1], k)]

LEMMA PromotedExists ==
    ASSUME NEW r, NEW len \in Nat, NEW n \in 0 .. len
    PROVE  \E after : PromotedUpto(r, after, n)
<1> DEFINE bad == {k \in 0 .. len : ~ \E after : PromotedUpto(r, after, k)}
<1> SUFFICES ASSUME bad # {} PROVE FALSE
  BY DEF bad
<1>1. bad \subseteq Nat
  OBVIOUS
<1>2. PICK k \in bad : \A j \in bad : k <= j
  BY <1>1, LeastNat
<1>3. k \in 0 .. len /\ ~ \E after : PromotedUpto(r, after, k)
  BY <1>2
<1>4. CASE k = 0
  <2>1. PromotedUpto(r, [j \in 0 .. 0 |-> r], 0)
    BY DEF PromotedUpto
  <2> QED
    BY <1>3, <1>4, <2>1
<1>5. CASE k # 0
  <2>1. k - 1 \in 0 .. len /\ k - 1 \notin bad
    <3> HIDE DEF bad
    <3>1. k - 1 \in 0 .. len /\ k \in Nat
      BY <1>3, <1>5
    <3> QED
      BY <1>1, <1>2, <3>1
  <2>2. PICK after : PromotedUpto(r, after, k - 1)
    BY <2>1
  <2>3. after = [j \in 0 .. k - 1 |-> IF j = 0 THEN r ELSE PromotedAt(r, after[j - 1], j)]
    BY <2>2 DEF PromotedUpto
  <2> DEFINE more == [j \in 0 .. k |-> IF j = k THEN PromotedAt(r, after[k - 1], k) ELSE after[j]]
  <2>4. more[k - 1] = after[k - 1]
    BY <2>1, <1>3
  <2>5. ASSUME NEW j \in 0 .. k
        PROVE  more[j] = IF j = 0 THEN r ELSE PromotedAt(r, more[j - 1], j)
    <3>1. CASE j = k
      BY <1>3, <1>5, <2>4, <3>1
    <3>2. CASE j # k
      <4>1. j \in 0 .. k - 1
        BY <1>3, <3>2
      <4>2. after[j] = IF j = 0 THEN r ELSE PromotedAt(r, after[j - 1], j)
        BY <2>3, <4>1
      <4>3. more[j] = after[j] /\ (j # 0 => more[j - 1] = after[j - 1])
        BY <1>3, <3>2, <4>1
      <4> QED
        BY <4>2, <4>3
    <3> QED
      BY <3>1, <3>2
  <2>6. more = [j \in 0 .. k |-> IF j = 0 THEN r ELSE PromotedAt(r, more[j - 1], j)]
    BY <2>5
  <2> HIDE DEF more
  <2>7. PromotedUpto(r, more, k)
    BY <2>6 DEF PromotedUpto
  <2> QED
    BY <1>3, <2>7
<1> QED
  BY <1>4, <1>5

\* Of the first n nobody waits while a key is dark.
Served(r, q, n) ==
    /\ Tidy(q) /\ InTurn(q) /\ Shrinks(r, q)
    /\ q.order = r.order /\ q.report = r.report
    /\ \A k \in 1 .. n : q.slot[r.order[k]] = NoSlot => Dark(q) = {}

LEMMA PromotedOne ==
    ASSUME NEW r, r \in Registry, NEW q, NEW n \in 1 .. Len(r.order), Served(r, q, n - 1)
    PROVE  Served(r, PromotedAt(r, q, n), n)
<1> DEFINE i == r.order[n]
           s == Min(Dark(q))
           p == Given(q, i, s)
<1>1. /\ q \in Registry /\ q.order = r.order /\ q.slot \in [Instance -> Slot \cup {NoSlot}]
      /\ Len(r.order) \in Nat /\ DOMAIN r.order = 1 .. Len(r.order) /\ Dark(q) \subseteq Slot
      /\ Records(q) = Records(r) /\ Records(q) \subseteq Instance
  BY RegistryFields DEF Served, Tidy, Records
<1>2. CASE q.slot[i] = NoSlot /\ Dark(q) # {}
  <2>1. PromotedAt(r, q, n) = p
    BY <1>2 DEF PromotedAt
  <2>2. i \in Records(q)
    BY <1>1 DEF Records, ToSet
  <2>3. s \in Dark(q)
    BY <1>1, <1>2, SlotsAreNumbers, LeastNat
  <2>4. s \in Slot /\ i \in Instance
    BY <1>1, <2>2, <2>3
  <2> HIDE DEF i, s
  <2>5. Tidy(p) /\ Shrinks(q, p)
    BY <1>2, <2>2, <2>3, GivenKeeps DEF Served
  <2>6. p.order = r.order /\ p.report = r.report /\ p.slot = [q.slot EXCEPT ![i] = s]
    <3>3. p.order = q.order /\ p.report = q.report /\ p.slot = [q.slot EXCEPT ![i] = s]
      BY <1>2, <2>2, <2>3, GivenKeeps DEF Served
    <3>4. q.order = r.order /\ q.report = r.report
      BY DEF Served
    <3> QED
      BY <3>3, <3>4
  <2> HIDE DEF p
  <2>7. Shrinks(r, p)
    BY <1>1, <2>5, ShrinksOn DEF Served, Tidy
  <2>8. ASSUME NEW k \in 1 .. n PROVE p.slot[r.order[k]] # NoSlot
    <3>1. r.order[k] \in Instance
      BY <1>1 DEF Records, ToSet
    <3>2. CASE r.order[k] = i
      BY <1>1, <2>4, <2>6, <3>2, SlotsAreNumbers
    <3>3. CASE r.order[k] # i
      <4>1. k # n
        BY <3>3 DEF i
      <4>2. q.slot[r.order[k]] # NoSlot
        BY <1>2, <4>1 DEF Served
      <4> QED
        BY <1>1, <2>6, <3>1, <3>3, <4>2
    <3> QED
      BY <3>2, <3>3
  <2>9. InTurn(p)
    <3>1. ASSUME NEW a \in DOMAIN r.order, NEW b \in DOMAIN r.order, a < b,
                 p.slot[r.order[a]] = NoSlot
          PROVE  p.slot[r.order[b]] = NoSlot
      <4>1. a > n
        BY <1>1, <2>8, <3>1
      <4>2. r.order[b] # i
        BY <1>1, <3>1, <4>1 DEF i, Served, Tidy
      <4>3. q.slot[r.order[n]] = NoSlot /\ n < b /\ n \in DOMAIN q.order /\ b \in DOMAIN q.order
        BY <1>1, <1>2, <3>1, <4>1 DEF i
      <4>4. q.slot[r.order[b]] = NoSlot
        BY <1>1, <4>3 DEF Served, InTurn
      <4>5. r.order[b] \in Instance
        BY <1>1 DEF Records, ToSet
      <4> QED
        BY <1>1, <2>6, <4>2, <4>4, <4>5
    <3> QED
      BY <2>6, <3>1 DEF InTurn
  <2> QED
    BY <2>1, <2>5, <2>6, <2>7, <2>8, <2>9 DEF Served, p
<1>3. CASE ~ (q.slot[i] = NoSlot /\ Dark(q) # {})
  <2>1. PromotedAt(r, q, n) = q
    BY <1>3 DEF PromotedAt
  <2>2. \A k \in 1 .. n : q.slot[r.order[k]] = NoSlot => Dark(q) = {}
    <3>1. \A k \in 1 .. n : k = n \/ k \in 1 .. n - 1
      BY <1>1
    <3> QED
      BY <1>3, <3>1 DEF Served
  <2> QED
    BY <2>1, <2>2 DEF Served
<1> QED
  BY <1>2, <1>3

LEMMA PromotedKeeps ==
    ASSUME NEW r, Tidy(r), InTurn(r)
    PROVE  /\ Tidy(Promoted(r)) /\ InTurn(Promoted(r)) /\ NoneWaits(Promoted(r))
           /\ Shrinks(r, Promoted(r))
           /\ Records(Promoted(r)) = Records(r)
<1> DEFINE len == Len(r.order)
           after == CHOOSE f : PromotedUpto(r, f, len)
           bad == {k \in 0 .. len : ~ Served(r, after[k], k)}
<1>1. r \in Registry /\ len \in Nat /\ DOMAIN r.order = 1 .. len
  BY RegistryFields DEF Tidy
<1>2. Promoted(r) = after[len]
  BY DEF Promoted, PromotedUpto, PromotedAt
<1>3. PromotedUpto(r, after, len)
  <2>1. len \in 0 .. len
    BY <1>1
  <2>2. \E f : PromotedUpto(r, f, len)
    BY <1>1, <2>1, PromotedExists
  <2> QED
    BY <2>2
<1> HIDE DEF after, len
<1>4. \A k \in 0 .. len : after[k] = IF k = 0 THEN r ELSE PromotedAt(r, after[k - 1], k)
  BY <1>3 DEF PromotedUpto
<1>5. ASSUME bad # {} PROVE FALSE
  <2>1. PICK k \in bad : \A j \in bad : k <= j
    <3>1. bad \subseteq Nat
      BY <1>1
    <3> QED
      BY <1>5, <3>1, LeastNat
  <2>2. k \in 0 .. len /\ ~ Served(r, after[k], k)
    BY <2>1
  <2>3. CASE k = 0
    <3>1. after[0] = r
      BY <1>1, <1>4
    <3>2. Served(r, r, 0)
      BY <1>1, FollowsItself DEF Served
    <3> QED
      BY <2>2, <2>3, <3>1, <3>2
  <2>4. CASE k # 0
    <3>1. k - 1 \in 0 .. len /\ k \in 1 .. len
      BY <1>1, <2>2, <2>4
    <3>2. k - 1 \notin bad
      <4> HIDE DEF bad
      <4> QED
        BY <1>1, <2>1, <3>1
    <3>3. Served(r, after[k - 1], k - 1)
      BY <3>1, <3>2
    <3>4. Served(r, PromotedAt(r, after[k - 1], k), k)
      BY <1>1, <3>1, <3>3, PromotedOne DEF len
    <3> QED
      BY <1>4, <2>2, <2>4, <3>4
  <2> QED
    BY <2>3, <2>4
<1>6. Served(r, after[len], len)
  <2>1. len \in 0 .. len
    BY <1>1
  <2> QED
    BY <1>5, <2>1
<1>7. PICK q : q = Promoted(r)
  OBVIOUS
<1>8. Served(r, q, len)
  BY <1>2, <1>6, <1>7
<1>9. Records(q) = Records(r)
  BY <1>8 DEF Served, Records
<1>10. NoneWaits(q)
  <2>1. ASSUME NEW i \in Records(q), q.slot[i] = NoSlot PROVE Dark(q) = {}
    <3>1. PICK k \in 1 .. len : i = r.order[k]
      BY <1>1, <1>9 DEF Records, ToSet
    <3> QED
      BY <1>8, <2>1, <3>1 DEF Served
  <2> QED
    BY <2>1 DEF NoneWaits
<1> QED
  BY <1>7, <1>8, <1>9, <1>10 DEF Served

\* remove: the launch leaves and one that waits takes its key.
LEMMA RemovedKeeps ==
    ASSUME NEW r, Tidy(r), InTurn(r), NEW i \in Instance
    PROVE  /\ Tidy(Removed(r, i)) /\ InTurn(Removed(r, i)) /\ NoneWaits(Removed(r, i))
           /\ Shrinks(r, Removed(r, i))
<1>1. PICK q : q = Popped(r, i)
  OBVIOUS
<1>2. Tidy(q) /\ InTurn(q) /\ Shrinks(r, q)
  BY <1>1, PoppedKeeps
<1>3. /\ Tidy(Promoted(q)) /\ InTurn(Promoted(q)) /\ NoneWaits(Promoted(q))
      /\ Shrinks(q, Promoted(q))
  BY <1>2, PromotedKeeps
<1>4. Shrinks(r, Promoted(q))
  BY <1>2, <1>3, ShrinksOn DEF Tidy
<1>5. Removed(r, i) = Promoted(q)
  <2>1. {Promoted(p) : p \in {Popped(r, i)}} = {Promoted(q)}
    BY <1>1
  <2> QED
    BY <2>1 DEF Removed
<1> QED
  BY <1>3, <1>4, <1>5

-----------------------------------------------------------------------------
\* A launch registers

\* What a step of the registry may do: launches come and go.
Passes(r, q) ==
    /\ Follows(r, q)
    /\ \A i \in Instance : q.report[i] \in {r.report[i], NewReport}
    /\ \A i \in Records(r) \cap Records(q) : q.report[i] = r.report[i]

LEMMA ShrinksPasses ==
    ASSUME NEW r, NEW q, Shrinks(r, q)
    PROVE  Passes(r, q)
  BY DEF Shrinks, Passes

\* A record is added at the end of the order, with no key.
LEMMA AddedKeeps ==
    ASSUME NEW r, Tidy(r), InTurn(r), NEW i \in Instance, i \notin Records(r),
           NEW q, q = [slots |-> r.slots, generations |-> r.generations, order |-> Append(r.order, i),
                       slot |-> [r.slot EXCEPT ![i] = NoSlot],
                       report |-> [r.report EXCEPT ![i] = NewReport]]
    PROVE  /\ Tidy(q) /\ InTurn(q) /\ Passes(r, q)
           /\ Records(q) = Records(r) \cup {i} /\ Dark(q) = Dark(r) /\ q.slot[i] = NoSlot
<1>1. /\ r.slots \in [Slot -> Instance \cup {NoInstance}] /\ r.generations \in [Slot -> Nat]
      /\ r.slot \in [Instance -> Slot \cup {NoSlot}] /\ r.report \in [Instance -> Report]
      /\ r.order \in Seq(Instance) /\ Len(r.order) \in Nat /\ DOMAIN r.order = 1 .. Len(r.order)
      /\ Records(r) \subseteq Instance
      /\ \A n, m \in DOMAIN r.order : r.order[n] = r.order[m] => n = m
      /\ \A j \in Instance, s \in Slot : r.slots[s] = j <=> j \in Records(r) /\ r.slot[j] = s
  BY RegistryFields DEF Tidy
<1>2. /\ q.slots = r.slots /\ q.generations = r.generations /\ q.order = Append(r.order, i)
      /\ q.slot = [r.slot EXCEPT ![i] = NoSlot] /\ q.report = [r.report EXCEPT ![i] = NewReport]
  OBVIOUS
<1>3. /\ q.order \in Seq(Instance) /\ Len(q.order) = Len(r.order) + 1
      /\ DOMAIN q.order = 1 .. Len(r.order) + 1
      /\ q.order[Len(r.order) + 1] = i
      /\ \A n \in 1 .. Len(r.order) : q.order[n] = r.order[n]
  BY <1>1, <1>2
<1>4. Records(q) = Records(r) \cup {i}
  <2>1. ASSUME NEW j \in Records(q) PROVE j \in Records(r) \cup {i}
    <3>1. PICK n \in 1 .. Len(r.order) + 1 : j = q.order[n]
      BY <1>3 DEF Records, ToSet
    <3>2. n = Len(r.order) + 1 \/ n \in 1 .. Len(r.order)
      BY <1>1
    <3> QED
      BY <1>1, <1>3, <3>1, <3>2 DEF Records, ToSet
  <2>2. ASSUME NEW j \in Records(r) PROVE j \in Records(q)
    <3>1. PICK n \in 1 .. Len(r.order) : j = r.order[n]
      BY <1>1 DEF Records, ToSet
    <3>2. n \in DOMAIN q.order /\ q.order[n] = j
      BY <1>1, <1>3, <3>1
    <3> QED
      BY <3>2 DEF Records, ToSet
  <2>3. i \in Records(q)
    <3>1. Len(r.order) + 1 \in DOMAIN q.order
      BY <1>1, <1>3
    <3> QED
      BY <1>3, <3>1 DEF Records, ToSet
  <2> QED
    BY <2>1, <2>2, <2>3
<1>5. \A n \in 1 .. Len(r.order) : r.order[n] \in Records(r)
  BY <1>1 DEF Records, ToSet
<1>6. Tidy(q)
  <2>1. q \in Registry
    <3>1. NewReport \in Report
      BY MaxSeqAssumption DEF NewReport, Report, StatusSet
    <3>2. q.slot \in [Instance -> Slot \cup {NoSlot}] /\ q.report \in [Instance -> Report]
      BY <1>1, <1>2, <3>1
    <3> QED
      BY <1>1, <1>2, <1>3, <3>2 DEF Registry
  <2>2. ASSUME NEW n \in DOMAIN q.order, NEW m \in DOMAIN q.order, q.order[n] = q.order[m]
        PROVE  n = m
    BY <1>1, <1>3, <1>5, <2>2
  <2>3. ASSUME NEW j \in Instance, NEW s \in Slot
        PROVE  q.slots[s] = j <=> j \in Records(q) /\ q.slot[j] = s
    <3>1. NoSlot \notin Slot
      BY SlotsAreNumbers
    <3>2. r.slots[s] = j <=> j \in Records(r) /\ r.slot[j] = s
      BY <1>1
    <3>3. CASE j = i
      BY <1>1, <1>2, <3>1, <3>2, <3>3
    <3>4. CASE j # i
      BY <1>1, <1>2, <1>4, <3>2, <3>4
    <3> QED
      BY <3>3, <3>4
  <2> QED
    BY <2>1, <2>2, <2>3 DEF Tidy
<1>7. InTurn(q)
  <2>1. ASSUME NEW n \in DOMAIN q.order, NEW m \in DOMAIN q.order, n < m,
               q.slot[q.order[n]] = NoSlot
        PROVE  q.slot[q.order[m]] = NoSlot
    <3>1. CASE m = Len(r.order) + 1
      BY <1>1, <1>2, <1>3, <3>1
    <3>2. CASE m # Len(r.order) + 1
      <4>1. n \in 1 .. Len(r.order) /\ m \in 1 .. Len(r.order)
        BY <1>1, <1>3, <2>1, <3>2
      <4>2. r.slot[r.order[n]] = NoSlot
        BY <1>1, <1>2, <1>3, <1>5, <2>1, <4>1
      <4>3. r.slot[r.order[m]] = NoSlot
        BY <1>1, <2>1, <4>1, <4>2 DEF InTurn
      <4> QED
        BY <1>1, <1>2, <1>3, <1>5, <4>1, <4>3
    <3> QED
      BY <3>1, <3>2
  <2> QED
    BY <2>1 DEF InTurn
<1>8. Passes(r, q)
  <2>1. \A j \in Records(r) : q.slot[j] = r.slot[j] /\ q.report[j] = r.report[j]
    BY <1>1, <1>2
  <2>2. \A j \in Instance : q.report[j] \in {r.report[j], NewReport}
    BY <1>1, <1>2
  <2>3. \A s \in Slot : q.generations[s] >= r.generations[s] /\ q.slots[s] = r.slots[s]
    BY <1>1, <1>2
  <2> QED
    BY <2>1, <2>2, <2>3 DEF Passes, Follows
<1>9. Dark(q) = Dark(r) /\ q.slot[i] = NoSlot
  BY <1>1, <1>2 DEF Dark
<1> QED
  BY <1>4, <1>6, <1>7, <1>8, <1>9

LEMMA UpsertedKeeps ==
    ASSUME NEW r, Tidy(r), InTurn(r), NoneWaits(r), NEW i \in Instance
    PROVE  /\ Tidy(Upserted(r, i)) /\ InTurn(Upserted(r, i)) /\ NoneWaits(Upserted(r, i))
           /\ Passes(r, Upserted(r, i))
<1>1. CASE i \in Records(r)
  <2>1. Upserted(r, i) = r
    BY <1>1 DEF Upserted
  <2>2. Passes(r, r)
    BY FollowsItself, ShrinksPasses DEF Tidy
  <2> QED
    BY <2>1, <2>2
<1>2. CASE i \notin Records(r)
  <2>1. PICK q : q = [slots |-> r.slots, generations |-> r.generations,
                      order |-> Append(r.order, i),
                      slot |-> [r.slot EXCEPT ![i] = NoSlot],
                      report |-> [r.report EXCEPT ![i] = NewReport]]
    OBVIOUS
  <2>2. /\ Tidy(q) /\ InTurn(q) /\ Passes(r, q)
        /\ Records(q) = Records(r) \cup {i} /\ Dark(q) = Dark(r) /\ q.slot[i] = NoSlot
    BY <1>2, <2>1, AddedKeeps
  <2>3. [r EXCEPT !.order = Append(@, i), !.slot[i] = NoSlot, !.report[i] = NewReport] = q
    <3>1. r = [slots |-> r.slots, generations |-> r.generations, order |-> r.order,
               slot |-> r.slot, report |-> r.report]
      BY DEF Tidy, Registry
    <3>2. PICK a, b, c : /\ a = Append(r.order, i) /\ b = [r.slot EXCEPT ![i] = NoSlot]
                         /\ c = [r.report EXCEPT ![i] = NewReport]
      OBVIOUS
    <3>3. PICK x : x = [r EXCEPT !.order = a]
      OBVIOUS
    <3>4. x = [slots |-> r.slots, generations |-> r.generations, order |-> a, slot |-> r.slot,
               report |-> r.report]
      BY <3>1, <3>3
    <3>5. PICK y : y = [x EXCEPT !.slot = b]
      OBVIOUS
    <3>6. y = [slots |-> r.slots, generations |-> r.generations, order |-> a, slot |-> b,
               report |-> r.report]
      BY <3>4, <3>5
    <3>7. [y EXCEPT !.report = c] = q
      <4>1. [y EXCEPT !.report = c] = [slots |-> r.slots, generations |-> r.generations,
                                       order |-> a, slot |-> b, report |-> c]
        BY <3>6
      <4> QED
        BY <2>1, <3>2, <4>1, Zenon
    <3>8. [r EXCEPT !.order = a, !.slot = b, !.report = c] = q
      BY <3>3, <3>5, <3>7, Zenon
    <3>9. [r EXCEPT !.order = Append(@, i), !.slot[i] = NoSlot, !.report[i] = NewReport]
            = [r EXCEPT !.order = a, !.slot = b, !.report = c]
      BY <3>2, Zenon DEF Tidy, Registry
    <3> QED
      BY <3>8, <3>9, Zenon
  <2>4. Upserted(r, i) = IF Dark(r) = {} THEN q ELSE Given(q, i, Min(Dark(r)))
    BY <1>2, <2>3 DEF Upserted
  <2>5. CASE Dark(r) = {}
    <3>1. Upserted(r, i) = q
      BY <2>4, <2>5
    <3> QED
      BY <2>2, <2>5, <3>1 DEF NoneWaits
  <2>6. CASE Dark(r) # {}
    <3>1. PICK s : s = Min(Dark(r))
      OBVIOUS
    <3>2. s \in Dark(q) /\ i \in Records(q)
      BY <2>2, <2>6, <3>1, SlotsAreNumbers, LeastNat, RegistryFields DEF Tidy
    <3>3. PICK p : p = Given(q, i, s)
      OBVIOUS
    <3>4. /\ Tidy(p) /\ Shrinks(q, p) /\ p.order = q.order /\ p.report = q.report
          /\ p.slot = [q.slot EXCEPT ![i] = s]
      BY <2>2, <3>2, <3>3, GivenKeeps
    <3>5. /\ q.slot \in [Instance -> Slot \cup {NoSlot}] /\ Records(q) \subseteq Instance
          /\ r.slot \in [Instance -> Slot \cup {NoSlot}] /\ Records(r) \subseteq Instance
          /\ s \in Slot /\ Records(p) = Records(q)
      BY <2>2, <3>2, <3>4, RegistryFields DEF Tidy, Records
    <3>6. \A j \in Records(r) : r.slot[j] # NoSlot
      BY <2>6 DEF NoneWaits
    <3>7. \A j \in Records(p) : p.slot[j] # NoSlot
      <4>1. \A j \in Records(r) : q.slot[j] = r.slot[j]
        BY <1>2, <2>1, <3>5
      <4> QED
        BY <2>2, <3>4, <3>5, <3>6, <4>1, SlotsAreNumbers
    <3>8. InTurn(p) /\ NoneWaits(p)
      <4>1. \A n \in DOMAIN p.order : p.order[n] \in Records(p)
        BY DEF Records, ToSet
      <4> QED
        BY <3>7, <4>1 DEF InTurn, NoneWaits
    <3>9. Passes(r, p)
      <4>1. \A j \in Records(r) : p.slot[j] = r.slot[j] /\ p.report[j] = r.report[j]
        <5>1. \A j \in Records(r) : j # i /\ q.slot[j] = r.slot[j] /\ q.report[j] = r.report[j]
          BY <1>2, <2>1, <3>5
        <5> QED
          BY <3>4, <3>5, <5>1
      <4>2. \A t \in Slot : /\ p.generations[t] >= r.generations[t]
                            /\ p.slots[t] # r.slots[t] => p.generations[t] > r.generations[t]
        BY <2>1, <3>4 DEF Shrinks, Follows
      <4>3. \A j \in Instance : p.report[j] \in {r.report[j], NewReport}
        BY <2>2, <3>4 DEF Passes
      <4> QED
        BY <4>1, <4>2, <4>3 DEF Passes, Follows
    <3> QED
      BY <2>4, <2>6, <3>1, <3>3, <3>4, <3>8, <3>9
  <2> QED
    BY <2>5, <2>6
<1> QED
  BY <1>1, <1>2

-----------------------------------------------------------------------------
\* The sweep, in the manner of Promoted.

SweptAt(r, q, n, dead) == IF r.order[n] \in dead THEN Removed(q, r.order[n]) ELSE q

SweptUpto(r, dead, after, n) ==
    after = [k \in 0 .. n |-> IF k = 0 THEN r ELSE SweptAt(r, after[k - 1], k, dead)]

LEMMA SweptExists ==
    ASSUME NEW r, NEW dead, NEW len \in Nat, NEW n \in 0 .. len
    PROVE  \E after : SweptUpto(r, dead, after, n)
<1> DEFINE bad == {k \in 0 .. len : ~ \E after : SweptUpto(r, dead, after, k)}
<1> SUFFICES ASSUME bad # {} PROVE FALSE
  BY DEF bad
<1>1. bad \subseteq Nat
  OBVIOUS
<1>2. PICK k \in bad : \A j \in bad : k <= j
  BY <1>1, LeastNat
<1>3. k \in 0 .. len /\ ~ \E after : SweptUpto(r, dead, after, k)
  BY <1>2
<1>4. CASE k = 0
  <2>1. SweptUpto(r, dead, [j \in 0 .. 0 |-> r], 0)
    BY DEF SweptUpto
  <2> QED
    BY <1>3, <1>4, <2>1
<1>5. CASE k # 0
  <2>1. k - 1 \in 0 .. len /\ k - 1 \notin bad
    <3> HIDE DEF bad
    <3>1. k - 1 \in 0 .. len /\ k \in Nat
      BY <1>3, <1>5
    <3> QED
      BY <1>1, <1>2, <3>1
  <2>2. PICK after : SweptUpto(r, dead, after, k - 1)
    BY <2>1
  <2>3. after = [j \in 0 .. k - 1 |-> IF j = 0 THEN r ELSE SweptAt(r, after[j - 1], j, dead)]
    BY <2>2 DEF SweptUpto
  <2> DEFINE more == [j \in 0 .. k |-> IF j = k THEN SweptAt(r, after[k - 1], k, dead) ELSE after[j]]
  <2>4. more[k - 1] = after[k - 1]
    BY <2>1, <1>3
  <2>5. ASSUME NEW j \in 0 .. k
        PROVE  more[j] = IF j = 0 THEN r ELSE SweptAt(r, more[j - 1], j, dead)
    <3>1. CASE j = k
      BY <1>3, <1>5, <2>4, <3>1
    <3>2. CASE j # k
      <4>1. j \in 0 .. k - 1
        BY <1>3, <3>2
      <4>2. after[j] = IF j = 0 THEN r ELSE SweptAt(r, after[j - 1], j, dead)
        BY <2>3, <4>1
      <4>3. more[j] = after[j] /\ (j # 0 => more[j - 1] = after[j - 1])
        BY <1>3, <3>2, <4>1
      <4> QED
        BY <4>2, <4>3
    <3> QED
      BY <3>1, <3>2
  <2>6. more = [j \in 0 .. k |-> IF j = 0 THEN r ELSE SweptAt(r, more[j - 1], j, dead)]
    BY <2>5
  <2> HIDE DEF more
  <2>7. SweptUpto(r, dead, more, k)
    BY <2>6 DEF SweptUpto
  <2> QED
    BY <1>3, <2>7
<1> QED
  BY <1>4, <1>5

LEMMA SweptKeeps ==
    ASSUME NEW r, Tidy(r), InTurn(r), NoneWaits(r), NEW dead
    PROVE  /\ Tidy(Swept(r, dead)) /\ InTurn(Swept(r, dead)) /\ NoneWaits(Swept(r, dead))
           /\ Shrinks(r, Swept(r, dead))
<1> DEFINE Good(q) == Tidy(q) /\ InTurn(q) /\ NoneWaits(q) /\ Shrinks(r, q)
           len == Len(r.order)
           after == CHOOSE f : SweptUpto(r, dead, f, len)
           bad == {k \in 0 .. len : ~ Good(after[k])}
<1>1. /\ r \in Registry /\ len \in Nat /\ DOMAIN r.order = 1 .. len
      /\ r.order \in Seq(Instance)
  BY RegistryFields DEF Tidy
<1>2. Swept(r, dead) = after[len]
  BY DEF Swept, SweptUpto, SweptAt
<1>3. SweptUpto(r, dead, after, len)
  <2>1. len \in 0 .. len
    BY <1>1
  <2>2. \E f : SweptUpto(r, dead, f, len)
    BY <1>1, <2>1, SweptExists
  <2> QED
    BY <2>2
<1> HIDE DEF after, len
<1>4. \A k \in 0 .. len : after[k] = IF k = 0 THEN r ELSE SweptAt(r, after[k - 1], k, dead)
  BY <1>3 DEF SweptUpto
<1>5. ASSUME bad # {} PROVE FALSE
  <2>1. PICK k \in bad : \A j \in bad : k <= j
    <3>1. bad \subseteq Nat
      BY <1>1
    <3> QED
      BY <1>5, <3>1, LeastNat
  <2>2. k \in 0 .. len /\ ~ Good(after[k])
    BY <2>1
  <2>3. CASE k = 0
    <3>1. after[0] = r
      BY <1>1, <1>4
    <3>2. Good(r)
      BY <1>1, FollowsItself
    <3> QED
      BY <2>2, <2>3, <3>1, <3>2
  <2>4. CASE k # 0
    <3>1. k - 1 \in 0 .. len /\ k \in 1 .. len
      BY <1>1, <2>2, <2>4
    <3>2. k - 1 \notin bad
      <4> HIDE DEF bad
      <4> QED
        BY <1>1, <2>1, <3>1
    <3>3. PICK q : q = after[k - 1]
      OBVIOUS
    <3>4. Good(q)
      BY <3>1, <3>2, <3>3
    <3>5. Good(SweptAt(r, q, k, dead))
      <4>1. CASE r.order[k] \in dead
        <5>1. r.order[k] \in Instance
          BY <1>1, <3>1
        <5>2. PICK i \in Instance : i = r.order[k]
          BY <5>1
        <5>3. PICK p : p = Removed(q, i)
          OBVIOUS
        <5>4. Tidy(p) /\ InTurn(p) /\ NoneWaits(p) /\ Shrinks(q, p)
          BY <3>4, <5>3, RemovedKeeps
        <5>5. Shrinks(r, p)
          BY <1>1, <3>4, <5>4, ShrinksOn DEF Tidy
        <5> QED
          BY <4>1, <5>2, <5>3, <5>4, <5>5 DEF SweptAt
      <4>2. CASE r.order[k] \notin dead
        BY <3>4, <4>2 DEF SweptAt
      <4> QED
        BY <4>1, <4>2
    <3> QED
      BY <1>4, <2>2, <2>4, <3>3, <3>5
  <2> QED
    BY <2>3, <2>4
<1>6. Good(after[len])
  <2>1. len \in 0 .. len
    BY <1>1
  <2> QED
    BY <1>5, <2>1
<1> QED
  BY <1>2, <1>6

-----------------------------------------------------------------------------
\* What a bridge says

\* A report follows another: a bridge that was replaced is not heard again, and
\* the numbers of one bridge grow.
Forward(p, q) ==
    /\ p.retired \cup ({p.producer} \ {q.producer, NoProducer}) \subseteq q.retired
    /\ q.producer \notin q.retired
    /\ q.producer = p.producer => q.seq >= p.seq

LEMMA SnapshotKeeps ==
    ASSUME NEW p \in Report, p.producer \notin p.retired, NEW m \in Puts
    PROVE  Snapshot(p, m) \in Report /\ Forward(p, Snapshot(p, m))
<1>1. /\ p.seq \in -1 .. MaxSeq /\ p.producer \in Producer \cup {NoProducer}
      /\ p.retired \in SUBSET Producer /\ p.status \in StatusSet
      /\ m.producer \in Producer /\ m.seq \in 0 .. MaxSeq
      /\ NoProducer \notin Producer /\ MaxSeq \in Nat
  BY NobodyAssumption, MaxSeqAssumption DEF Report, Puts
<1>2. CASE m.status \notin StatusSet \/ m.producer \in p.retired
  <2>1. Snapshot(p, m) = p
    BY <1>2 DEF Snapshot
  <2> QED
    BY <1>1, <2>1 DEF Forward
<1>3. CASE ~ (m.status \notin StatusSet \/ m.producer \in p.retired)
  <2>1. PICK t : t = Turned(p, m.producer)
    OBVIOUS
  <2>2. Snapshot(p, m) = Latest(t, m)
    BY <1>3, <2>1 DEF Snapshot
  <2>3. /\ t \in Report /\ t.producer = m.producer
        /\ m.producer = p.producer => t = p
        /\ m.producer # p.producer =>
             /\ t.seq = -1
             /\ t.retired = IF p.producer = NoProducer THEN p.retired
                            ELSE p.retired \cup {p.producer}
    <3>1. CASE p.producer = m.producer
      BY <2>1, <3>1 DEF Turned
    <3>2. CASE p.producer # m.producer
      <4>1. PICK old : old = IF p.producer = NoProducer THEN p.retired
                             ELSE p.retired \cup {p.producer}
        OBVIOUS
      <4>2. old \in SUBSET Producer
        BY <1>1, <4>1
      <4>3. t = [p EXCEPT !.retired = old, !.producer = m.producer, !.seq = -1]
        BY <2>1, <3>2, <4>1, Zenon DEF Turned, Report
      <4>4. t = [seq |-> -1, producer |-> m.producer, retired |-> old, status |-> p.status]
        BY <4>3 DEF Report
      <4>5. t \in Report
        BY <1>1, <4>2, <4>4 DEF Report
      <4> QED
        BY <3>2, <4>1, <4>4, <4>5
    <3> QED
      BY <3>1, <3>2
  <2>4. /\ t.seq \in -1 .. MaxSeq /\ t.producer \in Producer \cup {NoProducer}
        /\ t.retired \in SUBSET Producer /\ t.status \in StatusSet
    BY <2>3 DEF Report
  <2>5. PICK q : q = Latest(t, m)
    OBVIOUS
  <2>6. /\ q \in Report /\ q.producer = t.producer /\ q.retired = t.retired
        /\ q.seq >= t.seq
    <3>1. CASE m.seq <= t.seq
      BY <2>3, <2>4, <2>5, <3>1 DEF Latest
    <3>2. CASE ~ (m.seq <= t.seq)
      <4>1. q = [t EXCEPT !.seq = m.seq, !.status = m.status]
        BY <2>5, <3>2 DEF Latest
      <4>2. q = [seq |-> m.seq, producer |-> t.producer, retired |-> t.retired,
                 status |-> m.status]
        BY <2>3, <4>1 DEF Report
      <4> QED
        BY <1>1, <1>3, <2>4, <3>2, <4>2 DEF Report
    <3> QED
      BY <3>1, <3>2
  <2>7. Forward(p, q)
    <3>1. CASE m.producer = p.producer
      BY <1>1, <1>3, <2>3, <2>6, <3>1 DEF Forward
    <3>2. CASE m.producer # p.producer
      <4>1. p.retired \cup ({p.producer} \ {q.producer, NoProducer}) \subseteq q.retired
        BY <2>3, <2>6, <3>2
      <4>2. q.producer \notin q.retired
        BY <1>3, <2>3, <2>6, <3>2
      <4> QED
        BY <2>3, <2>6, <3>2, <4>1, <4>2 DEF Forward
    <3> QED
      BY <3>1, <3>2
  <2> QED
    BY <2>2, <2>5, <2>6, <2>7
<1> QED
  BY <1>2, <1>3

-----------------------------------------------------------------------------
\* The registry in every state

\* The requests in flight come from launches.
Asked == net \subseteq [kind : {"register", "delete"}, inst : Instance]

Sound(r) == Tidy(r) /\ InTurn(r) /\ NoneWaits(r) /\ OneVoice(r)

RegInv == Sound(reg) /\ Asked

\* From r to q the keys follow, and so do the reports of those who stay.
Moves(r, q) ==
    /\ Follows(r, q)
    /\ \A i \in Records(r) \cap Records(q) : Forward(r.report[i], q.report[i])

LEMMA PassesMoves ==
    ASSUME NEW r, Sound(r), NEW q, Tidy(q), InTurn(q), NoneWaits(q), Passes(r, q)
    PROVE  Sound(q) /\ Moves(r, q)
<1>1. r.report \in [Instance -> Report] /\ Records(r) \subseteq Instance
  BY RegistryFields DEF Sound, Tidy
<1>2. OneVoice(q)
  BY DEF OneVoice, Sound, Passes, NewReport
<1>3. ASSUME NEW i \in Records(r) \cap Records(q)
      PROVE  Forward(r.report[i], q.report[i])
  <2>1. q.report[i] = r.report[i]
    BY DEF Passes
  <2>2. r.report[i].producer \notin r.report[i].retired
    BY <1>1 DEF Sound, OneVoice
  <2>3. r.report[i].seq \in Int
    BY <1>1, MaxSeqAssumption DEF Report
  <2> QED
    BY <2>1, <2>2, <2>3 DEF Forward
<1> QED
  BY <1>2, <1>3 DEF Sound, Moves, Passes

\* A report is heard.
LEMMA PutMoves ==
    ASSUME NEW r, Sound(r), NEW i \in Records(r), NEW m \in Puts, NEW q,
           q = [slots |-> r.slots, generations |-> r.generations, order |-> r.order,
                slot |-> r.slot, report |-> [r.report EXCEPT ![i] = Snapshot(r.report[i], m)]]
    PROVE  Sound(q) /\ Moves(r, q)
<1>1. /\ r \in Registry /\ r.slots \in [Slot -> Instance \cup {NoInstance}]
      /\ r.generations \in [Slot -> Nat] /\ r.order \in Seq(Instance)
      /\ r.slot \in [Instance -> Slot \cup {NoSlot}] /\ r.report \in [Instance -> Report]
      /\ Records(r) \subseteq Instance
  BY RegistryFields DEF Sound, Tidy
<1>2. \A j \in Instance : r.report[j].producer \notin r.report[j].retired
  BY DEF Sound, OneVoice
<1>3. PICK p \in Report : p = r.report[i]
  BY <1>1
<1>4. PICK s : s = Snapshot(p, m)
  OBVIOUS
<1>5. s \in Report /\ Forward(p, s)
  BY <1>1, <1>2, <1>3, <1>4, SnapshotKeeps
<1>6. /\ q.slots = r.slots /\ q.generations = r.generations /\ q.order = r.order
      /\ q.slot = r.slot /\ q.report = [r.report EXCEPT ![i] = s]
  BY <1>3, <1>4
<1>7. Records(q) = Records(r) /\ Dark(q) = Dark(r)
  BY <1>6 DEF Records, Dark
<1>8. Tidy(q)
  <2>1. q \in Registry
    BY <1>1, <1>5, <1>6 DEF Registry
  <2> QED
    BY <1>6, <1>7, <2>1 DEF Sound, Tidy
<1>9. InTurn(q) /\ NoneWaits(q)
  BY <1>6, <1>7 DEF Sound, InTurn, NoneWaits
<1>10. \A j \in Instance : q.report[j] = IF j = i THEN s ELSE r.report[j]
  BY <1>1, <1>6
<1>11. OneVoice(q)
  BY <1>2, <1>5, <1>10 DEF OneVoice, Forward
<1>12. Moves(r, q)
  <2>1. ASSUME NEW j \in Records(r) PROVE Forward(r.report[j], q.report[j])
    <3>1. CASE j = i
      BY <1>1, <1>3, <1>5, <1>10, <3>1
    <3>2. CASE j # i
      <4>1. r.report[j] \in Report /\ q.report[j] = r.report[j]
        BY <1>1, <1>10, <3>2
      <4>2. r.report[j].seq \in Int
        BY <4>1, MaxSeqAssumption DEF Report
      <4>3. r.report[j].producer \notin r.report[j].retired
        BY <1>1, <1>2
      <4> QED
        BY <4>1, <4>2, <4>3 DEF Forward
    <3> QED
      BY <3>1, <3>2
  <2>2. Follows(r, q)
    BY <1>1, <1>6 DEF Follows
  <2> QED
    BY <2>1, <2>2 DEF Moves
<1> QED
  BY <1>8, <1>9, <1>11, <1>12 DEF Sound

LEMMA EmptyIsSound == Sound(EmptyRegistry)
<1> DEFINE e == EmptyRegistry
<1>1. /\ e.slots = [s \in Slot |-> NoInstance] /\ e.generations = [s \in Slot |-> 0]
      /\ e.order = <<>> /\ e.slot = [i \in Instance |-> NoSlot]
      /\ e.report = [i \in Instance |-> NewReport]
  BY DEF EmptyRegistry
<1>2. e \in Registry
  <2>1. NewReport \in Report
    BY MaxSeqAssumption DEF NewReport, Report, StatusSet
  <2>2. <<>> \in Seq(Instance)
    OBVIOUS
  <2> QED
    BY <2>1, <2>2 DEF EmptyRegistry, Registry
<1> HIDE DEF e
<1>3. Records(e) = {} /\ DOMAIN e.order = {}
  BY <1>1 DEF Records, ToSet
<1>4. Tidy(e)
  BY <1>1, <1>2, <1>3, NobodyAssumption DEF Tidy
<1>5. InTurn(e) /\ NoneWaits(e)
  BY <1>3 DEF InTurn, NoneWaits
<1>6. OneVoice(e)
  BY <1>1 DEF OneVoice, NewReport
<1> QED
  BY <1>4, <1>5, <1>6 DEF Sound, e

LEMMA RegistryInit == Init => RegInv
  BY EmptyIsSound DEF Init, RegInv, Asked

\* What a step does to the registry.
LEMMA RegistryStep ==
    ASSUME RegInv, [Next]_vars
    PROVE  RegInv' /\ (Ended \/ Moves(reg, reg'))
<1> USE DEF RegInv
<1>1. PICK r, q : r = reg /\ q = reg'
  OBVIOUS
<1>2. Sound(r) /\ Tidy(r) /\ InTurn(r) /\ NoneWaits(r) /\ Sound(reg)
  BY <1>1 DEF Sound
<1> SUFFICES Asked' /\ Sound(q) /\ (Ended \/ Moves(r, q))
  BY <1>1
<1>3. CASE reg' = reg /\ net' \subseteq net
  <2>1. Passes(r, r)
    BY <1>2, FollowsItself, ShrinksPasses DEF Tidy
  <2> QED
    BY <1>1, <1>2, <1>3, <2>1, PassesMoves DEF Asked
<1>4. ASSUME NEW i \in Instance, Beat(i) \/ End(i)
      PROVE  Asked' /\ reg' = reg
  BY <1>4 DEF Beat, End, Sent, Register, Delete, Asked
<1>5. ASSUME NEW m \in net, Handle(m)
      PROVE  Asked' /\ Sound(q) /\ Moves(r, q)
  <2>1. PICK i \in Instance : i = m.inst
    BY DEF Asked
  <2>2. CASE HandleRegister(m)
    <3>1. Asked'
      BY <2>2 DEF HandleRegister, Dispatch, Asked
    <3>2. CASE q = r
      <4>1. Passes(r, r)
        BY <1>2, FollowsItself, ShrinksPasses DEF Tidy
      <4> QED
        BY <1>2, <3>1, <3>2, <4>1, PassesMoves
    <3>3. CASE q = Upserted(r, i)
      BY <1>2, <3>1, <3>3, UpsertedKeeps, PassesMoves
    <3>4. q = r \/ q = Upserted(r, i)
      BY <1>1, <2>1, <2>2 DEF HandleRegister
    <3> QED
      BY <3>2, <3>3, <3>4
  <2>3. CASE HandleDelete(m)
    <3>1. Asked'
      BY <2>3 DEF HandleDelete, Dispatch, Asked
    <3>2. q = Removed(r, i)
      BY <1>1, <2>1, <2>3 DEF HandleDelete
    <3> QED
      BY <1>2, <3>1, <3>2, RemovedKeeps, ShrinksPasses, PassesMoves
  <2> QED
    BY <1>5, <2>2, <2>3 DEF Handle
<1>6. ASSUME Sweep
      PROVE  Asked' /\ Sound(q) /\ Moves(r, q)
  <2>1. PICK dead : dead = Dead
    OBVIOUS
  <2>2. q = Swept(r, dead) /\ net' = net
    BY <1>1, <1>6, <2>1 DEF Sweep
  <2>3. Sound(q) /\ Moves(r, q)
    BY <1>2, <2>2, SweptKeeps, ShrinksPasses, PassesMoves
  <2> QED
    BY <2>2, <2>3 DEF Asked
<1>7. ASSUME NEW i \in Reporting, NEW m \in Puts, HandlePut(i, m)
      PROVE  Asked' /\ Sound(q) /\ Moves(r, q)
  <2>1. i \in Records(r) /\ net' = net
    BY <1>1, <1>7 DEF HandlePut
  <2>2. q = [r EXCEPT !.report[i] = Snapshot(@, m)]
    BY <1>1, <1>7 DEF HandlePut
  <2>3. q = [slots |-> r.slots, generations |-> r.generations, order |-> r.order,
             slot |-> r.slot, report |-> [r.report EXCEPT ![i] = Snapshot(r.report[i], m)]]
    BY <1>2, <2>2 DEF Tidy, Registry
  <2>4. Sound(q) /\ Moves(r, q)
    BY <1>2, <2>1, <2>3, PutMoves
  <2> QED
    BY <2>1, <2>4 DEF Asked
<1>8. ASSUME Ended
      PROVE  Asked' /\ Sound(q)
  BY <1>1, <1>8, EmptyIsSound DEF Ended, Asked
<1>9. CASE Next
  <2>1. CASE \E i \in Instance : Client(i)
    <3>1. PICK i \in Instance : Client(i)
      BY <2>1
    <3>2. CASE Beat(i) \/ End(i)
      <4>1. Asked' /\ reg' = reg
        BY <1>4, <3>2
      <4>2. Passes(r, r)
        BY <1>2, FollowsItself, ShrinksPasses DEF Tidy
      <4> QED
        BY <1>1, <1>2, <4>1, <4>2, PassesMoves
    <3>3. CASE Launch(i) \/ Exit(i) \/ Kill(i)
      BY <1>3, <3>3 DEF Launch, Exit, Kill
    <3> QED
      BY <3>1, <3>2, <3>3 DEF Client
  <2>2. CASE \E m \in net : Handle(m)
    BY <1>5, <2>2
  <2>3. CASE Sweep
    BY <1>6, <2>3
  <2>4. CASE \E i \in Reporting, m \in Puts : HandlePut(i, m)
    BY <1>7, <2>4
  <2>5. CASE HandlePress \/ Thread \/ Fail
    BY <1>3, <2>5 DEF HandlePress, Thread, Open, Draw, Present, Fail
  <2>6. CASE \E moved \in BOOLEAN : TakeView(moved)
    BY <1>3, <2>6 DEF TakeView
  <2>7. CASE \E s \in Slot : Press(s)
    BY <1>3, <2>7 DEF Press
  <2>8. CASE Crash \/ Stop
    BY <1>8, <2>8 DEF Crash, Stop
  <2>9. CASE Restart
    BY <1>3, <2>9 DEF Restart
  <2> QED
    BY <1>9, <2>1, <2>2, <2>3, <2>4, <2>5, <2>6, <2>7, <2>8, <2>9 DEF Next
<1>10. CASE UNCHANGED vars
  BY <1>3, <1>10 DEF vars
<1> QED
  BY <1>9, <1>10

LEMMA RegistryAlways == Spec => []RegInv
<1>1. RegInv /\ [Next]_vars => RegInv'
  BY RegistryStep
<1> QED
  BY RegistryInit, <1>1, PTL DEF Spec

\* Whatever the requests, the sweeps, the crashes and their order, the records
\* and the keys tell the same story, no agent waits without a key while a key is
\* dark, and none takes a key before one that registered earlier (model.py
\* upsert, remove and sweep).
THEOREM KeysAreNeverWasted == Spec => []NoKeyWasted
<1>1. RegInv => NoKeyWasted
  <2> SUFFICES ASSUME RegInv PROVE NoKeyWasted
    OBVIOUS
  <2>1. reg \in Registry /\ DOMAIN reg.order = 1 .. Len(reg.order)
    BY RegistryFields DEF RegInv, Sound, Tidy
  <2> QED
    BY <2>1 DEF RegInv, Sound, Tidy, InTurn, NoneWaits, NoKeyWasted
<1> QED
  BY RegistryAlways, <1>1, PTL

\* No step, in whatever order the reports arrive, makes a launch that stays
\* registered say something older: a bridge that was replaced stays silent and
\* the numbers of one bridge grow (model.py snapshot).
THEOREM ReportsNeverGoBack == Spec => ReportsOnlyGoForward
<1> DEFINE A == \A i \in Records(reg) :
                  i \in Records(reg') =>
                    LET p == reg.report[i]
                        q == reg'.report[i]
                    IN /\ p.retired \cup ({p.producer} \ {q.producer, NoProducer}) \subseteq q.retired
                       /\ q.producer \notin q.retired
                       /\ q.producer = p.producer => q.seq >= p.seq
<1>1. RegInv /\ [Next]_vars => [A]_vars
  <2> SUFFICES ASSUME RegInv, [Next]_vars PROVE A
    OBVIOUS
  <2>1. CASE Ended
    BY <2>1 DEF Ended, EmptyRegistry, Records, ToSet
  <2>2. CASE Moves(reg, reg')
    BY <2>2 DEF Moves, Forward
  <2> QED
    BY <2>1, <2>2, RegistryStep
<1> QED
  BY RegistryAlways, <1>1, PTL DEF Spec, ReportsOnlyGoForward

-----------------------------------------------------------------------------
\* The abstract assignment

\* No launch is on two keys of q, and none has moved between r and q.
LEMMA NobodyMoves ==
    ASSUME NEW r, Tidy(r), NEW q, Tidy(q), Follows(r, q), NEW s \in Slot, NEW t \in Slot
    PROVE  /\ q.slots[s] = q.slots[t] /\ q.slots[s] # NoInstance => s = t
           /\ r.slots[s] = q.slots[t] /\ r.slots[s] # NoInstance => s = t
<1>1. /\ r.slots \in [Slot -> Instance \cup {NoInstance}]
      /\ q.slots \in [Slot -> Instance \cup {NoInstance}] /\ NoSlot \notin Slot
  BY RegistryFields, SlotsAreNumbers DEF Tidy
<1>2. \A i \in Instance, u \in Slot : /\ r.slots[u] = i <=> i \in Records(r) /\ r.slot[i] = u
                                      /\ q.slots[u] = i <=> i \in Records(q) /\ q.slot[i] = u
  BY DEF Tidy
<1>3. ASSUME q.slots[s] = q.slots[t], q.slots[s] # NoInstance
      PROVE  s = t
  BY <1>1, <1>2, <1>3
<1>4. ASSUME r.slots[s] = q.slots[t], r.slots[s] # NoInstance
      PROVE  s = t
  <2>1. PICK i \in Instance : r.slots[s] = i /\ q.slots[t] = i
    BY <1>1, <1>4
  <2>2. /\ i \in Records(r) /\ r.slot[i] = s /\ i \in Records(q) /\ q.slot[i] = t
    BY <1>2, <2>1
  <2>3. q.slot[i] = r.slot[i]
    BY <1>1, <2>2 DEF Follows
  <2> QED
    BY <2>2, <2>3
<1> QED
  BY <1>3, <1>4

\* Whatever its threads and its clients do, the broker assigns its keys as the
\* abstract specification of both decks says: no key is shared, no launch moves
\* from one key to another, and a key that goes to another launch has a later
\* generation, until the process ends and starts with dark keys.
THEOREM ImplementsSlotAssignment == Spec => ImplementsAssignment
<1>1. Init => Assignment!Init
  BY DEF Init, EmptyRegistry, Assignment!Init
<1>2. RegInv /\ [Next]_vars => [Assignment!Next]_<<reg.slots, reg.generations>>
  <2> SUFFICES ASSUME RegInv, [Next]_vars PROVE Assignment!Next
    OBVIOUS
  <2>1. RegInv' /\ (Ended \/ Moves(reg, reg'))
    BY RegistryStep
  <2>2. CASE Ended
    <3>1. Assignment!Restart
      BY <2>2 DEF Ended, EmptyRegistry, Assignment!Restart
    <3> QED
      BY <3>1 DEF Assignment!Next
  <2>3. CASE Moves(reg, reg')
    <3>1. PICK r, q : r = reg /\ q = reg'
      OBVIOUS
    <3>2. Tidy(r) /\ Tidy(q) /\ Follows(r, q)
      BY <2>1, <2>3, <3>1 DEF RegInv, Sound, Moves
    <3>3. /\ q.slots \in [Slot -> Instance \cup {NoInstance}] /\ q.generations \in [Slot -> Nat]
      BY <3>2, RegistryFields DEF Tidy
    <3>4. \A s, t \in Slot : /\ q.slots[s] = q.slots[t] /\ q.slots[s] # NoInstance => s = t
                             /\ r.slots[s] = q.slots[t] /\ r.slots[s] # NoInstance => s = t
      BY <3>2, NobodyMoves
    <3>5. /\ \A s \in Slot : q.generations[s] >= r.generations[s]
          /\ \A s \in Slot : q.slots[s] \notin {r.slots[s], NoInstance} =>
                               q.generations[s] > r.generations[s]
      BY <3>2 DEF Follows
    <3>6. Assignment!Exclusive /\ Assignment!NoMove
      BY <3>1, <3>4 DEF Assignment!Exclusive, Assignment!NoMove
    <3>7. Assignment!Reassign
      BY <3>1, <3>3, <3>5, <3>6 DEF Assignment!Reassign
    <3> QED
      BY <3>7 DEF Assignment!Next
  <2> QED
    BY <2>1, <2>2, <2>3
<1> QED
  BY RegistryAlways, <1>1, <1>2, PTL DEF Spec, ImplementsAssignment, Assignment!Spec

-----------------------------------------------------------------------------
\* Pictures and presses

\* What a key may be drawn from.
Views ==
    [inst : Instance \cup {NoInstance}, generation : Nat,
     state : {"none", "off", "ready", "input", "running", "idle", "unknown"}]

Taken ==
    [slot : Slot, inst : Instance \cup {NoInstance}, generation : Nat,
     shown : Instance \cup {NoInstance}]

PictureTypes ==
    /\ presented \in [Slot -> Views]
    /\ shown \in [Slot -> Instance \cup {NoInstance}]
    /\ dev \in [pc : {"closed", "view", "draw", "present"}, todo : SUBSET Slot,
                views : [Slot -> Views]]
    /\ dev.pc \in {"draw", "present"} => dev.todo # {}
    /\ dev.pc = "closed" => presented = NoViews
    /\ presses \in Seq(Taken)

\* A view of a key that names its present turn names its present holder.
Timely(v, s, r) ==
    v.inst # NoInstance =>
        /\ v.generation <= r.generations[s]
        /\ v.generation = r.generations[s] => v.inst = r.slots[s]

\* The key has changed hands since the view was taken.
Past(v, s, r) == v.generation < r.generations[s]

\* What the view presented says of its key is what is pictured there, unless
\* the key has changed hands since.
KeyHolds(s) ==
    /\ Timely(presented[s], s, reg)
    /\ presented[s].inst \in {NoInstance, shown[s]} \/ Past(presented[s], s, reg)

\* A view that is going to be drawn is later than the one presented.
DrawHolds(s) ==
    /\ dev.views[s].generation <= reg.generations[s]
    /\ Timely(dev.views[s], s, reg)
    /\ \/ presented[s].inst \in {NoInstance, dev.views[s].inst}
       \/ presented[s].generation < dev.views[s].generation

PressHolds(p) == p.inst = p.shown \/ Past(p, p.slot, reg)

PicturesHold ==
    /\ \A s \in Slot : KeyHolds(s)
    /\ dev.pc \in {"draw", "present"} => \A s \in dev.todo : DrawHolds(s)
    /\ dev.pc = "present" => shown[Min(dev.todo)] = dev.views[Min(dev.todo)].inst
    /\ \A n \in DOMAIN presses : PressHolds(presses[n])

PictureInv == PictureTypes /\ PicturesHold

LEMMA NoViewsAreViews ==
    /\ NoViews \in [Slot -> Views] /\ Off \in [Slot -> Instance \cup {NoInstance}]
    /\ \A s \in Slot : NoViews[s].inst = NoInstance
    /\ Closed.pc = "closed" /\ Closed.todo = {} /\ Closed.views \in [Slot -> Views]
<1>1. NoView \in Views /\ NoView.inst = NoInstance
  BY DEF NoView, Views
<1> QED
  BY <1>1 DEF NoViews, Off, Closed

LEMMA TimelyStays ==
    ASSUME NEW r, NEW q, Tidy(r), Tidy(q), Follows(r, q), NEW v \in Views, NEW s \in Slot,
           Timely(v, s, r)
    PROVE  Timely(v, s, q)
<1>1. v.generation \in Nat /\ r.generations[s] \in Nat /\ q.generations[s] \in Nat
  BY RegistryFields DEF Tidy, Views
<1>2. /\ q.generations[s] >= r.generations[s]
      /\ q.slots[s] # r.slots[s] => q.generations[s] > r.generations[s]
  BY DEF Follows
<1> QED
  BY <1>1, <1>2 DEF Timely

LEMMA PictureInit == Init => PictureInv
<1> SUFFICES ASSUME Init PROVE PictureInv
  OBVIOUS
<1>1. /\ presented = NoViews /\ shown = Off /\ dev = Closed /\ presses = <<>>
  BY DEF Init
<1>2. PictureTypes
  <2>1. dev \in [pc : {"closed", "view", "draw", "present"}, todo : SUBSET Slot,
                 views : [Slot -> Views]]
    BY <1>1, NoViewsAreViews DEF Closed
  <2>2. presses \in Seq(Taken) /\ dev.pc = "closed"
    BY <1>1, NoViewsAreViews
  <2> QED
    BY <1>1, <2>1, <2>2, NoViewsAreViews DEF PictureTypes
<1>3. PicturesHold
  BY <1>1, NoViewsAreViews DEF PicturesHold, KeyHolds, Timely
<1> QED
  BY <1>2, <1>3 DEF PictureInv

\* The registry moves on and the device thread stands still.
LEMMA PicturesStay ==
    ASSUME RegInv, RegInv', PictureInv, Moves(reg, reg'), UNCHANGED device,
           presses' \in Seq(Taken),
           \A n \in DOMAIN presses' : \E m \in DOMAIN presses : presses'[n] = presses[m]
    PROVE  PictureInv'
<1> USE DEF device
<1>1. PICK r, q : r = reg /\ q = reg'
  OBVIOUS
<1>2. Tidy(r) /\ Tidy(q) /\ Follows(r, q)
  BY <1>1 DEF RegInv, Sound, Moves
<1>3. \A s \in Slot : /\ r.generations[s] \in Nat /\ q.generations[s] \in Nat
                      /\ q.generations[s] >= r.generations[s]
  BY <1>2, RegistryFields DEF Tidy, Follows
<1>4. \A v \in Views, s \in Slot : Timely(v, s, r) => Timely(v, s, q)
  BY <1>2, TimelyStays
<1>5. PictureTypes'
  BY DEF PictureInv, PictureTypes
<1>6. ASSUME NEW s \in Slot PROVE KeyHolds(s)'
  <2>1. presented[s] \in Views /\ presented[s].generation \in Nat
    BY DEF PictureInv, PictureTypes, Views
  <2>2. Timely(presented[s], s, r)
    BY <1>1 DEF PictureInv, PicturesHold, KeyHolds
  <2>3. Timely(presented[s], s, q)
    BY <1>4, <2>1, <2>2
  <2>4. presented[s].inst \in {NoInstance, shown[s]} \/ Past(presented[s], s, r)
    BY <1>1 DEF PictureInv, PicturesHold, KeyHolds
  <2>5. presented[s].inst \in {NoInstance, shown[s]} \/ Past(presented[s], s, q)
    BY <1>3, <2>1, <2>4 DEF Past
  <2> QED
    BY <1>1, <2>3, <2>5 DEF KeyHolds
<1>7. ASSUME dev.pc \in {"draw", "present"}, NEW s \in dev.todo PROVE DrawHolds(s)'
  <2>1. s \in Slot /\ dev.views[s] \in Views /\ dev.views[s].generation \in Nat
    BY DEF PictureInv, PictureTypes, Views
  <2>2. /\ dev.views[s].generation <= r.generations[s] /\ Timely(dev.views[s], s, r)
        /\ \/ presented[s].inst \in {NoInstance, dev.views[s].inst}
           \/ presented[s].generation < dev.views[s].generation
    BY <1>1, <1>7 DEF PictureInv, PicturesHold, DrawHolds
  <2>3. dev.views[s].generation <= q.generations[s] /\ Timely(dev.views[s], s, q)
    BY <1>3, <1>4, <2>1, <2>2
  <2> QED
    BY <1>1, <2>2, <2>3 DEF DrawHolds
<1>8. ASSUME NEW n \in DOMAIN presses' PROVE PressHolds(presses[n])'
  <2>1. PICK m \in DOMAIN presses : presses'[n] = presses[m]
    OBVIOUS
  <2>2. PICK p \in Taken : p = presses[m]
    BY <2>1 DEF PictureInv, PictureTypes
  <2>3. p.slot \in Slot /\ p.generation \in Nat
    BY DEF Taken
  <2>4. p.inst = p.shown \/ Past(p, p.slot, r)
    BY <1>1, <2>1, <2>2 DEF PictureInv, PicturesHold, PressHolds
  <2>5. p.inst = p.shown \/ Past(p, p.slot, q)
    BY <1>3, <2>3, <2>4 DEF Past
  <2> QED
    BY <1>1, <2>1, <2>2, <2>5 DEF PressHolds
<1>9. dev'.pc = "present" => shown'[Min(dev'.todo)] = dev'.views[Min(dev'.todo)].inst
  BY DEF PictureInv, PicturesHold
<1>10. PicturesHold'
  BY <1>6, <1>7, <1>8, <1>9 DEF PicturesHold
<1> QED
  BY <1>5, <1>10 DEF PictureInv

\* What is wanted on a key is of its present turn.
LEMMA WantedIs ==
    ASSUME RegInv
    PROVE  /\ Wanted \in [Slot -> Views]
           /\ \A s \in Slot : /\ Wanted[s].inst = reg.slots[s]
                              /\ Wanted[s].generation = reg.generations[s]
<1>1. /\ reg.slots \in [Slot -> Instance \cup {NoInstance}]
      /\ reg.generations \in [Slot -> Nat] /\ reg.report \in [Instance -> Report]
      /\ Records(reg) \subseteq Instance
  BY RegistryFields DEF RegInv, Sound, Tidy
<1>2. \A i \in Instance : State(reg.report[i]) \in {"input", "running", "idle", "unknown"}
  <2>1. \A i \in Instance : reg.report[i].status \in StatusSet
    BY <1>1 DEF Report
  <2> QED
    BY <2>1 DEF State, StatusSet
<1>3. PICK v : v = View(reg)
  OBVIOUS
<1>4. /\ v \in [Slot -> Views]
      /\ \A s \in Slot : v[s].inst = reg.slots[s] /\ v[s].generation = reg.generations[s]
  <2>1. ASSUME NEW s \in Slot
        PROVE  /\ v[s] \in Views /\ v[s].inst = reg.slots[s]
               /\ v[s].generation = reg.generations[s]
    <3>1. PICK x : x = IF reg.slots[s] \in Records(reg) THEN State(reg.report[reg.slots[s]])
                       ELSE "off"
      OBVIOUS
    <3>2. x \in {"none", "off", "ready", "input", "running", "idle", "unknown"}
      <4>1. CASE reg.slots[s] \in Records(reg)
        BY <1>1, <1>2, <3>1, <4>1
      <4>2. CASE reg.slots[s] \notin Records(reg)
        BY <3>1, <4>2
      <4> QED
        BY <4>1, <4>2
    <3>3. v[s] = [inst |-> reg.slots[s], generation |-> reg.generations[s], state |-> x]
      BY <1>3, <3>1 DEF View
    <3> QED
      BY <1>1, <3>2, <3>3 DEF Views
  <2>2. v = [s \in Slot |-> v[s]]
    BY <1>3 DEF View
  <2> QED
    BY <2>1, <2>2
<1>5. CASE Dark(reg) = Slot
  <2>1. Wanted = [v EXCEPT ![0].state = "ready"]
    BY <1>3, <1>5 DEF Wanted
  <2>2. 0 \in Slot
    BY SlotCountAssumption DEF Slot
  <2>3. PICK w : w = [v[0] EXCEPT !.state = "ready"]
    OBVIOUS
  <2>4. w \in Views /\ w.inst = v[0].inst /\ w.generation = v[0].generation
    BY <1>4, <2>2, <2>3 DEF Views
  <2>5. Wanted = [v EXCEPT ![0] = w]
    BY <2>1, <2>3
  <2> QED
    BY <1>4, <2>2, <2>4, <2>5
<1>6. CASE Dark(reg) # Slot
  BY <1>3, <1>4, <1>6 DEF Wanted
<1> QED
  BY <1>5, <1>6

LEMMA MinOfTodo ==
    ASSUME PictureTypes, dev.pc \in {"draw", "present"}
    PROVE  Min(dev.todo) \in dev.todo /\ Min(dev.todo) \in Slot
<1>1. dev.todo \subseteq Slot /\ dev.todo # {}
  BY DEF PictureTypes
<1>2. dev.todo \subseteq Nat
  BY <1>1, SlotsAreNumbers
<1> QED
  BY <1>1, <1>2, LeastNat

\* Each step of the device thread.
LEMMA OpenHolds ==
    ASSUME PictureInv, Open
    PROVE  PictureInv'
<1>1. /\ dev' = [pc |-> "view", todo |-> {}, views |-> NoViews] /\ shown' = Off
      /\ presented' = presented /\ presses' = presses /\ reg' = reg /\ presented = NoViews
  BY DEF Open, Closed, PictureInv, PictureTypes
<1>2. PictureTypes'
  BY <1>1, NoViewsAreViews DEF PictureInv, PictureTypes
<1>3. \A s \in Slot : presented'[s].inst = NoInstance
  BY <1>1, NoViewsAreViews
<1>4. \A s \in Slot : KeyHolds(s)'
  BY <1>3 DEF KeyHolds, Timely
<1>5. \A n \in DOMAIN presses' : PressHolds(presses[n])'
  BY <1>1 DEF PictureInv, PicturesHold, PressHolds
<1>6. PicturesHold'
  BY <1>1, <1>4, <1>5 DEF PicturesHold
<1> QED
  BY <1>2, <1>6 DEF PictureInv

LEMMA TakeViewHolds ==
    ASSUME RegInv, PictureInv, NEW moved \in BOOLEAN, TakeView(moved)
    PROVE  PictureInv'
<1>1. /\ dev' = [pc |-> "draw", todo |-> ToDraw(moved), views |-> Wanted]
      /\ ToDraw(moved) # {} /\ ToDraw(moved) \subseteq Slot
      /\ reg' = reg /\ presented' = presented /\ shown' = shown /\ presses' = presses
  BY DEF TakeView, ToDraw
<1>2. /\ Wanted \in [Slot -> Views]
      /\ \A s \in Slot : /\ Wanted[s].inst = reg.slots[s]
                         /\ Wanted[s].generation = reg.generations[s]
  BY WantedIs
<1>3. PictureTypes'
  BY <1>1, <1>2 DEF PictureInv, PictureTypes
<1>4. ASSUME NEW s \in Slot PROVE DrawHolds(s)'
  <2>1. dev'.views[s].inst = reg.slots[s] /\ dev'.views[s].generation = reg.generations[s]
    BY <1>1, <1>2
  <2>2. reg.generations[s] \in Nat /\ presented[s].generation \in Nat
    BY RegistryFields DEF RegInv, Sound, Tidy, PictureInv, PictureTypes, Views
  <2>3. Timely(presented[s], s, reg)
    BY DEF PictureInv, PicturesHold, KeyHolds
  <2>4. \/ presented[s].inst \in {NoInstance, reg.slots[s]}
        \/ presented[s].generation < reg.generations[s]
    BY <2>2, <2>3 DEF Timely
  <2> QED
    BY <1>1, <2>1, <2>2, <2>4 DEF DrawHolds, Timely
<1>5. \A s \in Slot : KeyHolds(s)'
  BY <1>1 DEF PictureInv, PicturesHold, KeyHolds
<1>6. \A n \in DOMAIN presses' : PressHolds(presses[n])'
  BY <1>1 DEF PictureInv, PicturesHold, PressHolds
<1>7. dev'.pc = "draw" /\ dev'.todo \subseteq Slot
  BY <1>1
<1>8. PicturesHold'
  BY <1>4, <1>5, <1>6, <1>7 DEF PicturesHold
<1> QED
  BY <1>3, <1>8 DEF PictureInv

LEMMA DrawHoldsOn ==
    ASSUME RegInv, PictureInv, Draw
    PROVE  PictureInv'
<1>1. PICK s : s = Min(dev.todo)
  OBVIOUS
<1>2. dev.pc = "draw" /\ s \in dev.todo /\ s \in Slot
  BY <1>1, MinOfTodo DEF Draw, PictureInv
<1>3. /\ shown' = [shown EXCEPT ![s] = dev.views[s].inst]
      /\ dev' = [dev EXCEPT !.pc = "present"]
      /\ reg' = reg /\ presented' = presented /\ presses' = presses
  BY <1>1 DEF Draw
<1>4. /\ dev'.pc = "present" /\ dev'.todo = dev.todo /\ dev'.views = dev.views
      /\ dev' \in [pc : {"closed", "view", "draw", "present"}, todo : SUBSET Slot,
                   views : [Slot -> Views]]
      /\ dev.todo # {} /\ shown \in [Slot -> Instance \cup {NoInstance}]
      /\ dev.views[s].inst \in Instance \cup {NoInstance}
  BY <1>2, <1>3 DEF PictureInv, PictureTypes, Views
<1>5. PictureTypes'
  BY <1>3, <1>4 DEF PictureInv, PictureTypes
<1>6. ASSUME NEW t \in Slot PROVE KeyHolds(t)'
  <2>1. KeyHolds(t)
    BY DEF PictureInv, PicturesHold
  <2>2. CASE t = s
    <3>1. DrawHolds(s)
      BY <1>2 DEF PictureInv, PicturesHold
    <3>2. shown'[s] = dev.views[s].inst
      BY <1>2, <1>3, <1>4
    <3>3. /\ presented[s].generation \in Nat /\ dev.views[s].generation \in Nat
          /\ reg.generations[s] \in Nat
      BY <1>2, RegistryFields DEF RegInv, Sound, Tidy, PictureInv, PictureTypes, Views
    <3>4. presented[s].inst \in {NoInstance, shown'[s]} \/ Past(presented[s], s, reg)
      BY <3>1, <3>2, <3>3 DEF DrawHolds, Past
    <3> QED
      BY <1>3, <2>1, <2>2, <3>4 DEF KeyHolds
  <2>3. CASE t # s
    <3>1. shown'[t] = shown[t]
      BY <1>3, <1>4, <2>3
    <3> QED
      BY <1>3, <2>1, <3>1 DEF KeyHolds
  <2> QED
    BY <2>2, <2>3
<1>7. \A t \in dev'.todo : DrawHolds(t)'
  BY <1>2, <1>3, <1>4 DEF PictureInv, PicturesHold, DrawHolds
<1>8. shown'[Min(dev'.todo)] = dev'.views[Min(dev'.todo)].inst
  BY <1>1, <1>2, <1>3, <1>4
<1>9. \A n \in DOMAIN presses' : PressHolds(presses[n])'
  BY <1>3 DEF PictureInv, PicturesHold, PressHolds
<1>10. PicturesHold'
  BY <1>6, <1>7, <1>8, <1>9 DEF PicturesHold
<1> QED
  BY <1>5, <1>10 DEF PictureInv

LEMMA PresentHolds ==
    ASSUME RegInv, PictureInv, Present
    PROVE  PictureInv'
<1>1. PICK s : s = Min(dev.todo)
  OBVIOUS
<1>2. dev.pc = "present" /\ s \in dev.todo /\ s \in Slot
  BY <1>1, MinOfTodo DEF Present, PictureInv
<1>3. /\ presented' = [presented EXCEPT ![s] = dev.views[s]]
      /\ dev' = IF dev.todo = {s} THEN [Closed EXCEPT !.pc = "view"]
                ELSE [dev EXCEPT !.pc = "draw", !.todo = @ \ {s}]
      /\ reg' = reg /\ shown' = shown /\ presses' = presses
  BY <1>1 DEF Present
<1>4. /\ presented \in [Slot -> Views] /\ dev.views[s] \in Views
      /\ dev \in [pc : {"closed", "view", "draw", "present"}, todo : SUBSET Slot,
                  views : [Slot -> Views]]
  BY <1>2 DEF PictureInv, PictureTypes
<1>5. \/ dev' = [pc |-> "view", todo |-> {}, views |-> NoViews]
      \/ /\ dev' = [pc |-> "draw", todo |-> dev.todo \ {s}, views |-> dev.views]
         /\ dev.todo \ {s} # {}
  <2>1. CASE dev.todo = {s}
    BY <1>3, <2>1 DEF Closed
  <2>2. CASE dev.todo # {s}
    <3>1. dev' = [dev EXCEPT !.pc = "draw", !.todo = dev.todo \ {s}]
      BY <1>3, <2>2
    <3>2. dev' = [pc |-> "draw", todo |-> dev.todo \ {s}, views |-> dev.views]
      BY <1>4, <3>1
    <3> QED
      BY <1>2, <2>2, <3>2
  <2> QED
    BY <2>1, <2>2
<1>6. PictureTypes'
  <2>1. presented' \in [Slot -> Views]
    BY <1>2, <1>3, <1>4
  <2>2. /\ dev' \in [pc : {"closed", "view", "draw", "present"}, todo : SUBSET Slot,
                     views : [Slot -> Views]]
        /\ dev'.pc \in {"draw", "present"} => dev'.todo # {}
        /\ dev'.pc # "closed"
    BY <1>4, <1>5, NoViewsAreViews
  <2> QED
    BY <1>3, <2>1, <2>2 DEF PictureInv, PictureTypes
<1>7. \A t \in Slot : presented'[t] = IF t = s THEN dev.views[s] ELSE presented[t]
  BY <1>3, <1>4
<1>8. ASSUME NEW t \in Slot PROVE KeyHolds(t)'
  <2>1. KeyHolds(t)
    BY DEF PictureInv, PicturesHold
  <2>2. CASE t = s
    <3>1. DrawHolds(s) /\ shown[s] = dev.views[s].inst
      BY <1>1, <1>2 DEF PictureInv, PicturesHold
    <3> QED
      BY <1>3, <1>7, <2>2, <3>1 DEF KeyHolds, DrawHolds
  <2>3. CASE t # s
    BY <1>3, <1>7, <2>1, <2>3 DEF KeyHolds
  <2> QED
    BY <2>2, <2>3
<1>9. dev'.pc \in {"draw", "present"} => \A t \in dev'.todo : DrawHolds(t)'
  <2>1. CASE dev'.pc = "draw"
    <3>1. /\ dev'.todo = dev.todo \ {s} /\ dev'.views = dev.views
      BY <1>5, <2>1
    <3>2. ASSUME NEW t \in dev.todo \ {s} PROVE DrawHolds(t)'
      <4>1. DrawHolds(t) /\ t \in Slot
        BY <1>2, <1>4, <3>2 DEF PictureInv, PicturesHold
      <4> QED
        BY <1>3, <1>7, <3>1, <3>2, <4>1 DEF DrawHolds
    <3> QED
      BY <3>1, <3>2
  <2>2. dev'.pc \in {"view", "draw"}
    BY <1>5
  <2> QED
    BY <2>1, <2>2
<1>10. dev'.pc # "present"
  BY <1>5
<1>11. \A n \in DOMAIN presses' : PressHolds(presses[n])'
  BY <1>3 DEF PictureInv, PicturesHold, PressHolds
<1>12. PicturesHold'
  BY <1>8, <1>9, <1>10, <1>11 DEF PicturesHold
<1> QED
  BY <1>6, <1>12 DEF PictureInv

\* A failure, and the end of the process, forget what was presented.
LEMMA ForgottenHolds ==
    ASSUME PictureInv, dev' = Closed, presented' = NoViews,
           shown' \in [Slot -> Instance \cup {NoInstance}],
           presses' = <<>> \/ (presses' = presses /\ reg' = reg)
    PROVE  PictureInv'
<1>1. dev' = [pc |-> "closed", todo |-> {}, views |-> NoViews]
  BY DEF Closed
<1>2. presses' \in Seq(Taken)
  <2>1. presses \in Seq(Taken) /\ <<>> \in Seq(Taken)
    BY DEF PictureInv, PictureTypes
  <2> QED
    BY <2>1
<1>3. PictureTypes'
  BY <1>1, <1>2, NoViewsAreViews DEF PictureTypes
<1>4. \A s \in Slot : presented'[s].inst = NoInstance
  BY NoViewsAreViews
<1>5. \A s \in Slot : KeyHolds(s)'
  BY <1>4 DEF KeyHolds, Timely
<1>6. \A n \in DOMAIN presses' : PressHolds(presses[n])'
  BY DEF PictureInv, PicturesHold, PressHolds
<1>7. PicturesHold'
  BY <1>1, <1>5, <1>6 DEF PicturesHold
<1> QED
  BY <1>3, <1>7 DEF PictureInv

LEMMA PressTaken ==
    ASSUME RegInv, PictureInv, NEW s \in Slot, Press(s)
    PROVE  PictureInv'
<1>1. PICK p : p = [slot |-> s, inst |-> presented[s].inst,
                    generation |-> presented[s].generation, shown |-> shown[s]]
  OBVIOUS
<1>2. /\ presses' = Append(presses, p) /\ presented[s].inst # NoInstance
      /\ reg' = reg /\ dev' = dev /\ presented' = presented /\ shown' = shown
  BY <1>1 DEF Press, Captured, device
<1>3. p \in Taken /\ presses \in Seq(Taken)
  BY <1>1 DEF PictureInv, PictureTypes, Views, Taken
<1>4. KeyHolds(s)
  BY DEF PictureInv, PicturesHold
<1>5. PressHolds(p)
  BY <1>1, <1>2, <1>4 DEF KeyHolds, PressHolds, Past
<1>6. PictureTypes'
  BY <1>2, <1>3 DEF PictureInv, PictureTypes
<1>7. ASSUME NEW n \in DOMAIN presses' PROVE PressHolds(presses[n])'
  <2>1. \/ n \in DOMAIN presses /\ presses'[n] = presses[n]
        \/ presses'[n] = p
    BY <1>2, <1>3
  <2>2. PressHolds(presses'[n])
    BY <1>5, <2>1 DEF PictureInv, PicturesHold
  <2> QED
    BY <1>2, <2>2 DEF PressHolds
<1>8. PicturesHold'
  BY <1>2, <1>7 DEF PictureInv, PicturesHold, KeyHolds, DrawHolds
<1> QED
  BY <1>6, <1>8 DEF PictureInv

LEMMA PictureStep ==
    ASSUME RegInv, PictureInv, [Next]_vars
    PROVE  PictureInv'
<1>1. RegInv' /\ (Ended \/ Moves(reg, reg'))
  BY RegistryStep
<1>2. ASSUME ~ Ended, UNCHANGED device, presses' = presses
      PROVE  PictureInv'
  <2>1. presses' \in Seq(Taken)
    BY <1>2 DEF PictureInv, PictureTypes
  <2>2. \A n \in DOMAIN presses' : \E m \in DOMAIN presses : presses'[n] = presses[m]
    BY <1>2
  <2> QED
    BY <1>1, <1>2, <2>1, <2>2, PicturesStay
<1>3. up' = up \/ ~ up => ~ Ended
  BY DEF Ended
<1>4. CASE Next
  <2>1. CASE \E i \in Instance : Client(i)
    BY <1>2, <1>3, <2>1 DEF Client, Launch, Beat, End, Exit, Kill
  <2>2. CASE \E m \in net : Handle(m)
    BY <1>2, <1>3, <2>2 DEF Handle, HandleRegister, HandleDelete, Dispatch
  <2>3. CASE Sweep
    BY <1>2, <1>3, <2>3 DEF Sweep
  <2>4. CASE HandlePress
    <3>1. /\ presses # <<>> /\ presses' = Tail(presses) /\ UNCHANGED device
          /\ presses \in Seq(Taken) /\ ~ Ended
      BY <1>3, <2>4 DEF HandlePress, PictureInv, PictureTypes
    <3>2. presses' \in Seq(Taken)
      BY <3>1
    <3>3. \A n \in DOMAIN presses' : n + 1 \in DOMAIN presses /\ presses'[n] = presses[n + 1]
      BY <3>1
    <3> QED
      BY <1>1, <3>1, <3>2, <3>3, PicturesStay
  <2>5. CASE \E i \in Reporting, m \in Puts : HandlePut(i, m)
    BY <1>2, <1>3, <2>5 DEF HandlePut
  <2>6. CASE Thread
    BY <2>6, OpenHolds, DrawHoldsOn, PresentHolds DEF Thread
  <2>7. CASE Fail
    BY <2>7, ForgottenHolds DEF Fail, PictureInv, PictureTypes
  <2>8. CASE \E moved \in BOOLEAN : TakeView(moved)
    BY <2>8, TakeViewHolds
  <2>9. CASE \E s \in Slot : Press(s)
    BY <2>9, PressTaken
  <2>10. CASE Crash \/ Stop
    <3>1. shown' \in [Slot -> Instance \cup {NoInstance}]
      BY <2>10, NoViewsAreViews DEF Crash, Stop, PictureInv, PictureTypes
    <3> QED
      BY <2>10, <3>1, ForgottenHolds DEF Crash, Stop, Ended
  <2>11. CASE Restart
    BY <1>2, <1>3, <2>11 DEF Restart
  <2> QED
    BY <1>4, <2>1, <2>2, <2>3, <2>4, <2>5, <2>6, <2>7, <2>8, <2>9, <2>10, <2>11 DEF Next
<1>5. CASE UNCHANGED vars
  BY <1>2, <1>3, <1>5 DEF vars
<1> QED
  BY <1>4, <1>5

\* A press never brings a launch to the front other than the one that was
\* pictured on the key when it was pressed, however far the device thread was
\* between drawing a key and presenting it, and however often the key changed
\* hands before the press was served (device.py press, model.py resolve).
THEOREM PressesMeanThePicture == Spec => []PressFocusesPictured
<1>1. RegInv /\ PictureInv => PressFocusesPictured
  <2> SUFFICES ASSUME RegInv, PictureInv, NEW n \in 1 .. Len(presses)
               PROVE  Focused(presses[n]) \in {NoInstance, presses[n].shown}
    BY DEF PressFocusesPictured
  <2>1. n \in DOMAIN presses
    BY DEF PictureInv, PictureTypes
  <2>2. PICK p \in Taken : p = presses[n]
    BY <2>1 DEF PictureInv, PictureTypes
  <2>3. p.slot \in Slot /\ p.generation \in Nat /\ reg.generations[p.slot] \in Nat
    BY RegistryFields DEF RegInv, Sound, Tidy, Taken
  <2>4. p.inst = p.shown \/ p.generation < reg.generations[p.slot]
    BY <2>1, <2>2 DEF PictureInv, PicturesHold, PressHolds, Past
  <2> QED
    BY <2>2, <2>3, <2>4 DEF Focused, Resolves
<1>2. Init => PictureInv
  BY PictureInit
<1>3. RegInv /\ PictureInv /\ [Next]_vars => PictureInv'
  BY PictureStep
<1> QED
  BY RegistryAlways, <1>1, <1>2, <1>3, PTL DEF Spec

=============================================================================
