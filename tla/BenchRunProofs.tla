--------------------------- MODULE BenchRunProofs ---------------------------
(***************************************************************************)
(* Proofs about BenchRun and the planner it drives, for every axis of      *)
(* context lengths, output lengths and concurrencies, every outcome of a   *)
(* cell, every interleaving of its tasks and every point of a crash.       *)
(***************************************************************************)
EXTENDS BenchRun, ListsProofs

-----------------------------------------------------------------------------
\* Lemmas

LEMMA MinIsLeast ==
    ASSUME NEW S, S \subseteq Nat, S # {}
    PROVE  Min(S) \in S /\ \A n \in S : Min(S) <= n
  BY LeastNat DEF Min

-----------------------------------------------------------------------------
\* What the planner makes is a sequence of cells

Positive == Nat \ {0}

Cells ==
    [isl : Positive, osl : Positive, conc : Positive, cache : {"cold", "warm"},
     load : {"closed_loop", "open_loop_poisson"}, rate : {"none", "half"}, reps : 1 .. 3]

LEMMA CellTypes ==
    ASSUME NEW isl \in Positive, NEW osl \in Positive, NEW conc \in Positive
    PROVE  /\ Cold(isl, osl, conc) \in Cells /\ Warm(isl, osl, conc) \in Cells
           /\ OpenLoop(isl, osl) \in Cells
<1>1. Cold(isl, osl, conc) \in Cells
  BY DEF Cold, Cells, Positive
<1>2. Warm(isl, osl, conc) =
        [isl |-> isl, osl |-> osl, conc |-> conc, cache |-> "warm", load |-> "closed_loop",
         rate |-> "none", reps |-> 1]
  BY DEF Warm, Cold
<1>3. OpenLoop(isl, osl) =
        [isl |-> isl, osl |-> osl, conc |-> 1, cache |-> "cold", load |-> "open_loop_poisson",
         rate |-> "half", reps |-> 1]
  <2>1. PICK c : c = Cold(isl, osl, 1)
    OBVIOUS
  <2>2. c = [isl |-> isl, osl |-> osl, conc |-> 1, cache |-> "cold", load |-> "closed_loop",
             rate |-> "none", reps |-> 1]
    BY <2>1 DEF Cold
  <2>3. OpenLoop(isl, osl) = [[c EXCEPT !.load = "open_loop_poisson"] EXCEPT !.rate = "half"]
    BY <2>1 DEF OpenLoop
  <2>4. [c EXCEPT !.load = "open_loop_poisson"] =
          [isl |-> isl, osl |-> osl, conc |-> 1, cache |-> "cold", load |-> "open_loop_poisson",
           rate |-> "none", reps |-> 1]
    BY <2>2
  <2> QED
    BY <2>3, <2>4
<1> QED
  BY <1>1, <1>2, <1>3 DEF Cells, Positive

LEMMA WithinType ==
    ASSUME NEW T, T \subseteq Positive, IsFiniteSet(T), NEW cap \in Nat
    PROVE  /\ Ascending(Within(T, cap)) \in Seq(Positive)
           /\ Within(T, cap) \subseteq Positive /\ IsFiniteSet(Within(T, cap))
<1>1. Within(T, cap) \in SUBSET T
  BY DEF Within
<1>2. IsFiniteSet(Within(T, cap))
  BY <1>1, FS_Subset
<1>3. Within(T, cap) \subseteq Nat /\ Within(T, cap) \subseteq Positive
  BY <1>1 DEF Positive
<1>4. Ascending(Within(T, cap)) \in Seq(Within(T, cap))
  BY <1>2, <1>3, AscendingType
<1> QED
  BY <1>2, <1>3, <1>4

\* The points that are kept of a list spread over it and stay within it.
LEMMA SpreadIndex ==
    ASSUME NEW n \in Nat, NEW cap \in {6, 8}, n > cap, NEW i \in 0 .. cap - 1
    PROVE  1 + (i * (n - 1)) \div (cap - 1) \in 1 .. n
<1>1. CASE cap = 6
  <2>1. i \in {0, 1, 2, 3, 4, 5}
    BY <1>1
  <2> QED
    BY <1>1, <2>1
<1>2. CASE cap = 8
  <2>1. i \in {0, 1, 2, 3, 4, 5, 6, 7}
    BY <1>2
  <2> QED
    BY <1>2, <2>1
<1> QED
  BY <1>1, <1>2

LEMMA SpreadType ==
    ASSUME NEW T, T \subseteq Positive, IsFiniteSet(T), NEW cap \in {6, 8}
    PROVE  Spread(T, cap) \in Seq(Positive)
<1> DEFINE vals == Ascending(T)
           n == Len(vals)
           points == {vals[1 + (i * (n - 1)) \div (cap - 1)] : i \in 0 .. cap - 1}
<1>1. /\ vals \in Seq(T) /\ vals \in [1 .. Cardinality(T) -> T]
      /\ n = Cardinality(T) /\ n \in Nat /\ T \subseteq Nat
  <2>1. T \subseteq Nat
    BY DEF Positive
  <2> QED
    BY <2>1, AscendingType
<1>2. vals \in Seq(Positive)
  BY <1>1, SeqWidens, Zenon
<1>3. CASE n <= cap
  <2>1. Spread(T, cap) = vals
    BY <1>3 DEF Spread
  <2> QED
    BY <1>2, <2>1
<1>4. CASE ~ (n <= cap)
  <2>1. Spread(T, cap) = Ascending(points)
    BY <1>4 DEF Spread
  <2>2. points \in SUBSET T
    <3>1. ASSUME NEW i \in 0 .. cap - 1
          PROVE  vals[1 + (i * (n - 1)) \div (cap - 1)] \in T
      <4> HIDE DEF vals, n
      <4>1. n > cap
        BY <1>1, <1>4
      <4>2. 1 + (i * (n - 1)) \div (cap - 1) \in 1 .. n
        BY <1>1, <4>1, SpreadIndex
      <4> QED
        BY <1>1, <4>2
    <3> QED
      BY <3>1
  <2> HIDE DEF points
  <2>3. IsFiniteSet(points) /\ points \subseteq Nat /\ points \subseteq Positive
    BY <1>1, <2>2, FS_Subset
  <2>4. Ascending(points) \in Seq(points)
    BY <2>3, AscendingType
  <2>5. Ascending(points) \in Seq(Positive)
    BY <2>3, <2>4, SeqWidens, Zenon
  <2> QED
    BY <2>1, <2>5
<1> QED
  BY <1>3, <1>4

LEMMA RepresentativeType ==
    ASSUME NEW s \in Seq(Positive)
    PROVE  RepresentativeContext(s) \in Positive
<1>1. CASE s = <<>>
  BY <1>1 DEF RepresentativeContext, Positive
<1>2. CASE s # <<>>
  <2>1. Len(s) \in Nat /\ Len(s) >= 1
    BY <1>2
  <2>2. 1 + Len(s) \div 2 \in 1 .. Len(s)
    BY <2>1
  <2> QED
    BY <1>2, <2>2 DEF RepresentativeContext
<1> QED
  BY <1>1, <1>2

LEMMA UptoType ==
    ASSUME NEW T, NEW s \in Seq(T), NEW n \in Nat
    PROVE  Upto(n, s) \in Seq(T)
  BY DEF Upto

\* Both plans.
LEMMA PlanParts ==
    ASSUME NEW cap \in {6, 8}
    PROVE  /\ Spread(Within(DefaultISL, MaxContext), cap) \in Seq(Positive)
           /\ Concurrencies \in Seq(Positive)
           /\ RepresentativeContext(Spread(Within(DefaultISL, MaxContext), cap)) \in Positive
           /\ RepresentativeContext(Ascending(Within(DefaultISL, MaxContext))) \in Positive
<1>1. /\ DefaultISL \subseteq Positive /\ IsFiniteSet(DefaultISL) /\ MaxContext \in Nat
      /\ ConcurrencyLadder \subseteq Positive /\ IsFiniteSet(ConcurrencyLadder)
      /\ MaxConcurrency \in Nat
  BY PlanAssumption DEF Positive
<1>2. /\ Ascending(Within(DefaultISL, MaxContext)) \in Seq(Positive)
      /\ Within(DefaultISL, MaxContext) \subseteq Positive
      /\ IsFiniteSet(Within(DefaultISL, MaxContext))
  BY <1>1, WithinType
<1>3. Spread(Within(DefaultISL, MaxContext), cap) \in Seq(Positive)
  BY <1>2, SpreadType
<1>4. Concurrencies \in Seq(Positive)
  BY <1>1, WithinType DEF Concurrencies
<1> QED
  BY <1>2, <1>3, <1>4, RepresentativeType

LEMMA PairsType ==
    ASSUME NEW isl \in Positive, NEW osl \in Positive
    PROVE  /\ ColdAndWarm(isl) \in Seq(Cells)
           /\ <<Cold(isl, 128, 1), Cold(isl, 512, 1)>> \in Seq(Cells)
           /\ <<Cold(isl, osl, 1), Cold(isl, osl, 4)>> \in Seq(Cells)
           /\ <<OpenLoop(isl, 512)>> \in Seq(Cells)
           /\ <<Cold(isl, 512, osl)>> \in Seq(Cells)
<1>1. {1, 4, 128, 256, 512} \subseteq Positive
  BY DEF Positive
<1>2. /\ Cold(isl, 256, 1) \in Cells /\ Warm(isl, 256, 1) \in Cells
      /\ Cold(isl, 128, 1) \in Cells /\ Cold(isl, 512, 1) \in Cells
      /\ Cold(isl, osl, 1) \in Cells /\ Cold(isl, osl, 4) \in Cells
      /\ OpenLoop(isl, 512) \in Cells /\ Cold(isl, 512, osl) \in Cells
  BY <1>1, CellTypes
<1> QED
  BY <1>2 DEF ColdAndWarm

LEMMA LightPlanType == LightPlan \in Seq(Cells)
<1> DEFINE ctxs == Spread(Within(DefaultISL, MaxContext), 6)
           mid == RepresentativeContext(ctxs)
           baseline == [i \in DOMAIN ctxs |-> <<Cold(ctxs[i], 128, 1), Cold(ctxs[i], 512, 1)>>]
           scaling == [i \in DOMAIN Concurrencies |-> <<Cold(mid, 512, Concurrencies[i])>>]
           some == Upto(2, ctxs)
           caches == [i \in DOMAIN some |-> ColdAndWarm(some[i])]
<1>1. LightPlan = FlattenSeq(baseline) \o FlattenSeq(scaling) \o FlattenSeq(caches)
  BY DEF LightPlan, ForEach
<1>2. ctxs \in Seq(Positive) /\ mid \in Positive /\ Concurrencies \in Seq(Positive)
  BY PlanParts
<1>3. some \in Seq(Positive)
  BY <1>2, UptoType
<1> HIDE DEF ctxs, mid, some
<1>4. baseline \in Seq(Seq(Cells))
  <2>1. \A i \in DOMAIN ctxs : <<Cold(ctxs[i], 128, 1), Cold(ctxs[i], 512, 1)>> \in Seq(Cells)
    BY <1>2, PairsType
  <2>2. baseline \in [DOMAIN ctxs -> Seq(Cells)]
    BY <2>1
  <2> HIDE DEF baseline
  <2> QED
    BY <1>2, <2>2, SeqOver, Zenon
<1>5. scaling \in Seq(Seq(Cells))
  <2>1. \A i \in DOMAIN Concurrencies : <<Cold(mid, 512, Concurrencies[i])>> \in Seq(Cells)
    BY <1>2, PairsType
  <2>2. scaling \in [DOMAIN Concurrencies -> Seq(Cells)]
    BY <2>1
  <2> HIDE DEF scaling
  <2> QED
    BY <1>2, <2>2, SeqOver, Zenon
<1>6. caches \in Seq(Seq(Cells))
  <2>1. \A i \in DOMAIN some : ColdAndWarm(some[i]) \in Seq(Cells)
    BY <1>3, PairsType
  <2>2. caches \in [DOMAIN some -> Seq(Cells)]
    BY <2>1
  <2> HIDE DEF caches
  <2> QED
    BY <1>3, <2>2, SeqOver, Zenon
<1> HIDE DEF baseline, scaling, caches
<1>7. /\ FlattenSeq(baseline) \in Seq(Cells) /\ FlattenSeq(scaling) \in Seq(Cells)
      /\ FlattenSeq(caches) \in Seq(Cells)
  BY <1>4, <1>5, <1>6, FlattenType
<1> QED
  BY <1>1, <1>7

LEMMA HeavyPlanType == HeavyPlan \in Seq(Cells)
<1> DEFINE ctxs == Spread(Within(DefaultISL, MaxContext), 8)
           mid == RepresentativeContext(ctxs)
           concs == Upto(4, Concurrencies)
           osls == Ascending(DefaultOSL)
           some == Upto(4, ctxs)
           row(isl) == [i \in DOMAIN concs |-> Cold(isl, 512, Concurrencies[i])]
           matrix == [i \in DOMAIN ctxs |-> row(ctxs[i])]
           lengths == [i \in DOMAIN osls |-> <<Cold(mid, osls[i], 1), Cold(mid, osls[i], 4)>>]
           caches == [i \in DOMAIN some |-> ColdAndWarm(some[i])]
<1>1. HeavyPlan = FlattenSeq(matrix) \o FlattenSeq(lengths) \o FlattenSeq(caches)
                    \o <<OpenLoop(mid, 512)>>
  BY DEF HeavyPlan, ForEach
<1>2. ctxs \in Seq(Positive) /\ mid \in Positive /\ Concurrencies \in Seq(Positive)
  BY PlanParts
<1>3. some \in Seq(Positive) /\ concs \in Seq(Positive)
  BY <1>2, UptoType
<1>4. osls \in Seq(Positive)
  <2>1. DefaultOSL \subseteq Positive /\ DefaultOSL \subseteq Nat /\ IsFiniteSet(DefaultOSL)
    BY PlanAssumption DEF Positive
  <2>2. osls \in Seq(DefaultOSL)
    BY <2>1, AscendingType
  <2> QED
    BY <2>1, <2>2, SeqWidens, Zenon
<1>5. DOMAIN concs \subseteq DOMAIN Concurrencies
  BY <1>2 DEF Upto
<1> HIDE DEF ctxs, mid, some, concs, osls
<1>6. matrix \in Seq(Seq(Cells))
  <2>1. ASSUME NEW i \in DOMAIN ctxs PROVE row(ctxs[i]) \in Seq(Cells)
    <3>1. ctxs[i] \in Positive /\ 512 \in Positive
      BY <1>2 DEF Positive
    <3>2. ASSUME NEW j \in DOMAIN concs PROVE Cold(ctxs[i], 512, Concurrencies[j]) \in Cells
      <4>1. Concurrencies[j] \in Positive
        BY <1>2, <1>5
      <4> QED
        BY <3>1, <4>1, CellTypes
    <3>3. row(ctxs[i]) \in [DOMAIN concs -> Cells]
      BY <3>2
    <3> HIDE DEF row
    <3> QED
      BY <1>3, <3>3, SeqOver, Zenon
  <2> HIDE DEF row
  <2>2. matrix \in [DOMAIN ctxs -> Seq(Cells)]
    BY <2>1
  <2> HIDE DEF matrix
  <2> QED
    BY <1>2, <2>2, SeqOver, Zenon
<1>7. lengths \in Seq(Seq(Cells))
  <2>1. \A i \in DOMAIN osls : <<Cold(mid, osls[i], 1), Cold(mid, osls[i], 4)>> \in Seq(Cells)
    BY <1>2, <1>4, PairsType
  <2>2. lengths \in [DOMAIN osls -> Seq(Cells)]
    BY <2>1
  <2> HIDE DEF lengths
  <2> QED
    BY <1>4, <2>2, SeqOver, Zenon
<1>8. caches \in Seq(Seq(Cells))
  <2>1. \A i \in DOMAIN some : ColdAndWarm(some[i]) \in Seq(Cells)
    BY <1>3, PairsType
  <2>2. caches \in [DOMAIN some -> Seq(Cells)]
    BY <2>1
  <2> HIDE DEF caches
  <2> QED
    BY <1>3, <2>2, SeqOver, Zenon
<1> HIDE DEF matrix, lengths, caches
<1>9. /\ FlattenSeq(matrix) \in Seq(Cells) /\ FlattenSeq(lengths) \in Seq(Cells)
      /\ FlattenSeq(caches) \in Seq(Cells) /\ <<OpenLoop(mid, 512)>> \in Seq(Cells)
  BY <1>2, <1>6, <1>7, <1>8, FlattenType, PairsType
<1> QED
  BY <1>1, <1>9

-----------------------------------------------------------------------------
\* What a refinement inserts are cells

\* What a cell may measure.
Throughputs == UNION {{o.tps : o \in Outcomes(c)} : c \in Cells}
Noises == UNION {{o.noisy : o \in Outcomes(c)} : c \in Cells}
Measurements ==
    [id : Nat, cell : Cells, tps : Throughputs, noisy : Noises, readings : Nat]

LEMMA AroundKneeType ==
    ASSUME NEW done \in Seq(Measurements), NEW k \in Knees(done)
    PROVE  AroundKnee(k, done) \in Seq(Cells)
<1>1. k \in Nat
  <2>1. PICK i \in DOMAIN done : k = done[i].cell.conc
    BY DEF Knees, ClosedLoop
  <2>2. done[i] \in Measurements
    BY <2>1
  <2>3. done[i].cell \in Cells
    BY <2>2 DEF Measurements
  <2> QED
    BY <2>1, <2>3 DEF Cells, Positive
<1> DEFINE New(c) == /\ c >= 1
                     /\ MaxConcurrency = 0 \/ c =< MaxConcurrency
                     /\ \A i \in ClosedLoop(done) : done[i].cell.conc # c
           near == <<k \div 2, k - 1, k, k + 1, k * 2>>
           chosen == {i \in DOMAIN near : New(near[i])}
           concs == Picked(near, chosen)
           mid == RepresentativeContext(Ascending(Within(DefaultISL, MaxContext)))
<1>2. AroundKnee(k, done) = [i \in DOMAIN concs |-> Cold(mid, 512, concs[i])]
  BY DEF AroundKnee
<1>3. near \in Seq(Int) /\ chosen \in SUBSET (1 .. Len(near))
  BY <1>1
<1>4. \A i \in chosen : near[i] \in Positive
  <2>1. \A i \in chosen : near[i] >= 1 /\ near[i] \in Int
    <3>1. \A i \in 1 .. Len(near) : near[i] \in Int
      <4> HIDE DEF near, chosen
      <4> QED
        BY <1>3
    <3> QED
      BY <1>3, <3>1
  <2> HIDE DEF near, chosen
  <2> QED
    BY <2>1 DEF Positive
<1>5. mid \in Positive
  BY PlanParts
<1> HIDE DEF near, chosen, mid
<1>6. concs \in Seq(Positive)
  BY <1>3, <1>4, PickedType
<1> HIDE DEF concs
<1>7. ASSUME NEW i \in DOMAIN concs PROVE Cold(mid, 512, concs[i]) \in Cells
  <2>1. concs[i] \in Positive /\ 512 \in Positive
    BY <1>6 DEF Positive
  <2> QED
    BY <1>5, <2>1, CellTypes
<1>8. AroundKnee(k, done) \in [DOMAIN concs -> Cells]
  BY <1>2, <1>7
<1> QED
  BY <1>6, <1>8, SeqOver, Zenon

LEMMA ExtraRepetitionsType ==
    ASSUME NEW done \in Seq(Measurements)
    PROVE  ExtraRepetitions(done) \in Seq(Cells)
<1> DEFINE chosen == {i \in DOMAIN done : done[i].noisy /\ done[i].cell.reps < 3}
           again == Picked(done, chosen)
           few == {m \in Measurements : m.cell.reps < 3}
           more == [i \in DOMAIN again |-> [again[i].cell EXCEPT !.reps = @ + 1, !.rate = "none"]]
<1>1. ExtraRepetitions(done) = more
  BY DEF ExtraRepetitions
<1>2. chosen \in SUBSET (1 .. Len(done)) /\ \A i \in chosen : done[i] \in few
  OBVIOUS
<1> HIDE DEF chosen, few
<1>3. again \in Seq(few)
  BY <1>2, PickedType
<1> HIDE DEF again
<1>4. ASSUME NEW i \in DOMAIN again
      PROVE  [again[i].cell EXCEPT !.reps = @ + 1, !.rate = "none"] \in Cells
  <2>1. PICK c : c = again[i].cell
    OBVIOUS
  <2>2. c \in Cells /\ c.reps < 3
    BY <1>3, <2>1 DEF few, Measurements
  <2>3. c.reps + 1 \in 1 .. 3
    BY <2>2 DEF Cells
  <2>4. [c EXCEPT !.reps = c.reps + 1] \in Cells
    BY <2>2, <2>3 DEF Cells
  <2>5. [c EXCEPT !.reps = @ + 1, !.rate = "none"] = [[c EXCEPT !.reps = c.reps + 1] EXCEPT !.rate = "none"]
    BY <2>2 DEF Cells
  <2>6. [[c EXCEPT !.reps = c.reps + 1] EXCEPT !.rate = "none"] \in Cells
    BY <2>4 DEF Cells
  <2> QED
    BY <2>1, <2>5, <2>6
<1>5. more \in [DOMAIN again -> Cells]
  BY <1>4
<1> HIDE DEF more
<1> QED
  BY <1>1, <1>3, <1>5, SeqOver, Zenon

LEMMA FreshType ==
    ASSUME NEW new \in Seq(Cells), NEW cells, NEW done
    PROVE  Fresh(new, cells, done) \in Seq(Cells)
<1>1. PICK P : /\ P \in SUBSET (DOMAIN new)
               /\ Fresh(new, cells, done) = Picked(new, P)
  <2> DEFINE Chosen(i) ==
               /\ Key(new[i]) \notin Keys(cells)
               /\ \A r \in DOMAIN done : Key(done[r].cell) # Key(new[i])
               /\ \A j \in 1 .. i - 1 : Key(new[j]) # Key(new[i])
             P == {i \in DOMAIN new : Chosen(i)}
  <2>1. Fresh(new, cells, done) = Picked(new, P)
    BY DEF Fresh
  <2> QED
    BY <2>1
<1>2. P \in SUBSET (1 .. Len(new)) /\ \A i \in P : new[i] \in Cells
  BY <1>1
<1> QED
  BY <1>1, <1>2, PickedType

\* A plan stays a sequence of cells.
LEMMA RefinedType ==
    ASSUME NEW cells \in Seq(Cells), NEW done \in Seq(Measurements), NEW p \in Refined(cells, done)
    PROVE  p \in Seq(Cells)
<1>1. PICK new \in Insertions(done) : p = cells \o Fresh(new, cells, done)
  BY DEF Refined
<1>2. new \in Seq(Cells)
  <2>1. ExtraRepetitions(done) \in Seq(Cells)
    BY ExtraRepetitionsType
  <2>2. CASE new = ExtraRepetitions(done)
    BY <2>1, <2>2
  <2>3. CASE \E k \in Knees(done) : new = AroundKnee(k, done) \o ExtraRepetitions(done)
    <3>1. PICK k \in Knees(done) : new = AroundKnee(k, done) \o ExtraRepetitions(done)
      BY <2>3
    <3>2. AroundKnee(k, done) \in Seq(Cells)
      BY AroundKneeType
    <3> QED
      BY <2>1, <3>1, <3>2
  <2> QED
    BY <1>1, <2>2, <2>3 DEF Insertions
<1>3. Fresh(new, cells, done) \in Seq(Cells)
  BY <1>2, FreshType
<1> QED
  BY <1>1, <1>3

\* The next cell is one of the plan that is not measured.
LEMMA NextCellType ==
    ASSUME NEW cells \in Seq(Cells), NEW done, NextCell(cells, done) # {}
    PROVE  \E c \in Cells : NextCell(cells, done) = {c} /\ Key(c) \notin Measured(done)
<1> DEFINE pending == {i \in DOMAIN cells : Key(cells[i]) \notin Measured(done)}
<1>1. pending # {} /\ NextCell(cells, done) = {cells[Min(pending)]}
  BY DEF NextCell
<1>2. pending \subseteq Nat
  OBVIOUS
<1>3. Min(pending) \in pending
  BY <1>1, <1>2, MinIsLeast
<1>4. \A i \in pending : cells[i] \in Cells /\ Key(cells[i]) \notin Measured(done)
  OBVIOUS
<1> HIDE DEF pending
<1> QED
  BY <1>1, <1>3, <1>4

-----------------------------------------------------------------------------
\* The loop over the cells and the sampler

\* The places of the loop where a cell is being measured, and where it has
\* been and is not yet counted.
Measuring == {"persist", "telemetry", "mark"}
Busy == {"begin", "load", "stopping", "measure"} \cup Measuring

\* What the variables hold.
Shapes ==
    /\ plan \in Seq(Cells) /\ results \in Seq(Measurements) /\ attempts \in Nat
    /\ pc \in Busy \cup {"pick", "replace", "refine", "report", "done", "dead"}
    /\ gpu \in [task : {"off", "asleep", "asks", "over"}, stop : BOOLEAN, series : Nat]

\* The cell at hand is not measured yet; its measurement has the number of the
\* attempt.
Held ==
    /\ pc \in Busy => \E c \in cell : cell = {c} /\ c \in Cells /\ Key(c) \notin Measured(results)
    /\ pc \in Measuring =>
         \E m \in mc : mc = {m} /\ m \in Measurements /\ m.id = attempts /\ cell = {m.cell}
    /\ pc \notin Measuring => mc = {}

\* The sampler is over before its readings are looked at.
Sampled ==
    /\ pc \in Measuring \cup {"measure"} => gpu.task = "over"
    /\ SeriesIsComplete

RunInv == Shapes /\ Held /\ Sampled

LEMMA TheCellIs ==
    ASSUME NEW c, cell = {c}
    PROVE  TheCell = c
  BY DEF TheCell

LEMMA RunInit == Init => RunInv
<1> SUFFICES ASSUME Init PROVE RunInv
  OBVIOUS
<1>1. Shapes
  <2>1. plan \in Seq(Cells)
    BY LightPlanType, HeavyPlanType DEF Init
  <2> QED
    BY <2>1 DEF Init, Shapes, NoGpu
<1>2. Held
  BY DEF Init, Held, Busy, Measuring
<1>3. Sampled
  BY DEF Init, Sampled, SeriesIsComplete, Measuring
<1> QED
  BY <1>1, <1>2, <1>3 DEF RunInv

LEMMA RunStep == RunInv /\ [Next]_vars => RunInv'
<1> SUFFICES ASSUME RunInv, [Next]_vars PROVE RunInv'
  OBVIOUS
<1> USE DEF Busy, Measuring
<1>0. Shapes /\ Held /\ Sampled
  BY DEF RunInv
<1>1. CASE Pick
  <2>1. Shapes' /\ Sampled'
    BY <1>0, <1>1 DEF Pick, Shapes, Held, Sampled, SeriesIsComplete
  <2>2. Held'
    <3>1. CASE cell' = {}
      BY <1>0, <1>1, <3>1 DEF Pick, Held
    <3>2. CASE cell' # {}
      <4>1. cell' = NextCell(plan, results) /\ plan \in Seq(Cells)
        BY <1>0, <1>1, <3>2 DEF Pick, Shapes
      <4>2. PICK c \in Cells : NextCell(plan, results) = {c} /\ Key(c) \notin Measured(results)
        BY <3>2, <4>1, NextCellType
      <4> QED
        BY <1>0, <1>1, <3>2, <4>1, <4>2 DEF Pick, Held
    <3> QED
      BY <3>1, <3>2
  <2> QED
    BY <2>1, <2>2 DEF RunInv
<1>2. CASE Begin
  <2>1. gpu' \in [task : {"off", "asleep", "asks", "over"}, stop : BOOLEAN, series : Nat]
    <3>1. PICK task \in {"asleep", "over"} : gpu' = [NoGpu EXCEPT !.task = task]
      BY <1>2 DEF Begin
    <3> QED
      BY <3>1 DEF NoGpu
  <2>2. UNCHANGED <<plan, results, attempts, cell, mc>> /\ pc = "begin" /\ pc' = "load"
    BY <1>2 DEF Begin
  <2>3. Shapes'
    BY <1>0, <2>1, <2>2 DEF Shapes
  <2>4. Held' /\ Sampled'
    BY <1>0, <2>2 DEF Held, Sampled, SeriesIsComplete, Measured
  <2> QED
    BY <2>3, <2>4 DEF RunInv
<1>3. CASE LoadEnds
  BY <1>0, <1>3 DEF LoadEnds, RunInv, Shapes, Held, Sampled, SeriesIsComplete
<1>4. CASE Stop
  BY <1>0, <1>4 DEF Stop, RunInv, Shapes, Held, Sampled, SeriesIsComplete
<1>5. CASE Measure
  <2>1. PICK o \in Outcomes(TheCell) :
          mc' = {[id |-> attempts, cell |-> TheCell, tps |-> o.tps, noisy |-> o.noisy,
                  readings |-> gpu.series]}
    BY <1>5 DEF Measure
  <2>2. PICK c \in Cells : cell = {c} /\ Key(c) \notin Measured(results)
    BY <1>0, <1>5 DEF Measure, Held
  <2>3. TheCell = c
    BY <2>2, TheCellIs
  <2>4. o.tps \in Throughputs /\ o.noisy \in Noises
    BY <2>3 DEF Throughputs, Noises
  <2>5. PICK m : mc' = {m} /\ m = [id |-> attempts, cell |-> c, tps |-> o.tps, noisy |-> o.noisy,
                                    readings |-> gpu.series]
    BY <2>1, <2>3
  <2>6. m \in Measurements
    BY <1>0, <2>4, <2>5 DEF Measurements, Shapes
  <2>7. Shapes' /\ Sampled'
    BY <1>0, <1>5, <2>5 DEF Measure, Shapes, Sampled, SeriesIsComplete
  <2>8. Held'
    BY <1>5, <2>2, <2>5, <2>6 DEF Measure, Held
  <2> QED
    BY <2>7, <2>8 DEF RunInv
<1>6. CASE WriteRaw
  BY <1>0, <1>6 DEF WriteRaw, RunInv, Shapes, Held, Sampled, SeriesIsComplete
<1>7. CASE WriteTelemetry
  BY <1>0, <1>7 DEF WriteTelemetry, RunInv, Shapes, Held, Sampled, SeriesIsComplete
<1>8. CASE Mark
  <2>1. PICK m \in Measurements : mc = {m} /\ TheMeasurement = m
    BY <1>0, <1>8 DEF Mark, Held, TheMeasurement
  <2>2. results' = Append(results, m) /\ results \in Seq(Measurements)
    BY <1>0, <1>8, <2>1 DEF Mark, Shapes
  <2>3. results' \in Seq(Measurements)
    BY <2>1, <2>2
  <2>4. Shapes' /\ Held' /\ Sampled'
    BY <1>0, <1>8, <2>3 DEF Mark, Shapes, Held, Sampled, SeriesIsComplete, NoGpu
  <2> QED
    BY <2>4 DEF RunInv
<1>9. CASE ReplaceState
  BY <1>0, <1>9 DEF ReplaceState, RunInv, Shapes, Held, Sampled, SeriesIsComplete
<1>10. CASE Refine
  <2>1. plan' \in Seq(Cells)
    BY <1>0, <1>10, RefinedType DEF Refine, Shapes
  <2> QED
    BY <1>0, <1>10, <2>1 DEF Refine, RunInv, Shapes, Held, Sampled, SeriesIsComplete
<1>11. CASE WriteArtifact
  BY <1>0, <1>11 DEF WriteArtifact, RunInv, Shapes, Held, Sampled, SeriesIsComplete
<1>12. CASE Finish
  BY <1>0, <1>12 DEF Finish, RunInv, Shapes, Held, Sampled, SeriesIsComplete
<1>13. CASE Load
  <2>1. UNCHANGED <<plan, results, attempts, pc, cell, mc, gpu>>
    BY <1>13 DEF Load, ClientStarts, Burst, TaskStarts, RequestEnds
  <2> QED
    BY <1>0, <2>1 DEF RunInv, Shapes, Held, Sampled, SeriesIsComplete, Measured
<1>14. CASE Sampler
  <2>1. UNCHANGED <<plan, results, attempts, pc, cell, mc>>
    BY <1>14 DEF Sampler, SamplerAsks, SamplerReads, SamplerEnds, StopGivesUp
  <2>2. gpu' \in [task : {"off", "asleep", "asks", "over"}, stop : BOOLEAN, series : Nat]
    <3>1. gpu \in [task : {"off", "asleep", "asks", "over"}, stop : BOOLEAN, series : Nat]
      BY <1>0 DEF Shapes
    <3>2. CASE SamplerAsks
      BY <3>1, <3>2 DEF SamplerAsks
    <3>3. CASE SamplerReads
      <4>1. PICK n \in {0, 1} : gpu' = [gpu EXCEPT !.task = "asleep", !.series = gpu.series + n]
        BY <3>3 DEF SamplerReads
      <4>2. gpu.series + n \in Nat
        BY <3>1, <4>1
      <4> QED
        BY <3>1, <4>1, <4>2
    <3>4. CASE SamplerEnds
      BY <3>1, <3>4 DEF SamplerEnds
    <3>5. CASE StopGivesUp
      BY <3>1, <3>5 DEF StopGivesUp
    <3> QED
      BY <1>14, <3>2, <3>3, <3>4, <3>5 DEF Sampler
  <2>3. gpu.task # "over"
    BY <1>0, <1>14 DEF Sampler, SamplerAsks, SamplerReads, SamplerEnds, StopGivesUp
  <2> QED
    BY <1>0, <2>1, <2>2, <2>3 DEF RunInv, Shapes, Held, Sampled, SeriesIsComplete, Measured
<1>15. CASE PersistFails
  BY <1>0, <1>15 DEF PersistFails, RunInv, Shapes, Held, Sampled, SeriesIsComplete, NoGpu
<1>16. CASE Crash
  BY <1>16 DEF Crash, RunInv, Shapes, Held, Sampled, SeriesIsComplete, NoGpu
<1>17. CASE UNCHANGED vars
  BY <1>0, <1>17 DEF vars, RunInv, Shapes, Held, Sampled, SeriesIsComplete, Measured
<1> QED
  BY <1>1, <1>2, <1>3, <1>4, <1>5, <1>6, <1>7, <1>8, <1>9, <1>10, <1>11, <1>12, <1>13, <1>14,
     <1>15, <1>16, <1>17 DEF Next, Main

\* The readings a cell's efficiency was computed from are all there ever is,
\* however long nvidia-smi takes to answer and whenever the sampler is stopped.
THEOREM SeriesStaysComplete == Spec => []SeriesIsComplete
<1>1. RunInv => SeriesIsComplete
  BY DEF RunInv, Sampled
<1> QED
  BY <1>1, RunInit, RunStep, PTL DEF Spec

-----------------------------------------------------------------------------
\* The load generator

\* What a generator l has issued, sent, under way and ended adds up.
Loads == [todo : Nat, issued : Nat, next : Nat, flight : SUBSET Nat, ended : SUBSET Nat]

Counted(l, total) ==
    /\ l \in Loads
    /\ IsFiniteSet(l.flight) /\ IsFiniteSet(l.ended)
    /\ l.flight \cap l.ended = {}
    /\ l.flight \cup l.ended = 0 .. l.next - 1
    /\ l.issued <= total

\* A client of the closed loop leaves only when all is issued, and sends what
\* it is given at once; a task of the open loop sends when it starts.
Closed(l, conc, total) ==
    /\ l.next = l.issued
    /\ Pending(l) <= conc
    /\ Pending(l) < conc => l.issued = total
Open(l) ==
    /\ l.next + l.todo = l.issued
    /\ Pending(l) <= MaxBacklog

LoadInv ==
    /\ pc \in {"load", "stopping", "measure"} =>
         /\ Counted(load, Total)
         /\ IF IsClosed THEN Closed(load, TheCell.conc, Total) ELSE Open(load)
    /\ pc \in {"stopping", "measure"} => load.next = Total /\ load.flight = {}
    /\ pc \notin {"load", "stopping", "measure"} => load = NoLoad

LEMMA PendingType ==
    ASSUME NEW l, NEW total, Counted(l, total)
    PROVE  /\ Cardinality(l.flight) \in Nat
           /\ Pending(l) \in Nat /\ Pending(l) = l.todo + Cardinality(l.flight)
<1>1. Cardinality(l.flight) \in Nat
  BY FS_CardinalityType DEF Counted
<1> QED
  BY <1>1 DEF Counted, Loads, Pending

\* To send one more prompt.
LEMMA IssueKeeps ==
    ASSUME NEW l, NEW total \in Nat, Counted(l, total)
    PROVE  /\ Counted(Issue(l), total)
           /\ Issue(l).todo = l.todo /\ Issue(l).issued = l.issued
           /\ Issue(l).next = l.next + 1
           /\ Pending(Issue(l)) = Pending(l) + 1
<1> DEFINE n == l.next
           k == [todo |-> l.todo, issued |-> l.issued, next |-> n + 1,
                 flight |-> l.flight \cup {n}, ended |-> l.ended]
<1>1. l \in Loads /\ n \in Nat
  BY DEF Counted, Loads
<1>2. Issue(l) = k
  <2>1. Issue(l) = [[l EXCEPT !.next = n + 1] EXCEPT !.flight = l.flight \cup {n}]
    BY <1>1 DEF Issue, Loads
  <2>2. [l EXCEPT !.next = n + 1] = [todo |-> l.todo, issued |-> l.issued, next |-> n + 1,
                                     flight |-> l.flight, ended |-> l.ended]
    BY <1>1 DEF Loads
  <2> QED
    BY <2>1, <2>2
<1>3. n \notin l.flight /\ n \notin l.ended
  <2>1. n \notin 0 .. n - 1
    BY <1>1
  <2> QED
    BY <2>1 DEF Counted
<1>4. IsFiniteSet(k.flight) /\ Cardinality(k.flight) = Cardinality(l.flight) + 1
  <2>1. IsFiniteSet(l.flight)
    BY DEF Counted
  <2> QED
    BY <1>3, <2>1, FS_AddElement
<1>5. k.flight \cap k.ended = {}
  BY <1>3 DEF Counted
<1>6. k.flight \cup k.ended = 0 .. k.next - 1
  <2>1. 0 .. (n + 1) - 1 = (0 .. n - 1) \cup {n}
    BY <1>1
  <2>2. l.flight \cup l.ended = 0 .. n - 1
    BY DEF Counted
  <2> QED
    BY <2>1, <2>2
<1>7. k \in Loads
  BY <1>1 DEF Loads
<1>8. Counted(k, total)
  BY <1>4, <1>5, <1>6, <1>7 DEF Counted
<1>9. Pending(k) = Pending(l) + 1
  <2>1. Cardinality(l.flight) \in Nat /\ Pending(l) = l.todo + Cardinality(l.flight)
    BY PendingType
  <2>2. Pending(k) = l.todo + Cardinality(k.flight)
    BY DEF Pending
  <2> QED
    BY <1>1, <1>4, <2>1, <2>2 DEF Loads
<1> QED
  BY <1>2, <1>8, <1>9

\* To end a request.
LEMMA EndKeeps ==
    ASSUME NEW l, NEW total \in Nat, Counted(l, total), NEW i \in l.flight, NEW k,
           k = [todo |-> l.todo, issued |-> l.issued, next |-> l.next,
                flight |-> l.flight \ {i}, ended |-> l.ended \cup {i}]
    PROVE  /\ Counted(k, total)
           /\ k.todo = l.todo /\ k.issued = l.issued /\ k.next = l.next
           /\ Pending(k) = Pending(l) - 1
<1>1. l \in Loads
  BY DEF Counted
<1>2. /\ k.todo = l.todo /\ k.issued = l.issued /\ k.next = l.next
      /\ k.flight = l.flight \ {i} /\ k.ended = l.ended \cup {i}
  OBVIOUS
<1>3. IsFiniteSet(k.flight) /\ Cardinality(k.flight) = Cardinality(l.flight) - 1
  <2>1. IsFiniteSet(l.flight)
    BY DEF Counted
  <2> QED
    BY <1>2, <2>1, FS_RemoveElement
<1>4. IsFiniteSet(k.ended)
  <2>1. IsFiniteSet(l.ended)
    BY DEF Counted
  <2> QED
    BY <1>2, <2>1, FS_AddElement
<1>5. k.flight \cap k.ended = {} /\ k.flight \cup k.ended = 0 .. k.next - 1
  BY <1>2 DEF Counted
<1>6. k \in Loads
  BY <1>1, <1>2 DEF Loads
<1>7. Pending(k) = Pending(l) - 1
  <2>1. Cardinality(l.flight) \in Nat /\ Pending(l) = l.todo + Cardinality(l.flight)
    BY PendingType
  <2>2. Pending(k) = l.todo + Cardinality(k.flight)
    BY <1>2 DEF Pending
  <2> QED
    BY <1>1, <1>3, <2>1, <2>2 DEF Loads
<1> QED
  BY <1>2, <1>3, <1>4, <1>5, <1>6, <1>7 DEF Counted

\* A client that is free takes another request, or leaves when there is none.
LEMMA AnotherKeeps ==
    ASSUME NEW l, NEW conc \in Nat, Total \in Nat, Counted(l, Total), l.next = l.issued,
           Pending(l) < conc, Pending(l) < conc - 1 => l.issued = Total
    PROVE  Counted(Another(l), Total) /\ Closed(Another(l), conc, Total)
<1>1. l \in Loads /\ Pending(l) \in Nat /\ l.issued <= Total
  BY PendingType DEF Counted
<1>2. CASE l.issued < Total
  <2> DEFINE k == [l EXCEPT !.issued = @ + 1]
  <2>1. k = [todo |-> l.todo, issued |-> l.issued + 1, next |-> l.next, flight |-> l.flight,
             ended |-> l.ended]
    BY <1>1 DEF Loads
  <2>2. Another(l) = Issue(k)
    BY <1>2 DEF Another
  <2> HIDE DEF k
  <2>3. Counted(k, Total)
    BY <1>1, <1>2, <2>1 DEF Counted, Loads
  <2>4. Pending(k) = Pending(l)
    BY <2>1 DEF Pending
  <2>5. /\ Counted(Issue(k), Total)
        /\ Issue(k).issued = l.issued + 1 /\ Issue(k).next = l.next + 1
        /\ Pending(Issue(k)) = Pending(l) + 1
    BY <2>1, <2>3, <2>4, IssueKeeps
  <2>6. Closed(Issue(k), conc, Total)
    <3>1. Pending(l) + 1 <= conc /\ ~ (Pending(l) < conc - 1)
      BY <1>1, <1>2 DEF Loads
    <3>2. ~ (Pending(l) + 1 < conc)
      BY <1>1, <3>1
    <3> QED
      BY <2>5, <3>1, <3>2 DEF Closed
  <2> QED
    BY <2>2, <2>5, <2>6
<1>3. CASE ~ (l.issued < Total)
  <2>1. Another(l) = l /\ l.issued = Total
    BY <1>1, <1>3 DEF Another, Loads
  <2> QED
    BY <1>1, <2>1 DEF Closed
<1> QED
  BY <1>2, <1>3

LEMMA LoadInit == Init => LoadInv
  BY DEF Init, LoadInv

\* What is known of a cell under load.
LEMMA CellUnderLoad ==
    ASSUME RunInv, pc \in Busy
    PROVE  /\ TheCell \in Cells /\ TheCell.conc \in Nat /\ TheCell.conc >= 1
           /\ Total \in Nat
<1>1. PICK c \in Cells : cell = {c}
  BY DEF RunInv, Held
<1>2. TheCell = c
  BY <1>1, TheCellIs
<1>3. Samples \in Nat
  BY BenchAssumption
<1> QED
  BY <1>2, <1>3 DEF Total, Cells, Positive

LEMMA LoadStep == RunInv /\ LoadInv /\ [Next]_vars => LoadInv'
<1> SUFFICES ASSUME RunInv, LoadInv, [Next]_vars PROVE LoadInv'
  OBVIOUS
<1> DEFINE running == {"load", "stopping", "measure"}
           Fine(l) == Counted(l, Total) /\ IF IsClosed THEN Closed(l, TheCell.conc, Total) ELSE Open(l)
<1>1. ASSUME pc \notin running, pc' \notin running, UNCHANGED load PROVE LoadInv'
  BY <1>1 DEF LoadInv
<1>2. ASSUME cell' = cell, pc \in running, pc' = "load", Fine(load') PROVE LoadInv'
  BY <1>2 DEF LoadInv, TheCell, Total, IsClosed
<1>3. ASSUME pc' \notin running, load' = NoLoad PROVE LoadInv'
  BY <1>3 DEF LoadInv
<1>4. ASSUME UNCHANGED <<cell, load, pc>> PROVE LoadInv'
  BY <1>4 DEF LoadInv, TheCell, Total, IsClosed
<1>5. pc = "load" => /\ Fine(load) /\ Total \in Nat /\ TheCell.conc \in Nat /\ TheCell.conc >= 1
                     /\ MaxBacklog \in Nat
  BY CellUnderLoad, BenchAssumption DEF LoadInv, Busy
<1>6. CASE Pick
  <2>1. pc \notin running /\ pc' \notin running /\ UNCHANGED load
    BY <1>6 DEF Pick
  <2> QED
    BY <1>1, <2>1
<1>7. CASE Begin
  <2>1. /\ TheCell.conc \in Nat /\ Total \in Nat /\ MaxBacklog \in Nat
        /\ cell' = cell /\ pc' = "load" /\ pc = "begin"
    BY <1>7, CellUnderLoad, BenchAssumption DEF Begin, Busy
  <2>2. PICK n : n = IF IsClosed THEN TheCell.conc ELSE 0
    OBVIOUS
  <2>3. PICK l : l = [todo |-> n, issued |-> 0, next |-> 0, flight |-> {}, ended |-> {}]
    OBVIOUS
  <2>4. load' = l /\ n \in Nat
    BY <1>7, <2>1, <2>2, <2>3 DEF Begin, NoLoad
  <2>5. Counted(l, Total)
    <3>1. l \in Loads
      BY <2>3, <2>4 DEF Loads
    <3>2. IsFiniteSet(l.flight) /\ IsFiniteSet(l.ended)
      BY <2>3, FS_EmptySet
    <3>3. l.flight \cup l.ended = 0 .. l.next - 1
      BY <2>3
    <3> QED
      BY <2>1, <2>3, <3>1, <3>2, <3>3 DEF Counted
  <2>6. Pending(l) = n
    BY <2>3, <2>4, FS_EmptySet DEF Pending
  <2>7. IF IsClosed THEN Closed(l, TheCell.conc, Total) ELSE Open(l)
    BY <2>1, <2>2, <2>3, <2>6 DEF Closed, Open
  <2> QED
    BY <2>1, <2>4, <2>5, <2>7 DEF LoadInv, TheCell, Total, IsClosed
<1>8. CASE LoadEnds
  <2>1. /\ pc = "load" /\ pc' = "stopping" /\ UNCHANGED <<cell, load>>
        /\ Pending(load) = 0 /\ (IsClosed \/ load.issued = Total)
    BY <1>8 DEF LoadEnds
  <2>2. load.todo = 0 /\ Cardinality(load.flight) = 0
    <3>1. /\ Cardinality(load.flight) \in Nat /\ load.todo \in Nat
          /\ Pending(load) = load.todo + Cardinality(load.flight)
      BY <1>5, <2>1, PendingType DEF Counted, Loads
    <3> QED
      BY <2>1, <3>1
  <2>3. load.flight = {}
    BY <1>5, <2>1, <2>2, FS_EmptySet DEF Counted
  <2>4. load.next = Total
    <3>1. CASE IsClosed
      BY <1>5, <2>1, <3>1 DEF Closed
    <3>2. CASE ~ IsClosed
      BY <1>5, <2>1, <2>2, <3>2 DEF Open, Counted, Loads
    <3> QED
      BY <3>1, <3>2
  <2> QED
    BY <1>5, <2>1, <2>3, <2>4 DEF LoadInv, TheCell, Total, IsClosed
<1>9. CASE Stop
  BY <1>9 DEF Stop, LoadInv, TheCell, Total, IsClosed
<1>10. CASE Measure
  BY <1>3, <1>10 DEF Measure
<1>11. CASE WriteRaw \/ WriteTelemetry \/ Mark \/ Refine \/ WriteArtifact \/ Finish
  BY <1>1, <1>11 DEF WriteRaw, WriteTelemetry, Mark, Refine, WriteArtifact, Finish
<1>12. CASE ReplaceState
  BY <1>1, <1>12 DEF ReplaceState
<1>13. CASE ClientStarts
  <2>1. /\ pc = "load" /\ IsClosed /\ load.todo > 0 /\ UNCHANGED <<cell, pc>>
        /\ load' = Another([load EXCEPT !.todo = @ - 1])
    BY <1>13 DEF ClientStarts
  <2>2. PICK l : l = [load EXCEPT !.todo = @ - 1]
    OBVIOUS
  <2>3. /\ Counted(load, Total) /\ Closed(load, TheCell.conc, Total)
        /\ load \in Loads /\ load.todo \in Nat /\ Cardinality(load.flight) \in Nat
        /\ Pending(load) = load.todo + Cardinality(load.flight)
    BY <1>5, <2>1, PendingType DEF Counted, Loads
  <2>4. l = [todo |-> load.todo - 1, issued |-> load.issued, next |-> load.next,
             flight |-> load.flight, ended |-> load.ended]
    BY <2>2, <2>3 DEF Loads
  <2>5. Counted(l, Total) /\ Pending(l) = Pending(load) - 1
    <3>1. l \in Loads
      BY <2>1, <2>3, <2>4 DEF Loads
    <3>2. Pending(l) = (load.todo - 1) + Cardinality(load.flight)
      BY <2>4 DEF Pending
    <3> QED
      BY <2>3, <2>4, <3>1, <3>2 DEF Counted
  <2>6. Pending(load) <= TheCell.conc /\ (Pending(load) < TheCell.conc => load.issued = Total)
    BY <2>3 DEF Closed
  <2>7. Pending(l) < TheCell.conc /\ (Pending(l) < TheCell.conc - 1 => l.issued = Total)
    BY <1>5, <2>1, <2>3, <2>4, <2>5, <2>6
  <2>8. l.next = l.issued
    BY <2>3, <2>4 DEF Closed
  <2>9. Counted(Another(l), Total) /\ Closed(Another(l), TheCell.conc, Total)
    BY <1>5, <2>1, <2>5, <2>7, <2>8, AnotherKeeps
  <2> QED
    BY <1>2, <2>1, <2>2, <2>9
<1>14. CASE Burst
  <2>1. /\ pc = "load" /\ ~ IsClosed /\ load.issued < Total /\ Pending(load) < MaxBacklog
        /\ UNCHANGED <<cell, pc>>
    BY <1>14 DEF Burst
  <2>2. /\ Counted(load, Total) /\ Open(load) /\ load \in Loads
        /\ Cardinality(load.flight) \in Nat /\ Pending(load) = load.todo + Cardinality(load.flight)
    BY <1>5, <2>1, PendingType DEF Counted
  <2>3. PICK made \in Nat : /\ made <= MaxBacklog - Pending(load) /\ made <= Total - load.issued
                            /\ load' = [load EXCEPT !.todo = @ + made, !.issued = @ + made]
    <3> DEFINE room == MaxBacklog - Pending(load)
               left == Total - load.issued
               made == IF room < left THEN room ELSE left
    <3>1. made \in Nat /\ made <= room /\ made <= left
      BY <1>5, <2>1, <2>2 DEF Loads
    <3>2. load' = [load EXCEPT !.todo = @ + made, !.issued = @ + made]
      BY <1>14 DEF Burst
    <3> QED
      BY <3>1, <3>2
  <2>4. PICK l : l = [todo |-> load.todo + made, issued |-> load.issued + made,
                      next |-> load.next, flight |-> load.flight, ended |-> load.ended]
    OBVIOUS
  <2>5. load' = l
    <3>1. PICK h : h = [load EXCEPT !.todo = @ + made]
      OBVIOUS
    <3>2. load' = [h EXCEPT !.issued = load.issued + made]
      BY <2>2, <2>3, <3>1 DEF Loads
    <3>3. h = [todo |-> load.todo + made, issued |-> load.issued, next |-> load.next,
               flight |-> load.flight, ended |-> load.ended]
      BY <2>2, <3>1 DEF Loads
    <3> QED
      BY <2>4, <3>2, <3>3
  <2>6. Counted(l, Total)
    <3>1. l \in Loads
      BY <2>2, <2>3, <2>4 DEF Loads
    <3>2. l.issued <= Total
      BY <1>5, <2>1, <2>2, <2>3, <2>4 DEF Loads
    <3> QED
      BY <2>2, <2>4, <3>1, <3>2 DEF Counted
  <2>7. Open(l)
    <3>1. Pending(l) = (load.todo + made) + Cardinality(load.flight)
      BY <2>4 DEF Pending
    <3>2. Pending(l) <= MaxBacklog
      BY <1>5, <2>1, <2>2, <2>3, <3>1 DEF Loads
    <3>3. load.next + load.todo = load.issued
      BY <2>2 DEF Open
    <3>4. l.next + l.todo = l.issued
      BY <2>2, <2>3, <2>4, <3>3 DEF Loads
    <3> QED
      BY <3>2, <3>4 DEF Open
  <2> QED
    BY <1>2, <2>1, <2>5, <2>6, <2>7
<1>15. CASE TaskStarts
  <2>1. /\ pc = "load" /\ ~ IsClosed /\ load.todo > 0 /\ UNCHANGED <<cell, pc>>
        /\ load' = Issue([load EXCEPT !.todo = @ - 1])
    BY <1>15 DEF TaskStarts
  <2>2. PICK l : l = [load EXCEPT !.todo = @ - 1]
    OBVIOUS
  <2>3. /\ Counted(load, Total) /\ Open(load)
        /\ load \in Loads /\ Cardinality(load.flight) \in Nat
        /\ Pending(load) = load.todo + Cardinality(load.flight)
    BY <1>5, <2>1, PendingType DEF Counted
  <2>4. l = [todo |-> load.todo - 1, issued |-> load.issued, next |-> load.next,
             flight |-> load.flight, ended |-> load.ended]
    BY <2>2, <2>3 DEF Loads
  <2>5. Counted(l, Total) /\ Pending(l) = Pending(load) - 1
    <3>1. l \in Loads
      BY <2>1, <2>3, <2>4 DEF Loads
    <3>2. Pending(l) = (load.todo - 1) + Cardinality(load.flight)
      BY <2>4 DEF Pending
    <3>3. load.todo \in Nat
      BY <2>3 DEF Loads
    <3> QED
      BY <2>3, <2>4, <3>1, <3>2, <3>3 DEF Counted
  <2>6. /\ Counted(Issue(l), Total)
        /\ Issue(l).todo = l.todo /\ Issue(l).issued = l.issued
        /\ Issue(l).next = l.next + 1 /\ Pending(Issue(l)) = Pending(l) + 1
    BY <1>5, <2>1, <2>5, IssueKeeps
  <2>7. Open(Issue(l))
    <3>1. load.next + load.todo = load.issued /\ Pending(load) <= MaxBacklog
      BY <2>3 DEF Open
    <3>2. Pending(load) \in Nat
      BY <2>3, PendingType
    <3> QED
      BY <2>3, <2>4, <2>5, <2>6, <3>1, <3>2 DEF Open, Loads
  <2> QED
    BY <1>2, <2>1, <2>2, <2>6, <2>7
<1>16. CASE \E i \in load.flight : RequestEnds(i)
  <2>1. PICK i \in load.flight : RequestEnds(i)
    BY <1>16
  <2>2. PICK l : l = [load EXCEPT !.flight = @ \ {i}, !.ended = @ \cup {i}]
    OBVIOUS
  <2>3. /\ pc = "load" /\ UNCHANGED <<cell, pc>>
        /\ load' = IF IsClosed THEN Another(l) ELSE l
    BY <2>1, <2>2 DEF RequestEnds
  <2>4. Counted(load, Total) /\ Pending(load) \in Nat
    BY <1>5, <2>3, PendingType
  <2>5. /\ Counted(l, Total) /\ l.todo = load.todo /\ l.issued = load.issued /\ l.next = load.next
        /\ Pending(l) = Pending(load) - 1
    <3>1. load \in Loads /\ Total \in Nat
      BY <1>5, <2>3, <2>4 DEF Counted
    <3>2. l = [todo |-> load.todo, issued |-> load.issued, next |-> load.next,
               flight |-> load.flight \ {i}, ended |-> load.ended \cup {i}]
      <4>1. l = [[load EXCEPT !.flight = load.flight \ {i}] EXCEPT !.ended = load.ended \cup {i}]
        BY <2>2, <3>1 DEF Loads
      <4> QED
        BY <3>1, <4>1 DEF Loads
    <3>3. i \in load.flight
      BY <2>1
    <3> QED
      BY <2>4, <3>1, <3>2, <3>3, EndKeeps
  <2>6. CASE IsClosed
    <3>1. /\ load.next = load.issued /\ Pending(load) <= TheCell.conc
          /\ Pending(load) < TheCell.conc => load.issued = Total
      BY <1>5, <2>3, <2>6 DEF Closed
    <3>2. Pending(l) < TheCell.conc /\ (Pending(l) < TheCell.conc - 1 => l.issued = Total)
      BY <1>5, <2>3, <2>4, <2>5, <3>1
    <3>3. Counted(Another(l), Total) /\ Closed(Another(l), TheCell.conc, Total)
      BY <1>5, <2>3, <2>5, <3>1, <3>2, AnotherKeeps
    <3> QED
      BY <1>2, <2>3, <2>6, <3>3
  <2>7. CASE ~ IsClosed
    <3>1. load.next + load.todo = load.issued /\ Pending(load) <= MaxBacklog
      BY <1>5, <2>3, <2>7 DEF Open
    <3>2. Open(l)
      BY <1>5, <2>3, <2>4, <2>5, <3>1 DEF Open
    <3> QED
      BY <1>2, <2>3, <2>5, <2>7, <3>2
  <2> QED
    BY <2>6, <2>7
<1>17. CASE Sampler
  BY <1>4, <1>17 DEF Sampler, SamplerAsks, SamplerReads, SamplerEnds, StopGivesUp
<1>18. CASE PersistFails
  BY <1>1, <1>18 DEF PersistFails
<1>19. CASE Crash
  BY <1>3, <1>19 DEF Crash
<1>20. CASE UNCHANGED vars
  BY <1>4, <1>20 DEF vars
<1> QED
  BY <1>6, <1>7, <1>8, <1>9, <1>10, <1>11, <1>12, <1>13, <1>14, <1>15, <1>16, <1>17, <1>18,
     <1>19, <1>20 DEF Next, Main, Load

\* What the prompts need: Python's hash is an integer, and a cell asks for no
\* more prompts than the generator has seeds.
Seeds == 2147483647
HashIsInteger == \A c \in Cells : Hash(c) \in Int
EnoughSeeds == 3 * Samples <= Seeds

\* The prompts of a cold cell have seeds of their own, although the
\* repetition and the variant grow together and the seed wraps around.
LEMMA SeedsDiffer ==
    ASSUME NEW h \in Int, NEW i \in Nat, NEW j \in Nat, j < i, i < Seeds
    PROVE  make_rng(h, i, i) # make_rng(h, j, j)
<1> SUFFICES ASSUME make_rng(h, i, i) = make_rng(h, j, j) PROVE FALSE
  OBVIOUS
<1>1. (h * 7919 + i * 104729 + i) % Seeds = (h * 7919 + j * 104729 + j) % Seeds
  BY SMT DEF make_rng, Seeds
<1>2. PICK a \in Int : a = h * 7919
  OBVIOUS
<1>3. PICK m \in Int : 104730 * (i - j) = Seeds * m
  BY <1>1, <1>2, SMT DEF Seeds
<1> QED
  BY <1>3, SMT DEF Seeds

LEMMA PromptsDiffer ==
    ASSUME HashIsInteger, NEW c \in Cells, NEW i \in Nat, NEW j \in Nat, i < Seeds, j < Seeds,
           i # j
    PROVE  PromptFor(c, i) = PromptFor(c, j) <=> c.cache = "warm"
<1>1. CASE c.cache = "warm"
  BY <1>1 DEF PromptFor
<1>2. CASE c.cache # "warm"
  <2>1. Hash(c) \in Int /\ c.isl # 0
    BY DEF HashIsInteger, Cells, Positive
  <2>2. make_rng(Hash(c), i, i) # make_rng(Hash(c), j, j)
    <3>1. i < j \/ j < i
      OBVIOUS
    <3> QED
      BY <2>1, <3>1, SeedsDiffer
  <2>3. \A k : PromptFor(c, k).tail.seed = make_rng(Hash(c), k, k)
    BY <1>2, <2>1 DEF PromptFor, generate_prompt
  <2> QED
    BY <1>2, <2>2, <2>3
<1> QED
  BY <1>1, <1>2

LEMMA LoadInvImplies ==
    ASSUME HashIsInteger, EnoughSeeds, RunInv, LoadInv
    PROVE  LoadIsAsPlanned
<1>1. CASE pc \notin {"load", "stopping", "measure"}
  <2>1. load = NoLoad /\ pc \notin {"load", "stopping", "measure"}
    BY <1>1 DEF LoadInv
  <2>2. Cardinality({}) = 0
    BY FS_EmptySet
  <2> QED
    BY <2>1, <2>2 DEF LoadIsAsPlanned, NoLoad
<1>2. CASE pc \in {"load", "stopping", "measure"}
  <2>1. /\ TheCell \in Cells /\ TheCell.conc \in Nat /\ Total \in Nat
        /\ Counted(load, Total) /\ IF IsClosed THEN Closed(load, TheCell.conc, Total) ELSE Open(load)
    BY <1>2, CellUnderLoad DEF LoadInv, Busy
  <2>2. /\ load \in Loads /\ Cardinality(load.flight) \in Nat
        /\ Pending(load) = load.todo + Cardinality(load.flight)
    BY <2>1, PendingType DEF Counted
  <2>3. load.next <= load.issued /\ load.next <= Total
    <3>1. load.issued <= Total
      BY <2>1 DEF Counted
    <3>2. load.next <= load.issued
      BY <2>1, <2>2 DEF Closed, Open, Loads
    <3> QED
      BY <2>1, <2>2, <3>1, <3>2 DEF Loads
  <2>4. Cardinality(load.flight) <= (IF IsClosed THEN TheCell.conc ELSE MaxBacklog)
    <3>1. Pending(load) <= (IF IsClosed THEN TheCell.conc ELSE MaxBacklog)
      BY <2>1 DEF Closed, Open
    <3>2. (IF IsClosed THEN TheCell.conc ELSE MaxBacklog) \in Nat
      BY <2>1, BenchAssumption
    <3> QED
      BY <2>2, <3>1, <3>2 DEF Loads
  <2>5. load.flight \cap load.ended = {} /\ load.flight \cup load.ended = 0 .. load.next - 1
    BY <2>1 DEF Counted
  <2>6. load.next = Cardinality(load.ended) + Cardinality(load.flight)
    <3>1. IsFiniteSet(load.flight) /\ IsFiniteSet(load.ended)
      BY <2>1 DEF Counted
    <3>2. Cardinality(load.ended \cup load.flight) =
            Cardinality(load.ended) + Cardinality(load.flight) - Cardinality(load.ended \cap load.flight)
      BY <3>1, FS_Union
    <3>3. Cardinality(load.ended \cap load.flight) = 0
      <4>1. load.ended \cap load.flight = {}
        BY <2>5
      <4> QED
        BY <4>1, FS_EmptySet
    <3>4. Cardinality(0 .. load.next - 1) = load.next
      <4>1. PICK n \in Nat : n = load.next
        BY <2>2 DEF Loads
      <4>2. 0 \in Int /\ n - 1 \in Int
        BY <4>1
      <4>3. Cardinality(0 .. n - 1) = IF 0 > n - 1 THEN 0 ELSE (n - 1) - 0 + 1
        BY <4>2, FS_Interval, Zenon
      <4> QED
        BY <4>1, <4>3
    <3>5. Cardinality(load.ended) \in Nat
      BY <3>1, FS_CardinalityType
    <3>6. load.ended \cap load.flight = {} /\ load.ended \cup load.flight = 0 .. load.next - 1
      BY <2>5
    <3>7. load.next = Cardinality(load.ended) + Cardinality(load.flight) - 0
      BY <3>2, <3>3, <3>4, <3>6
    <3> QED
      BY <2>2, <3>5, <3>7
  <2>7. ASSUME NEW i \in load.ended \cup load.flight, NEW j \in load.ended \cup load.flight, i # j
        PROVE  Sent(i) = Sent(j) <=> TheCell.cache = "warm"
    <3>1. i \in 0 .. Total - 1 /\ j \in 0 .. Total - 1
      BY <2>1, <2>2, <2>3, <2>5 DEF Loads
    <3>2. Total <= Seeds
      <4>1. Samples \in Nat /\ TheCell.reps \in 1 .. 3
        BY <2>1, BenchAssumption DEF Cells
      <4>2. TheCell.reps = 1 \/ TheCell.reps = 2 \/ TheCell.reps = 3
        BY <4>1
      <4>3. Seeds \in Nat
        BY SMT DEF Seeds
      <4> QED
        BY <4>1, <4>2, <4>3 DEF Total, EnoughSeeds
    <3>3. i % Total = i /\ j % Total = j
      BY <2>1, <3>1
    <3>4. i \in Nat /\ j \in Nat /\ i < Seeds /\ j < Seeds
      <4>1. Seeds \in Nat
        BY SMT DEF Seeds
      <4> QED
        BY <2>1, <3>1, <3>2, <4>1
    <3> QED
      BY <2>1, <2>7, <3>3, <3>4, PromptsDiffer DEF Sent
  <2>8. pc \in {"stopping", "measure"} => load.ended = 0 .. Total - 1
    BY <2>5 DEF LoadInv
  <2> QED
    BY <2>4, <2>5, <2>6, <2>7, <2>8 DEF LoadIsAsPlanned
<1> QED
  BY <1>1, <1>2

\* Requests overlap no more than the cell says, whatever order its tasks run
\* in; no prompt of a cold cell is sent twice; and the generator returns when
\* every prompt was sent and its request ended.
THEOREM LoadStaysAsPlanned ==
    ASSUME HashIsInteger, EnoughSeeds
    PROVE  Spec => []LoadIsAsPlanned
<1>1. Init => RunInv /\ LoadInv
  BY RunInit, LoadInit
<1>2. RunInv /\ LoadInv /\ [Next]_vars => (RunInv /\ LoadInv)'
  BY RunStep, LoadStep
<1>3. RunInv /\ LoadInv => LoadIsAsPlanned
  BY LoadInvImplies
<1> QED
  BY <1>1, <1>2, <1>3, PTL DEF Spec

-----------------------------------------------------------------------------
\* The run directory

\* What was measured has numbers and keys of its own, and its files.
Numbered ==
    /\ \A i \in DOMAIN results : results[i].id <= attempts
    /\ pc \notin {"replace", "refine", "done"} => \A i \in DOMAIN results : results[i].id < attempts
    /\ \A i, j \in DOMAIN results :
         i # j => results[i].id # results[j].id /\ Key(results[i].cell) # Key(results[j].cell)

\* The files of a measurement m are in the run directory.
RawOf(m) == {f \in disk.raw : f.id = m.id}
SeriesKept(m) == m.readings > 0 => [id |-> m.id, readings |-> m.readings] \in disk.telemetry

Stored ==
    /\ \A i \in DOMAIN results : RawOf(results[i]) = {results[i]} /\ SeriesKept(results[i])
    /\ pc \in {"telemetry", "mark"} => \A m \in mc : RawOf(m) = {m}
    /\ pc = "mark" => \A m \in mc : SeriesKept(m)

\* The state file names what was measured, or all of it but the last.
Listed ==
    /\ IsInjective(disk.state.ids) /\ Range(disk.state.ids) \subseteq Range(Ids)
    /\ pc = "replace" => disk.tmp.ids = Ids
    /\ pc # "replace" \/ disk.tmp.finished => disk.state.ids = Ids

\* run_result.json comes last of the report, and the end of the run after it.
Reported ==
    /\ disk.artifacts # {} => pc \in {"report", "replace", "done"}
    /\ "run_result" \in disk.artifacts =>
         /\ Range(Artifacts) \ {"csv"} \subseteq disk.artifacts
         /\ disk.reported = Ids
    /\ pc = "replace" => (disk.tmp.finished <=> disk.artifacts # {})
    /\ disk.tmp.finished \/ disk.state.finished => "run_result" \in disk.artifacts

StateFiles == [ids : Seq(Nat), finished : BOOLEAN]
Directories ==
    [raw : SUBSET Measurements, telemetry : SUBSET [id : Nat, readings : Nat],
     state : StateFiles, tmp : StateFiles, artifacts : SUBSET Range(Artifacts),
     reported : Seq(Nat)]

\* When the process is gone nothing touches its directory.
FilesInv ==
    /\ disk \in Directories
    /\ IF pc = "dead" THEN FilesAgree ELSE Numbered /\ Stored /\ Listed /\ Reported

LEMMA FilesInit == Init => FilesInv
<1> SUFFICES ASSUME Init PROVE FilesInv
  OBVIOUS
<1>1. /\ results = <<>> /\ pc = "pick" /\ disk = EmptyDisk /\ mc = {}
  BY DEF Init
<1>2. Ids = <<>>
  BY <1>1 DEF Ids
<1>3. Numbered /\ Stored
  BY <1>1 DEF Numbered, Stored
<1>4. Listed
  BY <1>1, <1>2 DEF Listed, EmptyDisk, NoState, IsInjective, Range
<1>5. Reported
  BY <1>1 DEF Reported, EmptyDisk, NoState
<1>6. disk \in Directories
  BY <1>1 DEF EmptyDisk, NoState, Directories, StateFiles
<1> QED
  BY <1>1, <1>3, <1>4, <1>5, <1>6 DEF FilesInv

\* The invariant says what has to be in the directory at each moment.
LEMMA FilesInvImplies ==
    ASSUME RunInv, FilesInv
    PROVE  FilesAgree
<1>1. CASE pc = "dead"
  BY <1>1 DEF FilesInv
<1>2. CASE pc # "dead"
  <2>1. Numbered /\ Stored /\ Listed /\ Reported
    BY <1>2 DEF FilesInv
  <2>2. results \in Seq(Measurements)
    BY DEF RunInv, Shapes
  <2> DEFINE ids == Range(disk.state.ids)
             Raw(id) == {f \in disk.raw : f.id = id}
  <2>3. ASSUME NEW id \in ids
        PROVE  \E i \in DOMAIN results :
                 /\ results[i].id = id /\ Raw(id) = {results[i]}
                 /\ results[i].readings > 0 =>
                      [id |-> id, readings |-> results[i].readings] \in disk.telemetry
    <3>1. PICK i \in DOMAIN results : id = results[i].id
      BY <2>1 DEF Listed, Range, Ids
    <3> QED
      BY <2>1, <3>1 DEF Stored, RawOf, SeriesKept
  <2>4. ASSUME NEW id \in ids PROVE Cardinality(Raw(id)) = 1
    <3>1. PICK i \in DOMAIN results : Raw(id) = {results[i]}
      BY <2>3
    <3> QED
      BY <3>1, FS_Singleton
  <2>5. ASSUME NEW id \in ids, NEW jd \in ids, NEW f \in Raw(id), NEW g \in Raw(jd),
               Key(f.cell) = Key(g.cell)
        PROVE  id = jd
    <3>1. PICK i \in DOMAIN results : results[i].id = id /\ Raw(id) = {results[i]}
      BY <2>3
    <3>2. PICK j \in DOMAIN results : results[j].id = jd /\ Raw(jd) = {results[j]}
      BY <2>3
    <3>3. f = results[i] /\ g = results[j]
      BY <3>1, <3>2
    <3>4. i = j
      BY <2>1, <2>5, <3>3 DEF Numbered
    <3> QED
      BY <3>1, <3>2, <3>4
  <2>6. ASSUME NEW id \in ids, NEW f \in Raw(id), f.readings > 0
        PROVE  [id |-> id, readings |-> f.readings] \in disk.telemetry
    BY <2>3, <2>6
  <2>7. "run_result" \in disk.artifacts =>
          Range(Artifacts) \ {"csv"} \subseteq disk.artifacts /\ disk.reported = disk.state.ids
    BY <2>1 DEF Reported, Listed
  <2>8. disk.state.finished => "run_result" \in disk.artifacts
    BY <2>1 DEF Reported
  <2>9. IsInjective(disk.state.ids)
    BY <2>1 DEF Listed
  <2> QED
    BY <2>4, <2>5, <2>6, <2>7, <2>8, <2>9 DEF FilesAgree
<1> QED
  BY <1>1, <1>2

\* The end of the report: run_result is written when all else is there.
LEMMA LastArtifact ==
    ASSUME Missing # {}, Artifacts[Min(Missing)] = "run_result"
    PROVE  Range(Artifacts) \ {"csv"} \subseteq disk.artifacts \cup {"run_result"}
<1>1. DOMAIN Artifacts = 1 .. 7
  BY DEF Artifacts
<1>2. Missing \subseteq Nat /\ Missing \subseteq 1 .. 7
  BY <1>1 DEF Missing
<1>3. Min(Missing) \in Missing /\ \A n \in Missing : Min(Missing) <= n
  BY <1>2, MinIsLeast
<1>4. PICK n \in 1 .. 7 : n = Min(Missing)
  BY <1>2, <1>3
<1>5. n = 7
  <2>1. Artifacts[n] = "run_result"
    BY <1>4
  <2>2. n \in {1, 2, 3, 4, 5, 6, 7}
    BY <1>4
  <2> QED
    BY <2>1, <2>2 DEF Artifacts
<1>6. \A i \in 1 .. 6 : i \notin Missing
  BY <1>3, <1>4, <1>5
<1>7. \A i \in 1 .. 6 : Artifacts[i] \in disk.artifacts \cup {"csv"}
  BY <1>1, <1>6 DEF Missing, Skipped
<1> QED
  BY <1>1, <1>7 DEF Artifacts, Range

LEMMA AllThere ==
    ASSUME Missing = {}
    PROVE  "run_result" \in disk.artifacts
<1>1. 7 \in DOMAIN Artifacts /\ Artifacts[7] = "run_result"
  BY DEF Artifacts
<1>2. 7 \notin Missing
  OBVIOUS
<1> QED
  BY <1>1, <1>2 DEF Missing, Skipped

\* The measurement at hand, and the steps that write.
LEMMA MeasurementAtHand ==
    ASSUME RunInv, pc \in Measuring
    PROVE  \E m \in Measurements :
             /\ mc = {m} /\ TheMeasurement = m /\ m.id = attempts /\ cell = {m.cell}
             /\ m.readings = gpu.series /\ Key(m.cell) \notin Measured(results)
<1>1. PICK m \in mc : mc = {m} /\ m \in Measurements /\ m.id = attempts /\ cell = {m.cell}
  BY DEF RunInv, Held
<1>2. TheMeasurement = m
  BY <1>1 DEF TheMeasurement
<1>3. m.readings = gpu.series
  BY <1>1 DEF RunInv, Sampled, SeriesIsComplete
<1>4. PICK c \in cell : cell = {c} /\ Key(c) \notin Measured(results)
  BY DEF RunInv, Held, Busy
<1> QED
  BY <1>1, <1>2, <1>3, <1>4

LEMMA IdsType ==
    ASSUME results \in Seq(Measurements)
    PROVE  Ids \in Seq(Nat) /\ DOMAIN Ids = DOMAIN results
<1>1. \A i \in DOMAIN results : results[i].id \in Nat
  <2>1. \A i \in DOMAIN results : results[i] \in Measurements
    OBVIOUS
  <2> QED
    BY <2>1 DEF Measurements
<1>2. Ids \in [DOMAIN results -> Nat]
  BY <1>1 DEF Ids
<1> QED
  BY <1>2, SeqOver, Zenon

\* The kinds of file, each written by some of the steps.
LEMMA RawWritten ==
    ASSUME disk \in Directories, WriteRaw
    PROVE  /\ disk'.raw = {f \in disk.raw : f.id # TheMeasurement.id} \cup mc
           /\ disk'.telemetry = disk.telemetry /\ disk'.state = disk.state
           /\ disk'.tmp = disk.tmp /\ disk'.artifacts = disk.artifacts
           /\ disk'.reported = disk.reported
  BY DEF Directories, WriteRaw

LEMMA TelemetryWritten ==
    ASSUME disk \in Directories, WriteTelemetry
    PROVE  /\ disk'.telemetry =
                IF gpu.series = 0 THEN disk.telemetry
                ELSE disk.telemetry \cup {[id |-> TheMeasurement.id, readings |-> gpu.series]}
           /\ disk'.raw = disk.raw /\ disk'.state = disk.state
           /\ disk'.tmp = disk.tmp /\ disk'.artifacts = disk.artifacts
           /\ disk'.reported = disk.reported
  BY DEF Directories, WriteTelemetry

LEMMA MarkWritten ==
    ASSUME disk \in Directories, Mark
    PROVE  /\ disk'.tmp.ids = Append(Ids, TheMeasurement.id)
           /\ disk'.tmp.finished = disk.tmp.finished
           /\ disk'.raw = disk.raw /\ disk'.telemetry = disk.telemetry
           /\ disk'.state = disk.state /\ disk'.artifacts = disk.artifacts
           /\ disk'.reported = disk.reported
  BY DEF Directories, StateFiles, Mark

LEMMA StateWritten ==
    ASSUME disk \in Directories, ReplaceState \/ Finish
    PROVE  /\ disk'.state = IF ReplaceState THEN disk.tmp ELSE disk.state
           /\ disk'.tmp = IF ReplaceState THEN disk.tmp ELSE [ids |-> Ids, finished |-> TRUE]
           /\ disk'.raw = disk.raw /\ disk'.telemetry = disk.telemetry
           /\ disk'.artifacts = disk.artifacts /\ disk'.reported = disk.reported
<1>1. CASE ReplaceState
  BY <1>1 DEF Directories, ReplaceState
<1>2. CASE Finish /\ ~ ReplaceState
  BY <1>2 DEF Directories, Finish
<1> QED
  BY <1>1, <1>2

LEMMA ArtifactWritten ==
    ASSUME disk \in Directories, WriteArtifact
    PROVE  /\ disk'.artifacts = disk.artifacts \cup {Artifacts[Min(Missing)]}
           /\ disk'.reported =
                IF Artifacts[Min(Missing)] = "run_result" THEN Ids ELSE disk.reported
           /\ disk'.raw = disk.raw /\ disk'.telemetry = disk.telemetry
           /\ disk'.state = disk.state /\ disk'.tmp = disk.tmp
<1>1. PICK name : name = Artifacts[Min(Missing)]
  OBVIOUS
<1>2. PICK reported : reported = IF name = "run_result" THEN Ids ELSE disk.reported
  OBVIOUS
<1>3. disk' = [disk EXCEPT !.artifacts = @ \cup {name}, !.reported = reported]
  BY <1>1, <1>2 DEF WriteArtifact, Directories
<1> QED
  BY <1>1, <1>2, <1>3 DEF Directories

LEMMA DirectoriesStep ==
    ASSUME RunInv, disk \in Directories, [Next]_vars
    PROVE  disk' \in Directories
<1>1. CASE UNCHANGED disk
  BY <1>1
<1>2. CASE WriteRaw
  <2>1. mc \subseteq Measurements
    BY <1>2, MeasurementAtHand DEF WriteRaw, Measuring
  <2>2. PICK raw \in SUBSET Measurements : raw = {f \in disk.raw : f.id # TheMeasurement.id} \cup mc
    BY <2>1 DEF Directories
  <2>3. disk' = [disk EXCEPT !.raw = raw]
    BY <1>2, <2>2 DEF WriteRaw, Directories
  <2> QED
    BY <2>2, <2>3 DEF Directories
<1>3. CASE WriteTelemetry
  <2>1. TheMeasurement.id \in Nat /\ gpu.series \in Nat
    BY <1>3, MeasurementAtHand DEF WriteTelemetry, Measuring, Measurements, RunInv, Shapes
  <2>2. PICK t \in SUBSET [id : Nat, readings : Nat] :
          disk' = [disk EXCEPT !.telemetry = t]
    <3>1. PICK t : t = IF gpu.series = 0 THEN disk.telemetry
                       ELSE disk.telemetry
                              \cup {[id |-> TheMeasurement.id, readings |-> gpu.series]}
      OBVIOUS
    <3>2. disk' = [disk EXCEPT !.telemetry = t]
      BY <1>3, <3>1 DEF WriteTelemetry, Directories
    <3>3. disk.telemetry \subseteq [id : Nat, readings : Nat]
      BY DEF Directories
    <3>4. t \subseteq [id : Nat, readings : Nat]
      BY <2>1, <3>1, <3>3
    <3> QED
      BY <3>2, <3>4
  <2> QED
    BY <2>2 DEF Directories
<1>4. CASE Mark
  <2>1. Ids \in Seq(Nat) /\ TheMeasurement.id \in Nat
    BY <1>4, MeasurementAtHand, IdsType DEF Mark, Measuring, Measurements, RunInv, Shapes
  <2>2. PICK ids \in Seq(Nat) : ids = Append(Ids, TheMeasurement.id)
    <3>1. PICK old \in Seq(Nat), id \in Nat : old = Ids /\ id = TheMeasurement.id
      BY <2>1
    <3>2. Append(old, id) \in Seq(Nat)
      OBVIOUS
    <3> QED
      BY <3>1, <3>2
  <2>3. disk' = [disk EXCEPT !.tmp = [disk.tmp EXCEPT !.ids = ids]]
    BY <1>4, <2>2 DEF Mark, Directories
  <2>4. [disk.tmp EXCEPT !.ids = ids] \in StateFiles
    BY DEF Directories, StateFiles
  <2> QED
    BY <2>3, <2>4 DEF Directories
<1>5. CASE ReplaceState
  BY <1>5 DEF ReplaceState, Directories
<1>6. CASE WriteArtifact
  <2>1. Ids \in Seq(Nat)
    BY IdsType DEF RunInv, Shapes
  <2>2. Artifacts[Min(Missing)] \in Range(Artifacts)
    <3>1. Missing \subseteq Nat /\ Missing # {} /\ Missing \subseteq DOMAIN Artifacts
      BY <1>6 DEF WriteArtifact, Missing, Artifacts
    <3>2. Min(Missing) \in Missing
      BY <3>1, MinIsLeast
    <3> QED
      BY <3>1, <3>2 DEF Range
  <2>3. PICK name \in Range(Artifacts) : name = Artifacts[Min(Missing)]
    BY <2>2
  <2>4. PICK reported \in Seq(Nat) : reported = IF name = "run_result" THEN Ids ELSE disk.reported
    BY <2>1 DEF Directories
  <2>5. disk' = [disk EXCEPT !.artifacts = @ \cup {name}, !.reported = reported]
    BY <1>6, <2>3, <2>4 DEF WriteArtifact, Directories
  <2> QED
    BY <2>5 DEF Directories
<1>7. CASE Finish
  <2>1. [ids |-> Ids, finished |-> TRUE] \in StateFiles
    BY IdsType DEF RunInv, Shapes, StateFiles
  <2> QED
    BY <1>7, <2>1 DEF Finish, Directories
<1>8. CASE Pick \/ Begin \/ LoadEnds \/ Stop \/ Measure \/ Refine
  BY <1>1, <1>8 DEF Pick, Begin, LoadEnds, Stop, Measure, Refine
<1>9. CASE Load \/ Sampler \/ PersistFails \/ Crash
  BY <1>1, <1>9 DEF Load, ClientStarts, Burst, TaskStarts, RequestEnds, Sampler, SamplerAsks,
    SamplerReads, SamplerEnds, StopGivesUp, PersistFails, Crash
<1>10. CASE UNCHANGED vars
  BY <1>1, <1>10 DEF vars
<1> QED
  BY <1>2, <1>3, <1>4, <1>5, <1>6, <1>7, <1>8, <1>9, <1>10 DEF Next, Main

LEMMA FilesStep == RunInv /\ FilesInv /\ [Next]_vars => FilesInv'
<1> SUFFICES ASSUME RunInv, FilesInv, [Next]_vars PROVE FilesInv'
  OBVIOUS
<1> DEFINE Parts == Numbered /\ Stored /\ Listed /\ Reported
           quiet == {"pick", "begin", "load", "stopping", "measure"}
<1>1. disk \in Directories /\ disk' \in Directories
  BY DirectoriesStep DEF FilesInv
<1>2. pc # "dead" => Parts
  BY DEF FilesInv
<1>3. /\ attempts \in Nat /\ results \in Seq(Measurements)
      /\ \A i \in DOMAIN results : results[i] \in Measurements /\ results[i].id \in Nat
  <2>1. attempts \in Nat /\ results \in Seq(Measurements)
    BY DEF RunInv, Shapes
  <2>2. \A i \in DOMAIN results : results[i] \in Measurements
    BY <2>1
  <2> QED
    BY <2>1, <2>2 DEF Measurements
<1>4. ASSUME Parts', pc' # "dead" PROVE FilesInv'
  BY <1>1, <1>4 DEF FilesInv
<1>5. ASSUME UNCHANGED <<results, attempts, disk>>, pc \in quiet,
             pc' \in quiet \cup {"report", "persist"}
      PROVE  FilesInv'
  <2>1. Numbered'
    BY <1>2, <1>5 DEF Numbered
  <2>2. Stored'
    BY <1>2, <1>5 DEF Stored, RawOf, SeriesKept
  <2>3. Listed'
    BY <1>2, <1>5 DEF Listed, Ids
  <2>4. Reported'
    BY <1>2, <1>5 DEF Reported, Ids
  <2> QED
    BY <1>4, <1>5, <2>1, <2>2, <2>3, <2>4
<1>6. ASSUME UNCHANGED <<results, attempts, disk, mc, pc>> PROVE FilesInv'
  <2>1. CASE pc = "dead"
    BY <1>1, <1>6, <2>1 DEF FilesInv, FilesAgree
  <2>2. CASE pc # "dead"
    BY <1>2, <1>4, <1>6, <2>2 DEF Numbered, Stored, RawOf, SeriesKept, Listed, Reported, Ids
  <2> QED
    BY <2>1, <2>2
<1>7. CASE Pick \/ Begin \/ LoadEnds \/ Stop \/ Measure
  BY <1>5, <1>7 DEF Pick, Begin, LoadEnds, Stop, Measure
<1>8. CASE Load
  BY <1>6, <1>8 DEF Load, ClientStarts, Burst, TaskStarts, RequestEnds
<1>9. CASE Sampler
  BY <1>6, <1>9 DEF Sampler, SamplerAsks, SamplerReads, SamplerEnds, StopGivesUp
<1>10. CASE UNCHANGED vars
  BY <1>6, <1>10 DEF vars
<1>11. CASE WriteRaw
  <2>1. PICK m \in Measurements :
          /\ mc = {m} /\ TheMeasurement = m /\ m.id = attempts
    BY <1>11, MeasurementAtHand DEF WriteRaw, Measuring
  <2>2. pc = "persist" /\ pc' = "telemetry" /\ UNCHANGED <<results, attempts, mc>>
    BY <1>11 DEF WriteRaw
  <2>3. /\ disk'.raw = {f \in disk.raw : f.id # m.id} \cup {m}
        /\ disk'.telemetry = disk.telemetry /\ disk'.state = disk.state
        /\ disk'.tmp = disk.tmp /\ disk'.artifacts = disk.artifacts
        /\ disk'.reported = disk.reported
    BY <1>1, <1>11, <2>1, RawWritten
  <2>4. Numbered'
    BY <1>2, <2>2 DEF Numbered
  <2>5. Stored'
    <3>1. ASSUME NEW i \in DOMAIN results
          PROVE  {f \in disk'.raw : f.id = results[i].id} = {results[i]}
      <4>1. results[i].id # m.id /\ {f \in disk.raw : f.id = results[i].id} = {results[i]}
        BY <1>2, <1>3, <2>1, <2>2 DEF Numbered, Stored, RawOf
      <4> QED
        BY <2>3, <4>1
    <3>2. {f \in disk'.raw : f.id = m.id} = {m}
      BY <2>3
    <3>3. \A i \in DOMAIN results : SeriesKept(results[i])
      BY <1>2, <2>2 DEF Stored
    <3> QED
      BY <2>1, <2>2, <2>3, <3>1, <3>2, <3>3 DEF Stored, RawOf, SeriesKept
  <2>6. Listed' /\ Reported'
    BY <1>2, <2>2, <2>3 DEF Listed, Reported, Ids
  <2> QED
    BY <1>4, <2>2, <2>4, <2>5, <2>6
<1>12. CASE WriteTelemetry
  <2>1. PICK m \in Measurements :
          /\ mc = {m} /\ TheMeasurement = m /\ m.readings = gpu.series
    BY <1>12, MeasurementAtHand DEF WriteTelemetry, Measuring
  <2>2. pc = "telemetry" /\ pc' = "mark" /\ UNCHANGED <<results, attempts, mc>>
    BY <1>12 DEF WriteTelemetry
  <2>3. /\ disk'.telemetry =
             IF gpu.series = 0 THEN disk.telemetry
             ELSE disk.telemetry \cup {[id |-> m.id, readings |-> gpu.series]}
        /\ disk'.raw = disk.raw /\ disk'.state = disk.state
        /\ disk'.tmp = disk.tmp /\ disk'.artifacts = disk.artifacts
        /\ disk'.reported = disk.reported
    BY <1>1, <1>12, <2>1, TelemetryWritten
  <2>4. Numbered'
    BY <1>2, <2>2 DEF Numbered
  <2>5. Stored'
    <3>1. m.readings > 0 => [id |-> m.id, readings |-> m.readings] \in disk'.telemetry
      BY <2>1, <2>3 DEF Measurements
    <3>2. disk.telemetry \subseteq disk'.telemetry
      BY <2>3
    <3>3. \A i \in DOMAIN results : RawOf(results[i]) = {results[i]} /\ SeriesKept(results[i])
      BY <1>2, <2>2 DEF Stored
    <3>4. RawOf(m) = {m}
      BY <1>2, <2>1, <2>2 DEF Stored
    <3> QED
      BY <2>1, <2>2, <2>3, <3>1, <3>2, <3>3, <3>4 DEF Stored, RawOf, SeriesKept
  <2>6. Listed' /\ Reported'
    BY <1>2, <2>2, <2>3 DEF Listed, Reported, Ids
  <2> QED
    BY <1>4, <2>2, <2>4, <2>5, <2>6
<1>13. CASE Mark
  <2>1. PICK m \in Measurements :
          /\ mc = {m} /\ TheMeasurement = m /\ m.id = attempts
          /\ Key(m.cell) \notin Measured(results)
    BY <1>13, MeasurementAtHand DEF Mark, Measuring
  <2>2. pc = "mark" /\ pc' = "replace" /\ UNCHANGED attempts /\ results' = Append(results, m)
    BY <1>13, <2>1 DEF Mark
  <2>3. /\ disk'.tmp.ids = Append(Ids, m.id) /\ disk'.tmp.finished = disk.tmp.finished
        /\ disk'.raw = disk.raw /\ disk'.telemetry = disk.telemetry
        /\ disk'.state = disk.state /\ disk'.artifacts = disk.artifacts
        /\ disk'.reported = disk.reported
    BY <1>1, <1>13, <2>1, MarkWritten
  <2> DEFINE n == Len(results)
  <2>4. /\ n \in Nat /\ DOMAIN results = 1 .. n /\ DOMAIN results' = 1 .. n + 1
        /\ results'[n + 1] = m /\ \A i \in 1 .. n : results'[i] = results[i]
    BY <1>3, <2>1, <2>2
  <2> HIDE DEF n
  <2>5. \A i \in DOMAIN results' : i \in 1 .. n \/ i = n + 1
    BY <2>4
  <2>6. \A i \in 1 .. n : results[i].id < attempts /\ Key(results[i].cell) # Key(m.cell)
    BY <1>2, <2>1, <2>2, <2>4 DEF Numbered, Measured
  <2>7. Numbered'
    <3>1. \A i \in DOMAIN results' : results'[i].id <= attempts
      BY <1>3, <2>1, <2>4, <2>5, <2>6
    <3>2. ASSUME NEW i \in DOMAIN results', NEW j \in DOMAIN results', i # j
          PROVE  results'[i].id # results'[j].id /\ Key(results'[i].cell) # Key(results'[j].cell)
      <4>1. CASE i \in 1 .. n /\ j \in 1 .. n
        BY <1>2, <2>2, <2>4, <3>2, <4>1 DEF Numbered
      <4>2. CASE i = n + 1 /\ j \in 1 .. n
        BY <1>3, <2>1, <2>4, <2>6, <4>2
      <4>3. CASE j = n + 1 /\ i \in 1 .. n
        BY <1>3, <2>1, <2>4, <2>6, <4>3
      <4> QED
        BY <2>5, <3>2, <4>1, <4>2, <4>3
    <3> QED
      BY <2>2, <3>1, <3>2 DEF Numbered
  <2>8. Stored'
    <3>1. ASSUME NEW r, RawOf(r) = {r}, SeriesKept(r)
          PROVE  (RawOf(r) = {r} /\ SeriesKept(r))'
      BY <2>3, <3>1 DEF RawOf, SeriesKept
    <3>2. \A i \in 1 .. n : RawOf(results[i]) = {results[i]} /\ SeriesKept(results[i])
      BY <1>2, <2>2, <2>4 DEF Stored
    <3>3. RawOf(m) = {m} /\ SeriesKept(m)
      BY <1>2, <2>1, <2>2 DEF Stored
    <3>4. ASSUME NEW i \in DOMAIN results'
          PROVE  /\ {f \in disk'.raw : f.id = results'[i].id} = {results'[i]}
                 /\ results'[i].readings > 0 =>
                      [id |-> results'[i].id, readings |-> results'[i].readings] \in disk'.telemetry
      <4>1. CASE i \in 1 .. n
        BY <2>3, <2>4, <3>2, <4>1 DEF RawOf, SeriesKept
      <4>2. CASE i = n + 1
        BY <2>3, <2>4, <3>3, <4>2 DEF RawOf, SeriesKept
      <4> QED
        BY <2>5, <4>1, <4>2
    <3> QED
      BY <2>2, <3>4 DEF Stored, RawOf, SeriesKept
  <2>9. Listed'
    <3>1. Ids' = Append(Ids, m.id)
      <4>1. Ids \in Seq(Nat) /\ DOMAIN Ids = 1 .. n /\ m.id \in Nat
        BY <1>3, <2>4, IdsType DEF Measurements
      <4>2. Ids' = [i \in 1 .. n + 1 |-> results'[i].id]
        BY <2>4 DEF Ids
      <4>3. \A i \in 1 .. n : Ids[i] = results[i].id
        BY <2>4 DEF Ids
      <4>4. Len(Ids) = n
        BY <2>4, <4>1
      <4> QED
        BY <2>4, <4>1, <4>2, <4>3, <4>4
    <3>2. Range(Ids) \subseteq Range(Ids')
      BY <2>4 DEF Ids, Range
    <3>3. ~ disk.tmp.finished
      BY <1>2, <2>2 DEF Reported
    <3> QED
      BY <1>2, <2>2, <2>3, <3>1, <3>2, <3>3 DEF Listed
  <2>10. Reported'
    BY <1>2, <2>2, <2>3 DEF Reported
  <2> QED
    BY <1>4, <2>2, <2>7, <2>8, <2>9, <2>10
<1>14. CASE ReplaceState
  <2>1. /\ pc = "replace" /\ pc' = IF disk.tmp.finished THEN "done" ELSE "refine"
        /\ UNCHANGED <<results, attempts, mc>>
    BY <1>14 DEF ReplaceState
  <2>2. /\ disk'.state = disk.tmp /\ disk'.tmp = disk.tmp
        /\ disk'.raw = disk.raw /\ disk'.telemetry = disk.telemetry
        /\ disk'.artifacts = disk.artifacts /\ disk'.reported = disk.reported
    BY <1>1, <1>14, StateWritten
  <2>3. Numbered' /\ Stored'
    BY <1>2, <2>1, <2>2 DEF Numbered, Stored, RawOf, SeriesKept
  <2>4. Listed'
    <3>1. disk.tmp.ids = Ids
      BY <1>2, <2>1 DEF Listed
    <3>2. IsInjective(Ids)
      BY <1>2, <2>1 DEF Numbered, Ids, IsInjective
    <3>3. Ids' = Ids
      BY <2>1 DEF Ids
    <3> QED
      BY <2>1, <2>2, <3>1, <3>2, <3>3 DEF Listed
  <2>5. Reported'
    BY <1>2, <2>1, <2>2 DEF Reported, Ids
  <2> QED
    BY <1>4, <2>1, <2>3, <2>4, <2>5
<1>15. CASE Refine
  <2>1. /\ pc = "refine" /\ pc' = "pick" /\ UNCHANGED <<results, disk, mc>>
        /\ attempts' = attempts + 1
    BY <1>15 DEF Refine
  <2>2. Numbered'
    BY <1>2, <1>3, <2>1 DEF Numbered
  <2>3. Stored' /\ Listed' /\ Reported'
    BY <1>2, <2>1 DEF Stored, RawOf, SeriesKept, Listed, Reported, Ids
  <2> QED
    BY <1>4, <2>1, <2>2, <2>3
<1>16. CASE WriteArtifact
  <2>1. pc = "report" /\ Missing # {} /\ UNCHANGED <<results, attempts, mc, pc>>
    BY <1>16 DEF WriteArtifact
  <2>2. PICK name : name = Artifacts[Min(Missing)]
    OBVIOUS
  <2>3. /\ disk'.artifacts = disk.artifacts \cup {name}
        /\ disk'.reported = IF name = "run_result" THEN Ids ELSE disk.reported
        /\ disk'.raw = disk.raw /\ disk'.telemetry = disk.telemetry
        /\ disk'.state = disk.state /\ disk'.tmp = disk.tmp
    BY <1>1, <1>16, <2>2, ArtifactWritten
  <2>4. Numbered' /\ Stored' /\ Listed'
    BY <1>2, <2>1, <2>3 DEF Numbered, Stored, RawOf, SeriesKept, Listed, Ids
  <2>5. Ids' = Ids
    BY <2>1 DEF Ids
  <2>6. Reported'
    <3>1. CASE name = "run_result"
      <4>1. Range(Artifacts) \ {"csv"} \subseteq disk'.artifacts
        BY <2>1, <2>2, <2>3, <3>1, LastArtifact
      <4> QED
        BY <1>2, <2>1, <2>3, <2>5, <3>1, <4>1 DEF Reported
    <3>2. CASE name # "run_result"
      BY <1>2, <2>1, <2>3, <2>5, <3>2 DEF Reported
    <3> QED
      BY <3>1, <3>2
  <2> QED
    BY <1>4, <2>1, <2>4, <2>6
<1>17. CASE Finish
  <2>1. /\ pc = "report" /\ Missing = {} /\ pc' = "replace"
        /\ UNCHANGED <<results, attempts, mc>>
    BY <1>17 DEF Finish
  <2>2. ~ ReplaceState
    BY <2>1 DEF ReplaceState
  <2>3. /\ disk'.state = disk.state /\ disk'.tmp = [ids |-> Ids, finished |-> TRUE]
        /\ disk'.raw = disk.raw /\ disk'.telemetry = disk.telemetry
        /\ disk'.artifacts = disk.artifacts /\ disk'.reported = disk.reported
    BY <1>1, <1>17, <2>2, StateWritten
  <2>4. Numbered' /\ Stored'
    BY <1>2, <2>1, <2>3 DEF Numbered, Stored, RawOf, SeriesKept
  <2>5. Ids' = Ids
    BY <2>1 DEF Ids
  <2>6. Listed'
    BY <1>2, <2>1, <2>3, <2>5 DEF Listed
  <2>7. Reported'
    <3>1. "run_result" \in disk'.artifacts
      BY <2>1, <2>3, AllThere
    <3>2. Range(Artifacts) \ {"csv"} \subseteq disk'.artifacts /\ disk'.reported = Ids'
      BY <1>2, <2>1, <2>3, <2>5, <3>1 DEF Reported
    <3>3. disk'.tmp.finished = TRUE
      BY <2>3
    <3> QED
      BY <2>1, <3>1, <3>2, <3>3 DEF Reported
  <2> QED
    BY <1>4, <2>1, <2>4, <2>6, <2>7
<1>18. CASE PersistFails
  <2>1. /\ pc \in {"persist", "telemetry"} /\ pc' = "pick" /\ UNCHANGED <<results, disk>>
        /\ attempts' = attempts + 1 /\ mc' = {}
    BY <1>18 DEF PersistFails
  <2>2. Numbered'
    BY <1>2, <1>3, <2>1 DEF Numbered
  <2>3. Stored' /\ Listed' /\ Reported'
    BY <1>2, <2>1 DEF Stored, RawOf, SeriesKept, Listed, Reported, Ids
  <2> QED
    BY <1>4, <2>1, <2>2, <2>3
<1>19. CASE Crash
  <2>1. FilesAgree /\ pc' = "dead" /\ UNCHANGED disk
    BY <1>19, FilesInvImplies DEF Crash
  <2>2. FilesAgree'
    BY <2>1 DEF FilesAgree
  <2> QED
    BY <1>1, <2>1, <2>2 DEF FilesInv
<1> QED
  BY <1>7, <1>8, <1>9, <1>10, <1>11, <1>12, <1>13, <1>14, <1>15, <1>16, <1>17, <1>18, <1>19
     DEF Next, Main

\* The run directory is in order whenever the run is cut short: between any
\* two writes, after files that could not be written, and once the process is
\* gone.
THEOREM FilesAlwaysAgree == Spec => []FilesAgree
<1>1. Init => RunInv /\ FilesInv
  BY RunInit, FilesInit
<1>2. RunInv /\ FilesInv /\ [Next]_vars => (RunInv /\ FilesInv)'
  BY RunStep, FilesStep
<1>3. RunInv /\ FilesInv => FilesAgree
  BY FilesInvImplies
<1> QED
  BY <1>1, <1>2, <1>3, PTL DEF Spec
=============================================================================
