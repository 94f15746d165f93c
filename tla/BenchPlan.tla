----------------------------- MODULE BenchPlan -----------------------------
(***************************************************************************)
(* llmbench/planner/plan.py: which cells a benchmark measures, and which   *)
(* ones it adds around what it has learnt.                                 *)
(*                                                                         *)
(* A cell is one point of context length, output length, concurrency,      *)
(* cache, load and arrival rate: "none" or the half a request per second   *)
(* of the one open-loop cell.  Throughput is a natural number.             *)
(***************************************************************************)
EXTENDS Lists, SequencesExt, FiniteSetsExt

CONSTANTS DefaultISL,       \* the context lengths of the axes, as a set
          DefaultOSL,       \* the output lengths
          ConcurrencyLadder,
          MaxContext,       \* the context cap, 0 for None
          MaxConcurrency    \* the concurrency cap, 0 for None

ASSUME PlanAssumption ==
    /\ DefaultISL \subseteq Nat \ {0} /\ IsFiniteSet(DefaultISL)
    /\ DefaultOSL \subseteq Nat \ {0} /\ IsFiniteSet(DefaultOSL)
    /\ ConcurrencyLadder \subseteq Nat \ {0} /\ IsFiniteSet(ConcurrencyLadder)
    /\ {MaxContext, MaxConcurrency} \subseteq Nat

Cold(isl, osl, conc) ==
    [isl |-> isl, osl |-> osl, conc |-> conc, cache |-> "cold", load |-> "closed_loop",
     rate |-> "none", reps |-> 1]
Warm(isl, osl, conc) == [Cold(isl, osl, conc) EXCEPT !.cache = "warm"]
OpenLoop(isl, osl) ==
    [Cold(isl, osl, 1) EXCEPT !.load = "open_loop_poisson", !.rate = "half"]

\* What tells two cells apart: not the repetitions.
Key(c) == <<c.isl, c.osl, c.conc, c.cache, c.load, c.rate>>

Keys(cells) == {Key(cells[i]) : i \in DOMAIN cells}

Within(S, cap) == {x \in S : cap = 0 \/ x =< cap}

\* At most cap of the values, spread over their range.
Spread(S, cap) ==
    LET vals == Ascending(S)
        n == Len(vals)
        Points == {vals[1 + (i * (n - 1)) \div (cap - 1)] : i \in 0 .. cap - 1}
    IN IF n =< cap THEN vals ELSE Ascending(Points)

RepresentativeContext(ctxs) ==
    IF ctxs = <<>> THEN 4096 ELSE ctxs[1 + Len(ctxs) \div 2]

Concurrencies == Ascending(Within(ConcurrencyLadder, MaxConcurrency))

Upto(n, s) == SubSeq(s, 1, IF n < Len(s) THEN n ELSE Len(s))

ForEach(s, F(_)) == FlattenSeq([i \in DOMAIN s |-> F(s[i])])

ColdAndWarm(isl) == <<Cold(isl, 256, 1), Warm(isl, 256, 1)>>

LightPlan ==
    LET ctxs == Spread(Within(DefaultISL, MaxContext), 6)
        mid == RepresentativeContext(ctxs)
        Baseline(isl) == <<Cold(isl, 128, 1), Cold(isl, 512, 1)>>
        Scaling(c) == <<Cold(mid, 512, c)>>
    IN ForEach(ctxs, Baseline) \o ForEach(Concurrencies, Scaling)
         \o ForEach(Upto(2, ctxs), ColdAndWarm)

\* The output lengths are measured with one and with four clients, whatever
\* the cap.
HeavyPlan ==
    LET ctxs == Spread(Within(DefaultISL, MaxContext), 8)
        mid == RepresentativeContext(ctxs)
        Matrix(isl) == [i \in DOMAIN Upto(4, Concurrencies) |-> Cold(isl, 512, Concurrencies[i])]
        Lengths(osl) == <<Cold(mid, osl, 1), Cold(mid, osl, 4)>>
    IN ForEach(ctxs, Matrix) \o ForEach(Ascending(DefaultOSL), Lengths)
         \o ForEach(Upto(4, ctxs), ColdAndWarm) \o <<OpenLoop(mid, 512)>>
-----------------------------------------------------------------------------
(* Refinement.  results is the sequence of what has been measured: a cell,  *)
(* its throughput tps, and whether one of its latencies varied by more      *)
(* than 35%.                                                                *)

ClosedLoop(results) == {i \in DOMAIN results : results[i].cell.load = "closed_loop"}

\* The order of the curve: all closed-loop cells, whatever their context, by
\* concurrency and then by throughput.  Equals stay as they were measured.
Before(results, i, j) ==
    LET x == <<results[i].cell.conc, results[i].tps, i>>
        y == <<results[j].cell.conc, results[j].tps, j>>
    IN \E n \in 1 .. 3 : x[n] < y[n] /\ \A m \in 1 .. n - 1 : x[m] = y[m]

\* What a point of the curve gains over the one before.
Gain(results, i) ==
    LET earlier == {j \in ClosedLoop(results) : Before(results, j, i)}
        previous == CHOOSE j \in earlier : \A k \in earlier \ {j} : Before(results, k, j)
    IN results[i].tps - results[previous].tps

\* The first concurrency whose gain is below a tenth of the largest gain; a
\* largest gain of 0 counts as 1.  A set of at most one.
Knees(results) ==
    LET points == ClosedLoop(results)
        later == {i \in points : \E j \in points : Before(results, j, i)}
        Flat(best) ==
            {i \in later : 10 * Gain(results, i) < (IF best = 0 THEN 1 ELSE best)}
        First(S) == {results[i].cell.conc : i \in {j \in S : \A k \in S \ {j} : Before(results, j, k)}}
    IN IF Cardinality(points) < 3 THEN {}
       ELSE UNION {First(Flat(best)) : best \in {Max({Gain(results, i) : i \in later})}}

\* The cells inserted around a knee, in this order.
AroundKnee(k, results) ==
    LET New(c) == /\ c >= 1
                  /\ MaxConcurrency = 0 \/ c =< MaxConcurrency
                  /\ \A i \in ClosedLoop(results) : results[i].cell.conc # c
        near == <<k \div 2, k - 1, k, k + 1, k * 2>>
        concs == Picked(near, {i \in DOMAIN near : New(near[i])})
        mid == RepresentativeContext(Ascending(Within(DefaultISL, MaxContext)))
    IN [i \in DOMAIN concs |-> Cold(mid, 512, concs[i])]

\* One more repetition of every measured cell that varied.  The arrival rate
\* is not handed on.
ExtraRepetitions(results) ==
    LET again == Picked(results, {i \in DOMAIN results : results[i].noisy /\ results[i].cell.reps < 3})
    IN [i \in DOMAIN again |-> [again[i].cell EXCEPT !.reps = @ + 1, !.rate = "none"]]

\* The insertions that are neither planned nor measured, each once.
Fresh(insertions, plan, results) ==
    LET Chosen(i) ==
            /\ Key(insertions[i]) \notin Keys(plan)
            /\ \A r \in DOMAIN results : Key(results[r].cell) # Key(insertions[i])
            /\ \A j \in 1 .. i - 1 : Key(insertions[j]) # Key(insertions[i])
    IN Picked(insertions, {i \in DOMAIN insertions : Chosen(i)})

\* What a refinement may insert: one sequence, as there is at most one knee.
Insertions(results) ==
    IF Knees(results) = {} THEN {ExtraRepetitions(results)}
    ELSE {AroundKnee(k, results) \o ExtraRepetitions(results) : k \in Knees(results)}

\* The plan after a refinement.
Refined(plan, results) ==
    {plan \o Fresh(new, plan, results) : new \in Insertions(results)}

Measured(results) == {Key(results[i].cell) : i \in DOMAIN results}

\* The first cell of the plan that is not measured, or none.
NextCell(plan, results) ==
    LET pending == {i \in DOMAIN plan : Key(plan[i]) \notin Measured(results)}
    IN IF pending = {} THEN {} ELSE {plan[Min(pending)]}
=============================================================================
