---------------------------- MODULE MCBenchSite ----------------------------
(* BenchSite with cells made of a few outcomes of two requests.            *)
EXTENDS BenchSite

\* A stream that never began, one of three tokens, and a slower one.
Cut == Failed(NewStream, "timeout", 4)
Streamed(gap) ==
    LET first == OnDelta(FirstByte(NewStream, 1), TRUE, 1)
        second == OnDelta(first, TRUE, 1 + gap)
    IN Answered(OnDelta(second, TRUE, 1 + 2 * gap), 2 + 2 * gap)

Outcomes == {<<Cut, Cut>>, <<Cut, Streamed(1)>>, <<Streamed(1), Streamed(2)>>}

MCWorkloads ==
    {[isl |-> 1, osl |-> 3, conc |-> 1, load |-> "closed_loop"],
     [isl |-> 1, osl |-> 3, conc |-> 2, load |-> "closed_loop"],
     [isl |-> 2, osl |-> 3, conc |-> 1, load |-> "open_loop_poisson"]}

Readings == <<Reading(0, 50, 1, {10}, 0), Reading(2, 90, 3, {20}, 30)>>

Cell(w, requests) ==
    LET m == Aggregated(requests, w, 6)
    IN [workload |-> w, duration |-> 6, metrics |-> m,
        efficiency |-> Efficiency(m, requests, Readings), gpu |-> GpuSummary(Readings),
        verdict |-> Evaluate(m, w.osl, {}, {})]

MCCells == {Cell(w, o) : w \in MCWorkloads, o \in Outcomes}
=============================================================================
