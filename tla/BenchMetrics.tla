---------------------------- MODULE BenchMetrics ----------------------------
(***************************************************************************)
(* What llmbench makes of the requests and the GPU readings of a cell:     *)
(* schemas/core.py (distributions), metrics/aggregate.py, telemetry/gpu.py *)
(* and the efficiency of benchmark/executor.py.                            *)
(*                                                                         *)
(* A mean is kept as its sum and count, a rate as a pair; a percentile is  *)
(* in thousandths.  Left out: the time per token (the mean of a request's  *)
(* gaps), the network's share, clocks and temperatures.                    *)
(***************************************************************************)
EXTENDS BenchStream, Lists, SequencesExt

\* The sum of two ratios, and the order of ratios.
Plus(r, q) == Ratio(r.num * q.den + q.num * r.den, r.den * q.den)
Above(r, q) == r.num * q.den > q.num * r.den

\* The values of the optional field of a sequence's elements.
Given(options) ==
    LET given == Picked(options, {i \in DOMAIN options : options[i] # {}})
    IN [k \in DOMAIN given |-> CHOOSE v \in given[k] : TRUE]

\* The percentile q/1000 of sorted values, interpolated between two.
Percentile(vals, q) ==
    LET n == Len(vals)
        k == (n - 1) * q
        f == k \div 1000
        c == IF f + 1 < n - 1 THEN f + 1 ELSE n - 1
    IN 1000 * vals[f + 1] + (vals[c + 1] - vals[f + 1]) * (k % 1000)

NoDistribution ==
    [count |-> 0, sum |-> 0, spread |-> 0, min |-> 0, max |-> 0, p50 |-> 0, p75 |-> 0,
     p90 |-> 0, p95 |-> 0, p99 |-> 0, p999 |-> {}, interval |-> FALSE]

\* spread is n (n - 1) times the variance.  The interval of the mean is
\* given from three values on that are not all the same.
Distribution(values) ==
    IF values = <<>> THEN NoDistribution
    ELSE LET vals == Sorted(values)
             n == Len(vals)
             spread == n * SumOf([i \in 1 .. n |-> vals[i] * vals[i]]) - SumOf(vals) * SumOf(vals)
         IN [count |-> n, sum |-> SumOf(vals), spread |-> spread,
             min |-> vals[1], max |-> vals[n],
             p50 |-> Percentile(vals, 500), p75 |-> Percentile(vals, 750),
             p90 |-> Percentile(vals, 900), p95 |-> Percentile(vals, 950),
             p99 |-> Percentile(vals, 990),
             p999 |-> IF n >= 100 THEN {Percentile(vals, 999)} ELSE {},
             interval |-> n >= 3 /\ spread > 0]

\* The coefficient of variation exceeds a quarter: not defined when the
\* mean is zero.
Varies(d) ==
    /\ d.sum > 0 /\ d.count > 1
    /\ 16 * d.spread * d.count > d.sum * d.sum * (d.count - 1)
-----------------------------------------------------------------------------
(* The requests of a cell *)

Ok(requests) == Picked(requests, {i \in DOMAIN requests : requests[i].ok})
NotOk(requests) == Picked(requests, {i \in DOMAIN requests : ~requests[i].ok})

HowMany(failed, error) == Cardinality({i \in DOMAIN failed : failed[i].error = error})

Gaps(ok) == FlattenSeq([i \in DOMAIN ok |-> ok[i].itls])

Total(ratios) ==
    LET upto[n \in 0 .. Len(ratios)] == IF n = 0 THEN Ratio(0, 1) ELSE Plus(upto[n - 1], ratios[n])
    IN upto[Len(ratios)]

MeanOf(ratios) ==
    IF ratios = <<>> THEN Ratio(0, 1)
    ELSE LET t == Total(ratios) IN Ratio(t.num, t.den * Len(ratios))

\* The counts of errors are all over the same number of requests, total.
\* The context length of the workload stands in for prompts not reported.
Aggregated(requests, workload, duration) ==
    LET ok == Ok(requests)
        failed == NotOk(requests)
        output == SumOf([i \in DOMAIN ok |-> ok[i].output])
        reported == SumOf([i \in DOMAIN ok |-> ok[i].input])
        prompt == IF reported = 0 THEN workload.isl * Len(ok) ELSE reported
    IN [ttft |-> Distribution(Given([i \in DOMAIN ok |-> ok[i].ttft])),
        itl |-> Distribution(Gaps(ok)),
        latency |-> Distribution([i \in DOMAIN ok |-> ok[i].latency]),
        prefill |-> Distribution(Given([i \in DOMAIN ok |-> ok[i].prefill])),
        output_tps |-> Ratio(output, duration),
        prompt_tps |-> Ratio(prompt, duration),
        total_tps |-> Ratio(output + prompt, duration),
        request_rps |-> Ratio(Len(ok), duration),
        per_user |-> MeanOf(Given([i \in DOMAIN ok |-> ok[i].decode_tps])),
        output |-> output,
        total |-> Len(requests), completed |-> Len(ok), failed |-> Len(failed),
        http |-> HowMany(failed, "http"), timeouts |-> HowMany(failed, "timeout"),
        malformed |-> HowMany(failed, "malformed_stream"),
        overflow |-> HowMany(failed, "context_overflow"),
        incomplete |-> Cardinality({i \in DOMAIN ok : ~ok[i].completed_stream}),
        truncated |-> Cardinality({i \in DOMAIN ok : Truncated(ok[i])})]
-----------------------------------------------------------------------------
(* The GPU *)

\* A reading as nvidia-smi gives it: power may be "N/A".  The fan is asked
\* for before the throttle reasons, and the ninth field is taken for them.
Reading(ts, util, vram, power, fan) ==
    [ts |-> ts, util |-> util, vram |-> vram, power |-> power, fan |-> fan]

Powered(series) == Picked(series, {i \in DOMAIN series : series[i].power # {}})
Watts(r) == CHOOSE w \in r.power : TRUE

\* Twice the energy: the power between two readings is their mean.
Energy2(series) ==
    LET p == Powered(series)
    IN IF p = <<>> THEN 0
       ELSE SumOf([i \in 1 .. Len(p) - 1 |->
                   (Watts(p[i]) + Watts(p[i + 1])) * (p[i + 1].ts - p[i].ts)])

MaxOf(s) == CHOOSE x \in {s[i] : i \in DOMAIN s} : \A i \in DOMAIN s : s[i] =< x
MeanIfAny(s) == IF s = <<>> THEN {} ELSE {Ratio(SumOf(s), Len(s))}

\* The field called the maximum of the memory is its mean.
GpuSummary(series) ==
    LET util == [i \in DOMAIN series |-> series[i].util]
    IN [util_mean |-> MeanIfAny(util),
        util_max |-> IF util = <<>> THEN {} ELSE {MaxOf(util)},
        vram_max |-> MeanIfAny([i \in DOMAIN series |-> series[i].vram]),
        throttle_events |-> Cardinality({i \in DOMAIN series : series[i].fan # 0})]

\* The efficiency, from what was measured of power and of the ok requests.
Efficiency(m, requests, series) ==
    LET ok == Ok(requests)
        watts == [i \in DOMAIN Powered(series) |-> Watts(Powered(series)[i])]
        energy2 == Energy2(series)
        total == SumOf([i \in DOMAIN ok |-> ok[i].input + ok[i].output])
        Per(n) == IF energy2 > 0 /\ n > 0 THEN {Ratio(2 * n, energy2)} ELSE {}
        PerWatt(rate) ==
            IF watts # <<>> /\ SumOf(watts) > 0
            THEN {Ratio(rate.num * Len(watts), rate.den * SumOf(watts))} ELSE {}
    IN [avg_power |-> MeanIfAny(watts),
        peak_power |-> IF watts = <<>> THEN {} ELSE {MaxOf(watts)},
        energy2 |-> energy2,
        output_per_joule |-> Per(m.output), total_per_joule |-> Per(total),
        requests_per_joule |-> Per(Len(ok)),
        tps_per_watt |-> PerWatt(m.output_tps), rps_per_watt |-> PerWatt(m.request_rps)]
=============================================================================
