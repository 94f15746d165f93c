---------------------------- MODULE BenchReport ----------------------------
(***************************************************************************)
(* What llmbench publishes of a run: the headline numbers and the          *)
(* manifest (cli/main.py), the tables and curves of the report             *)
(* (reports/report.py), and the static site made of all runs               *)
(* (site/site.py).                                                         *)
(*                                                                         *)
(* A measured cell is [workload, duration, metrics, efficiency, gpu,       *)
(* verdict].  Rounding and layout are left out.                            *)
(***************************************************************************)
EXTENDS BenchVerdict

Elements(s) == {s[i] : i \in DOMAIN s}

\* The greatest of some ratios, the least of some numbers, if there are any.
Greatest(ratios) ==
    IF ratios = {} THEN {} ELSE {CHOOSE r \in ratios : \A q \in ratios : ~Above(q, r)}
Least(numbers) == {x \in numbers : \A y \in numbers : x =< y}
Most(numbers) == {x \in numbers : \A y \in numbers : y =< x}

Trusted(cells) == Picked(cells, {i \in DOMAIN cells : IsValid(cells[i].verdict)})

\* Mutant of Pool: the invalid cells count as well.
PoolOfAll(cells) == cells

\* The valid cells, or all of them when there is none.
Pool(cells) == IF Trusted(cells) = <<>> THEN cells ELSE Trusted(cells)

IsClosedLoop(c) == c.workload.load = "closed_loop"

Kpis(cells) ==
    LET shown == Pool(cells)
        pool == Elements(shown)
        powered == Picked(shown, {i \in DOMAIN shown : shown[i].efficiency.energy2 > 0})
    IN [peak_aggregate_tps |-> Greatest({c.metrics.output_tps : c \in pool}),
        peak_decode_tps |-> Greatest({r \in {c.metrics.per_user : c \in pool} : r.num > 0}),
        best_ttft |-> Least({c.metrics.ttft.p95 : c \in {d \in pool : d.metrics.ttft.count > 0}}),
        max_stable_concurrency |-> Most({c.workload.conc : c \in {d \in pool : IsClosedLoop(d)}}),
        average_power |->
          IF powered = <<>> THEN {}
          ELSE {MeanOf(Given([i \in DOMAIN powered |-> powered[i].efficiency.avg_power]))},
        tokens_per_joule |->
          Greatest(UNION {c.efficiency.output_per_joule : c \in Elements(powered)}),
        peak_vram |-> Greatest(UNION {c.gpu.vram_max : c \in pool})]

Verdicts(cells) == [i \in DOMAIN cells |-> cells[i].verdict]

Manifest(cells) ==
    [integrity_state |-> OverallState(Verdicts(cells)),
     integrity_reasons |-> ReasonCodes(Verdicts(cells))]

\* A line of metrics.csv, metrics.json and summary.json.
CellRow(c) ==
    LET m == c.metrics
        IfAny(d, value) == IF d.count = 0 THEN {} ELSE {value}
    IN [workload |-> c.workload, integrity_state |-> c.verdict.state,
        integrity_reasons |-> c.verdict.reasons,
        output_tps |-> m.output_tps, output_tps_per_user |-> m.per_user,
        total_tps |-> m.total_tps, request_rps |-> m.request_rps,
        ttft_mean |-> IfAny(m.ttft, Ratio(m.ttft.sum, m.ttft.count)),
        ttft_p95 |-> IfAny(m.ttft, m.ttft.p95), ttft_p99 |-> IfAny(m.ttft, m.ttft.p99),
        itl_mean |-> IfAny(m.itl, Ratio(m.itl.sum, m.itl.count)),
        itl_p95 |-> IfAny(m.itl, m.itl.p95),
        completed |-> m.completed, failed |-> m.failed,
        avg_power |-> c.efficiency.avg_power, energy2 |-> c.efficiency.energy2,
        output_per_joule |-> c.efficiency.output_per_joule,
        vram_max |-> c.gpu.vram_max, duration |-> c.duration]

Rows(cells) == [i \in DOMAIN cells |-> CellRow(cells[i])]

\* The points of a curve: of cells of one abscissa, the last one is drawn.
Drawn(points) ==
    {points[i] : i \in {k \in DOMAIN points :
        \A j \in DOMAIN points : j > k => points[j].x # points[k].x}}

Curves(cells) ==
    LET valid == Trusted(cells)
        closed == Picked(valid, {i \in DOMAIN valid : IsClosedLoop(valid[i])})
        timed == Picked(valid, {i \in DOMAIN valid : /\ valid[i].workload.conc = 1
                                                     /\ valid[i].metrics.ttft.count > 0})
        spaced == Picked(closed, {i \in DOMAIN closed : closed[i].metrics.itl.count > 0})
    IN [tps |-> Drawn([i \in DOMAIN closed |->
                  [x |-> closed[i].workload.conc, y |-> closed[i].metrics.output_tps]]),
        ttft |-> Drawn([i \in DOMAIN timed |->
                  [x |-> timed[i].workload.isl, y |-> timed[i].metrics.ttft.p95]]),
        itl |-> Drawn([i \in DOMAIN spaced |->
                  [x |-> spaced[i].workload.conc, y |-> spaced[i].metrics.itl.p95]])]

\* The table of the dashboard.
CellTable(cells) ==
    LET shown == Pool(cells)
    IN [i \in DOMAIN shown |->
          [workload |-> shown[i].workload, output_tps |-> shown[i].metrics.output_tps,
           state |-> shown[i].verdict.state]]

\* run_result.json, with the dashboard and the tables written before it.
RunResult(cells) ==
    [integrity_state |-> OverallState(Verdicts(cells)), manifest |-> Manifest(cells),
     rows |-> Rows(cells), summary |-> Kpis(cells),
     curves |-> Curves(cells), table |-> CellTable(cells)]
-----------------------------------------------------------------------------
(* The site: runs are [config, result], in the order of their names, and    *)
(* result is empty when run_result.json is missing.                         *)

\* What _load_run reads.
Record(run) ==
    [config |-> run.config, ended |-> run.result # {},
     integrity_state |-> {r.integrity_state : r \in run.result},
     peak |-> UNION {r.summary.peak_aggregate_tps : r \in run.result},
     ttft |-> UNION {r.summary.best_ttft : r \in run.result},
     conc |-> UNION {r.summary.max_stable_concurrency : r \in run.result}]

Records(tree) == [i \in DOMAIN tree |-> Record(tree[i])]

Peak(record) ==
    IF record.peak = {} THEN Ratio(0, 1) ELSE CHOOSE p \in record.peak : TRUE

\* The run with the greatest peak, the first of equals.
BestForConfig(records, config) ==
    LET own == {i \in DOMAIN records : records[i].config = config}
        best == {i \in own : \A j \in own : ~Above(Peak(records[j]), Peak(records[i]))}
    IN records[CHOOSE i \in best : \A j \in best : i =< j]

\* A run without a result is shown as VALID.
Badge(record) ==
    IF record.integrity_state = {} THEN "VALID" ELSE CHOOSE s \in record.integrity_state : TRUE

Card(records, config) ==
    LET best == BestForConfig(records, config)
    IN [config |-> config, peak |-> best.peak, ttft |-> best.ttft, conc |-> best.conc,
        runs |-> Cardinality({i \in DOMAIN records : records[i].config = config}),
        badge |-> Badge(best)]

\* Configurations in the order of their first run: those with a run that did
\* not end come first, in the order of their names.
ConfigOrder(records) ==
    LET open == {i \in DOMAIN records : ~records[i].ended}
        ByName == {p \in open \X open : records[p[1]].config < records[p[2]].config}
        sorted == SliceStable(records, open, ByName)
                    \o Picked(records, DOMAIN records \ open)
        first == {i \in DOMAIN sorted : \A j \in 1 .. i - 1 : sorted[j].config # sorted[i].config}
    IN [k \in 1 .. Cardinality(first) |->
          sorted[CHOOSE i \in first : Cardinality({j \in first : j < i}) = k - 1].config]

\* How a number compares with that of the configuration before.
Delta(now, before) ==
    IF now = {} \/ before = {} \/ \E b \in before : b.num = 0 THEN "flat"
    ELSE IF \E c \in now, b \in before : Above(b, c) THEN "down" ELSE "up"

\* The tuning history of a model.  Of a time to first token less is better,
\* and shown as down.
History(records) ==
    LET order == ConfigOrder(records)
        Best(k) == BestForConfig(records, order[k])
        AsRatio(ttft) == {Ratio(t, 1) : t \in ttft}
    IN [k \in DOMAIN order |->
          [config |-> order[k], peak |-> Best(k).peak, badge |-> Badge(Best(k)),
           deltas |-> IF k = 1 THEN {}
                      ELSE {<<Delta(Best(k).peak, Best(k - 1).peak),
                              Delta(AsRatio(Best(k).ttft), AsRatio(Best(k - 1).ttft))>>}]]

Site(tree) ==
    LET records == Records(tree)
    IN [cards |-> {Card(records, c) : c \in {tree[i].config : i \in DOMAIN tree}},
        history |-> History(records)]
=============================================================================
