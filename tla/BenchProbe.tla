----------------------------- MODULE BenchProbe -----------------------------
(***************************************************************************)
(* llmbench/discovery and adapters: what is found out about the target,    *)
(* which engine it is taken for, and how the engine's own metrics are read *)
(* and compared with the client's (benchmark/executor.py).                 *)
(*                                                                         *)
(* A target is the machine under test and the server on it:                *)
(*   models      its list of [id, max_len], or "none" when it has none     *)
(*   version     it answers one of the three version paths                 *)
(*   metrics     words of /metrics that hint at an engine, {} without it   *)
(*   processes   the serving processes under /proc of the client's machine *)
(***************************************************************************)
EXTENDS BenchMetrics

\* The adapters in priority order.
Adapters == <<"vllm", "llamacpp">>

\* The words of /metrics and the hint each of them gives.  A model named
\* after a llama is such a word in the metrics of any engine.
HintOf == [vllm |-> "vllm", llama |-> "llamacpp", sglang |-> "sglang", tgi |-> "tgi"]

\* What discover returns.  max_len is that of the model asked for, else of
\* the first model, and the model asked for need not be listed.
Discovered(target, asked) ==
    LET data == IF target.models = "none" THEN <<>> ELSE target.models
        listed == {i \in DOMAIN data : data[i].id = asked}
        match == {i \in listed : \A j \in listed : i =< j}
        own == UNION {data[i].max_len : i \in match}
        first == IF data = <<>> THEN {} ELSE data[1].max_len
        auto == asked = "auto"
    IN [model |-> CASE target.models = "none" -> ""
                    [] target.models # "none" /\ ~auto -> asked
                    [] auto /\ data # <<>> -> data[1].id
                    [] OTHER -> "",
        max_len |-> IF ~auto /\ own # {} THEN own ELSE first,
        version |-> target.version,
        hints |-> {HintOf[w] : w \in target.metrics}
                    \cup (IF target.processes # {} THEN {"proc-inspection"} ELSE {})]

\* What of the metadata an adapter is given: neither the lines of /metrics nor
\* the command line, so only the hints and the version speak.
AsDict(meta) == [hints |-> meta.hints, version |-> meta.version]

\* The confidence of an adapter, in tenths.
VllmDetect(d) == (IF "vllm" \in d.hints THEN 7 ELSE 0) + (IF d.version THEN 1 ELSE 0)
LlamaCppDetect(d) == IF "llamacpp" \in d.hints THEN 7 ELSE 0
Confidence(adapter, meta) ==
    IF adapter = "vllm" THEN VllmDetect(AsDict(meta)) ELSE LlamaCppDetect(AsDict(meta))

\* Mutant of Detected: of two equally confident adapters the last is taken.
DetectedLast(meta) ==
    LET best == MaxOf([i \in DOMAIN Adapters |-> Confidence(Adapters[i], meta)])
        at == {i \in DOMAIN Adapters : Confidence(Adapters[i], meta) = best}
    IN IF best = 0 THEN "generic-openai"
       ELSE Adapters[CHOOSE i \in at : \A j \in at : j =< i]

\* The first of the most confident adapters, and the generic one when no
\* adapter has any confidence.  The confidence of the generic one is not
\* asked for.
Detected(meta) ==
    LET best == MaxOf([i \in DOMAIN Adapters |-> Confidence(Adapters[i], meta)])
        at == {i \in DOMAIN Adapters : Confidence(Adapters[i], meta) = best}
    IN IF best = 0 THEN "generic-openai"
       ELSE Adapters[CHOOSE i \in at : \A j \in at : i =< j]
-----------------------------------------------------------------------------
(* The engine's metrics *)

\* The names the adapters map the two compared metrics to.
VllmMapping ==
    [ttft |-> {"vllm:time_to_first_token_seconds"},
     itl |-> {"vllm:inter_token_latency_seconds"}]
LlamaCppMapping == [ttft |-> {}, itl |-> {}]
Mapping(adapter) == IF adapter = "vllm" THEN VllmMapping ELSE LlamaCppMapping

\* The name compared: vLLM's when the adapter maps none.
Compared(adapter) ==
    LET mapping == Mapping(adapter)
    IN [ttft |-> IF mapping.ttft # {} THEN CHOOSE n \in mapping.ttft : TRUE
                 ELSE "vllm:time_to_first_token_seconds",
        itl |-> IF mapping.itl # {} THEN CHOOSE n \in mapping.itl : TRUE
                ELSE "vllm:inter_token_latency_seconds"]

\* Samples are [name, colon, value]: the pattern of parse_prometheus reads
\* a name of letters, digits and underscores, so a sample whose name has a
\* colon is skipped.  A scrape that fails finds no samples.
Parsed(samples) == {p \in samples : ~p.colon}

\* The value of a name: the one sample it has, whatever the aggregate.
MetricValue(points, name) == {p.value : p \in {q \in points : q.name = name}}

\* The growth of a sum over the cell, if it did not go backwards.
WindowSum(pre, post, name) ==
    LET a == MetricValue(pre, name)
        b == MetricValue(post, name)
    IN IF a # {} /\ b # {} THEN {y - x : y \in b, x \in a} \cap Nat ELSE a \cup b

\* The value of a mean: the later one.
WindowMean(pre, post, name) ==
    LET b == MetricValue(post, name)
    IN IF b # {} THEN b ELSE MetricValue(pre, name)

\* A difference of more than a quarter of the engine's value.
Disagrees(d, engine) ==
    LET off == IF d.sum > engine * d.count THEN d.sum - engine * d.count
               ELSE engine * d.count - d.sum
    IN 4 * off > engine * d.count

\* The metrics on which client and engine disagree.
Discrepancies(adapter, m, pre, post) ==
    LET name == Compared(adapter)
        sum == WindowSum(pre, post, name.ttft)
        ttft == IF sum # {} THEN sum ELSE WindowMean(pre, post, name.ttft)
        itl == WindowMean(pre, post, name.itl)
    IN {"ttft" : v \in {x \in ttft : m.ttft.count > 0 /\ Disagrees(m.ttft, x)}}
         \cup {"itl" : v \in {x \in itl : m.itl.count > 0 /\ m.itl.sum > 0 /\ Disagrees(m.itl, x)}}
=============================================================================
