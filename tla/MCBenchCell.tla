---------------------------- MODULE MCBenchCell ----------------------------
(* BenchCell against servers of a few kinds, with cells of two requests.   *)
EXTENDS BenchCell

MCNumerals == {"0", "4", "8", "16"}
MCSlug == [m |-> "m", n |-> "m", other |-> "other", model |-> "model"]

Dash(name) == [Word(name) EXCEPT !.dashes = 1]
Option(name) == [Word(name) EXCEPT !.dashes = 2]
Equated(name, v) == [Option(name) EXCEPT !.value = {v}]

\* Command lines with the options that matter, repeated, with an =, without a
\* value, or in the other engine's style; and one that is gone.
VllmProcess ==
    [args |-> <<Word("vllm"), Option("model"), Word("n"), Option("max-model-len"), Word("8"),
                Option("max-model-len"), Word("16"), Equated("max-num-seqs", "4"),
                Option("enforce-eager"), Option("enable-prefix-caching"), Word("0"),
                Option("num-speculative-tokens"), Word("4")>>,
     env |-> {"VLLM", "HF", "OTHER"}]
LlamaProcess ==
    [args |-> <<Word("llama-server"), Dash("m"), Word("x"), Dash("c"), Word("0"), Dash("ctx-size"),
                Word("8"), Option("parallel"), Word("4"), Dash("t"), Word("16"), Dash("ngl"),
                Word("4"), Dash("fa"), Dash("mmap"), Word("False")>>,
     env |-> {"LLAMA", "HF"}]
Gone == [args |-> <<>>, env |-> {}]

\* Servers that show their metrics or not, and one whose model is a llama, with
\* and without a serving process beside the client.
MCTargets ==
    [models : {"none", <<>>, <<[id |-> "m", max_len |-> {Word("8")}], [id |-> "n", max_len |-> {}]>>},
     version : BOOLEAN,
     metrics : {{}, {"vllm"}, {"llama"}, {"vllm", "llama"}, {"sglang"}},
     processes : {{}, {VllmProcess}, {LlamaProcess, VllmProcess}, {Gone}}]

\* Machines with and without nvidia-smi, which lists two GPUs (and a line that
\* is none), or refuses and leaves it to lspci; one that tells little, one that
\* does not answer and one that hangs.
Row(m, n) == [i \in 1 .. n |-> [of |-> m, column |-> i]]
Listed(m) == {<<Row(m, 17), Row(m, 1), Row(m, 14)>>}
Facts == {"release", "uptime", "cores", "cpu", "kernel", "arch", "hostname"}
Machine(m, answers, tells, smi, rows) ==
    [name |-> m, answers |-> answers, tells |-> tells, smi |-> smi, rows |-> rows]

MCClients ==
    {Machine("here", "yes", Facts, FALSE, {}), Machine("here", "yes", Facts, TRUE, Listed("here")),
     Machine("here", "yes", Facts \cup {"card"}, TRUE, {})}
MCRemotes ==
    {Machine("there", "yes", Facts, TRUE, Listed("there")),
     Machine("there", "yes", {"uptime", "card"}, TRUE, {}),
     Machine("there", "no", Facts, TRUE, {}), Machine("there", "hangs", Facts, TRUE, {})}

MCWorkload == [isl |-> 1, osl |-> 3, conc |-> 2, load |-> "closed_loop"]

MCRefusals == {[status |-> 401, body |-> FALSE], [status |-> 400, body |-> TRUE],
               [status |-> 503, body |-> FALSE]}

Told(p, n) == {[prompt |-> p, completion |-> n]}

MCLines ==
    {Plain("done"), Plain("malformed"), Plain("no_object"),
     Chunk(TRUE, {}, "none"), Chunk(FALSE, {}, "length"),
     Chunk(FALSE, Told(1, 2), "none"), Chunk(TRUE, Told(1, 1), "none")}

Ttft(v) == [name |-> "vllm:time_to_first_token_seconds", colon |-> TRUE, value |-> v]

MCScrapes == {[pre |-> {Ttft(1)}, post |-> {Ttft(4)}]}

MCSeries == {<<>>, <<Reading(0, 50, 1, {10}, 0), Reading(1, 90, 3, {20}, 30)>>}
=============================================================================
