----------------------------- MODULE BenchConfig -----------------------------
(***************************************************************************)
(* The configuration llmbench files a run under: what the server says of   *)
(* itself or, when a serving process is found on the client's own machine, *)
(* what that process was started with (discovery/processes.py, adapters,   *)
(* storage/run_dir.py).                                                    *)
(*                                                                         *)
(* A process is [args, env]: its command line, <<>> when it is gone by the *)
(* time it is read, and the prefixes of its environment's variables.  An   *)
(* argument is [dashes, name, value], the value being what an = adds to it.*)
(***************************************************************************)
EXTENDS BenchProbe

CONSTANTS Numerals, \* the words that read as a number
          Slug      \* Slug[name]: the file name of a model

\* What a switch without a value stands for is no number.
ASSUME NumeralsAssumption == "true" \notin Numerals

\* find_serving_process: the first in the order of /proc is any of them.
FoundProcess(processes) == IF processes = {} THEN {{}} ELSE {{p} : p \in processes}

Word(w) == [dashes |-> 0, name |-> w, value |-> {}]

\* The keys a parser sees: vLLM's those with two dashes, llama.cpp's those
\* with one.  A key with an = keeps it, so it is found under no name.
IsKey(adapter, arg) == arg.dashes = IF adapter = "vllm" THEN 2 ELSE 1

\* What may not be the value of the key before it.
StartsKey(adapter, arg) == IF adapter = "vllm" THEN arg.dashes = 2 ELSE arg.dashes > 0

\* The value of a key: the argument after it, or "true"; the last key counts.
Value(adapter, args, key) ==
    LET at == {i \in DOMAIN args :
                  IsKey(adapter, args[i]) /\ args[i].name = key /\ args[i].value = {}}
        after == {i + 1 : i \in {j \in at : \A k \in at : k =< j}}
    IN {IF i \in DOMAIN args /\ ~StartsKey(adapter, args[i]) THEN args[i] ELSE Word("true") :
          i \in after}

\* A table of options: the names of a field, the first one with a value counts.
FirstOf(values) ==
    LET known == {i \in DOMAIN values : values[i] # {}}
    IN UNION {values[i] : i \in {j \in known : \A k \in known : j =< k}}

Texts(adapter, args, table) ==
    UNION {{<<f, v>> : v \in FirstOf([i \in DOMAIN table[f] |-> Value(adapter, args, table[f][i])])} :
             f \in DOMAIN table}

IsNumber(v) == v.dashes < 2 /\ v.value = {} /\ v.name \in Numerals

\* A text that is no number leaves the field empty.
Numbers(args, table) ==
    {p \in Texts("vllm", args, table) : IsNumber(p[2])}

\* A switch is on unless its value says off.
Switches(adapter, args, table, off) ==
    {<<p[1], Word(IF p[2].dashes = 0 /\ p[2].name \in off THEN "off" ELSE "on")>> :
       p \in Texts(adapter, args, table)}
-----------------------------------------------------------------------------
(* adapters/vllm.py *)

VllmTexts ==
    [served_model_name |-> <<"served-model-name">>, dtype |-> <<"dtype">>,
     quantization |-> <<"quantization">>, kv_cache_dtype |-> <<"kv-cache-dtype">>,
     attention_backend |-> <<"attention-backend", "attn-impl">>, tokenizer |-> <<"tokenizer">>,
     compile_options |-> <<"compilation-config">>,
     scheduler_config |-> <<"scheduler", "scheduling-policy">>]

VllmNumbers ==
    [max_model_len |-> <<"max-model-len">>,
     gpu_memory_utilization |-> <<"gpu-memory-utilization">>, max_num_seqs |-> <<"max-num-seqs">>,
     max_batched_tokens |-> <<"max-num-batched-tokens">>,
     tensor_parallel |-> <<"tensor-parallel-size">>]

VllmSwitches ==
    [prefix_caching |-> <<"enable-prefix-caching">>, enforce_eager |-> <<"enforce-eager">>,
     async_scheduling |-> <<"async-scheduling">>, chunked_prefill |-> <<"enable-chunked-prefill">>]

VllmDrafts ==
    [speculative_decoding |->
        <<"speculative-config", "speculative-decoding-method", "spec-method">>,
     mtp_config |-> <<"mtp-num-draft-tokens", "num-speculative-tokens", "speculative-draft-tokens">>]

\* Draft tokens without a method are taken for multi-token prediction.
VllmOptions(args) ==
    LET drafts == Texts("vllm", args, VllmDrafts)
        told == {p[1] : p \in drafts}
    IN Texts("vllm", args, VllmTexts) \cup Numbers(args, VllmNumbers)
         \cup Switches("vllm", args, VllmSwitches, {"false", "False", "0"})
         \cup drafts
         \cup (IF told = {"mtp_config"} THEN {<<"speculative_decoding", Word("mtp")>>} ELSE {})
-----------------------------------------------------------------------------
(* adapters/llamacpp.py *)

LlamaCppTexts ==
    [kv_cache_dtype |-> <<"t">>, quantization |-> <<"q", "ftype">>,
     kv_cache_k_type |-> <<"cache-type-k">>, kv_cache_v_type |-> <<"cache-type-v">>,
     speculative_decoding |-> <<"model-draft", "draft">>, mtp_config |-> <<"n-draft">>,
     cpu_threads |-> <<"threads">>, batch_size |-> <<"batch">>, ubatch_size |-> <<"ubatch">>,
     gpu_layers |-> <<"n-gpu-layers", "ngl">>, sampling_temperature |-> <<"temp">>,
     sampling_repeat_penalty |-> <<"repeat-penalty">>]

LlamaCppNumbers ==
    [max_model_len |-> <<"c", "ctx-size", "context-size">>, max_num_seqs |-> <<"np", "parallel">>]

\* Of several names the first with a number other than 0 counts.
LlamaCppCounts(args) ==
    LET Number(key) == {v \in Value("llamacpp", args, key) : IsNumber(v) /\ v.name # "0"}
    IN UNION {{<<f, v>> : v \in FirstOf([i \in DOMAIN LlamaCppNumbers[f] |-> Number(LlamaCppNumbers[f][i])])} :
                f \in DOMAIN LlamaCppNumbers}

LlamaCppOptions(args) ==
    Texts("llamacpp", args, LlamaCppTexts) \cup LlamaCppCounts(args)
      \cup {<<"tensor_parallel", Word(IF v.name = "0" THEN "0" ELSE "1")>> :
              v \in {n \in Value("llamacpp", args, "ngl") : IsNumber(n)}}
      \cup Switches("llamacpp", args, [flash_attention |-> <<"fa">>], {"false", "False", "0"})
      \cup Switches("llamacpp", args, [mmap |-> <<"mmap">>, mlock |-> <<"mlock">>], {"false", "0"})
-----------------------------------------------------------------------------
(* The configuration *)

\* The prefixes of the environment variables an adapter keeps.
Kept(adapter) ==
    CASE adapter = "vllm" -> {"VLLM", "CUDA", "HF", "MODEL", "NVIDIA", "PYTORCH"}
      [] adapter = "llamacpp" -> {"GGML", "LLAMA", "CUDA", "MODEL"}
      [] OTHER -> {}

\* normalize_config: nothing of what the server told of its context is kept.
Normalized(adapter, process) ==
    [options |-> CASE adapter = "vllm" -> VllmOptions(process.args)
                   [] adapter = "llamacpp" -> LlamaCppOptions(process.args)
                   [] OTHER -> {},
     args |-> process.args,
     env |-> process.env \cap Kept(adapter)]

\* The model a command line names, when the server names none.
ModelOf(adapter, args) ==
    CASE adapter = "vllm" -> Value("vllm", args, "model")
      [] adapter = "llamacpp" ->
           FirstOf(<<Value("llamacpp", args, "m"), Value("llamacpp", args, "hf-repo")>>)
      [] OTHER -> {}

\* cmd_run: what the server told, or what the process found was started with.
Configuration(adapter, meta, process) ==
    LET told == [options |-> {<<"max_model_len", l>> : l \in meta.max_len}, args |-> <<>>, env |-> {}]
        found == UNION {IF p.args = <<>> THEN {} ELSE {Normalized(adapter, p)} : p \in process}
    IN [engine |-> adapter, version |-> meta.version,
        model |-> IF meta.model # "" THEN {Word(meta.model)}
                  ELSE UNION {ModelOf(adapter, p.args) : p \in process},
        deployment |-> IF found = {} THEN told ELSE CHOOSE d \in found : TRUE]

\* The fields of a DeploymentConfig that are not empty.
meaningful_fields(config) ==
    LET d == config.deployment
    IN [engine |-> config.engine, version |-> config.version, args |-> d.args, env |-> d.env,
        options |-> d.options \cup {<<"model", m>> : m \in config.model}]

\* The directory of the runs of a configuration: a digest, taken to tell the
\* fields apart.
ConfigurationId(config, meta) ==
    [slug |-> Slug[IF meta.model = "" THEN "model" ELSE meta.model],
     fields |-> meaningful_fields(config)]
=============================================================================
