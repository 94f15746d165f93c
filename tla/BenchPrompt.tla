----------------------------- MODULE BenchPrompt -----------------------------
(***************************************************************************)
(* llmbench/workloads/prompts.py and the choice of a cell's prompts in     *)
(* benchmark/executor.py.                                                  *)
(*                                                                         *)
(* A text is what it is drawn from: the seed of the generator and how many *)
(* words it draws.  Two texts drawn alike are the same, others are taken   *)
(* to differ.                                                              *)
(***************************************************************************)
EXTENDS Naturals

CONSTANT Hash(_) \* hash of a cell's key; Python draws it anew in each process

\* The seed of the generator wraps around at 2^31 - 1.
make_rng(cellSeed, repetition, variant) ==
    (cellSeed * 7919 + repetition * 104729 + variant) % 2147483647

\* Two words for a token and a few more; nothing when no token is left.
generate_prompt(tokens, cellSeed, repetition, variant) ==
    IF tokens = 0 THEN [seed |-> 0, words |-> 0]
    ELSE [seed |-> make_rng(cellSeed, repetition, variant), words |-> 2 * tokens + 8]

\* The words before the tail are the same in all warm prompts of a length.
warm_prefix_prompt(tokens, prefix, variant) ==
    [prefix |-> IF prefix = 0 THEN 1 ELSE prefix,
     tail |-> generate_prompt(tokens - prefix, 0, 0, variant)]

\* Prompt number i of a cell: a cold cell's are drawn one by one, all of a
\* warm cell's are one.
PromptFor(c, i) ==
    IF c.cache = "warm"
    THEN warm_prefix_prompt(c.isl, c.isl \div 2, Hash(c))
    ELSE [prefix |-> 0, tail |-> generate_prompt(c.isl, Hash(c), i, i)]
=============================================================================
