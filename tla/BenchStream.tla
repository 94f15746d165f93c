---------------------------- MODULE BenchStream ----------------------------
(***************************************************************************)
(* llmbench/benchmark/streaming.py: what one streaming request records of  *)
(* the lines it receives.                                                  *)
(*                                                                         *)
(* Times are ticks since the request was sent.  An optional value is a set *)
(* of at most one element, a rate a pair [num, den].                       *)
(***************************************************************************)
EXTENDS Integers, Sequences, FiniteSets

Ratio(a, b) == [num |-> a, den |-> b]

\* What a cell asks of the server.  Every adapter is one of chat
\* completions; only vLLM takes the two fields for an exact length.
Payload(adapter, target) ==
    [max_tokens |-> target, usage |-> TRUE,
     ignore_eos |-> adapter = "vllm",
     min_tokens |-> IF adapter = "vllm" THEN {1} ELSE {}]

\* The state of one_request: what it found on the wire so far.
NewStream ==
    [ttfb |-> {}, first |-> {}, prev |-> {}, itls |-> <<>>, completion |-> 0,
     prompt |-> 0, finish |-> "none", done |-> FALSE, usage |-> FALSE]

\* The kinds of a line: blank, a comment or no data; not JSON; [DONE]; JSON
\* that is no object; or a chunk, with or without a content delta, usage
\* and a finish reason.
Plain(kind) == [kind |-> kind, delta |-> FALSE, usage |-> {}, finish |-> "none"]
Chunk(delta, usage, finish) ==
    [kind |-> "chunk", delta |-> delta, usage |-> usage, finish |-> finish]

FirstByte(s, now) == IF s.ttfb = {} THEN [s EXCEPT !.ttfb = {now}] ELSE s

\* Mutant of OnUsage: its numbers are added to what was counted.
OnUsageAdded(s, usage) ==
    IF usage = {} THEN s
    ELSE LET u == CHOOSE x \in usage : TRUE
         IN [s EXCEPT !.usage = TRUE, !.prompt = u.prompt, !.completion = @ + u.completion]

\* The numbers of a usage object replace what was counted.
OnUsage(s, usage) ==
    IF usage = {} THEN s
    ELSE LET u == CHOOSE x \in usage : TRUE
         IN [s EXCEPT !.usage = TRUE, !.prompt = u.prompt, !.completion = u.completion]

\* A delta counts as a token.  The second token starts the gaps.
OnDelta(s, delta, now) ==
    IF ~delta THEN s
    ELSE LET counted == [s EXCEPT !.completion = @ + 1]
         IN IF s.first = {} THEN [counted EXCEPT !.first = {now}]
            ELSE [counted EXCEPT
                    !.prev = {now},
                    !.itls = @ \o (IF s.prev = {} THEN <<>>
                                   ELSE <<now - CHOOSE t \in s.prev : TRUE>>)]

OnFinish(s, finish) == IF finish = "none" THEN s ELSE [s EXCEPT !.finish = finish]

OnLine(s, line, now) ==
    CASE line.kind = "done" -> [s EXCEPT !.done = TRUE]
      [] line.kind = "chunk" ->
           OnFinish(OnDelta(OnUsage(FirstByte(s, now), line.usage), line.delta, now), line.finish)
      [] OTHER -> s

\* A RawRequest as it is created: ok until something fails.
RawRequest(latency) ==
    [ok |-> TRUE, error |-> "none", completed_stream |-> TRUE, latency |-> latency,
     ttfb |-> {}, ttft |-> {}, decode |-> {}, prefill |-> {}, itls |-> <<>>,
     decode_tps |-> {}, prefill_tps |-> {}, input |-> 0, output |-> 0,
     finish |-> "none"]

Truncated(r) == r.finish = "length"

\* The end of the stream, with or without [DONE].
Answered(s, now) ==
    LET decodes == s.completion > 1 /\ s.prev # {} /\ s.first # {}
        decode == {p - f : p \in s.prev, f \in s.first}
        lasting == decodes /\ 0 \notin decode
        prefill == IF lasting /\ s.itls # <<>> /\ s.prompt > 0
                   THEN s.first \ {0} ELSE {}
    IN [RawRequest(now) EXCEPT
          !.completed_stream = s.done \/ s.usage,
          !.ttfb = s.ttfb, !.ttft = s.first, !.itls = s.itls,
          !.decode = IF decodes THEN decode ELSE {},
          !.decode_tps = IF lasting THEN {Ratio(s.completion - 1, d) : d \in decode} ELSE {},
          !.prefill = prefill, !.prefill_tps = {Ratio(s.prompt, p) : p \in prefill},
          !.input = s.prompt, !.output = s.completion, !.finish = s.finish]

\* A time-out, a transport error or a refusal: the times seen so far stay.
Failed(s, error, now) ==
    [RawRequest(now) EXCEPT !.ok = FALSE, !.completed_stream = FALSE,
                            !.error = error, !.ttfb = s.ttfb, !.ttft = s.first]

\* body: does the text mention a context, "too long" or a "max".
Classify(status, body) ==
    CASE status \in {401, 403} -> "auth_error"
      [] status = 404 -> "not_found"
      [] status \in {408, 504} -> "timeout"
      [] body /\ status \notin {401, 403, 404, 408, 504} -> "context_overflow"
      [] ~body /\ status >= 500 /\ status # 504 -> "server_error"
      [] OTHER -> "http"
=============================================================================
