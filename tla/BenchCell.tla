----------------------------- MODULE BenchCell -----------------------------
(***************************************************************************)
(* A cell of llmbench measured on a server that answers as it likes: what  *)
(* is found out about the server, the streams of the requests, and the     *)
(* verdict on the cell (cli/main.py, benchmark/executor.py).               *)
(*                                                                         *)
(* The load generator and the files are BenchRun's, what is published of   *)
(* the cells BenchSite's.  Here the requests of a cell are made one after  *)
(* the other: they share nothing but the list of outcomes.                 *)
(***************************************************************************)
EXTENDS BenchVerdict, BenchConfig, BenchHost

CONSTANTS Targets,    \* the targets a run may meet
          Asked,      \* values of --model
          Clients,    \* the machine llmbench may run on
          Remotes,    \* the machines --ssh-gpu may name
          Addresses,  \* the hosts the target may name
          Workload,   \* the cell: [isl, osl, conc, load]
          Samples,    \* its requests
          Refusals,   \* the answers other than 200: [status, body]
          Lines,      \* the lines a server may send
          Scrapes,    \* what /metrics may show before and after the cell
          GpuSeries,  \* the readings there may be
          MaxLines    \* bound: lines received

\* A usage object counts tokens; a line has one, or none.
Usage == [prompt : Nat, completion : Nat]
Kinds == {"blank", "malformed", "no_object", "done", "chunk"}

ASSUME TargetsAssumption ==
    \A t \in Targets : t.metrics \subseteq DOMAIN HintOf /\ t.version \in BOOLEAN
\* What nvidia-smi says on a machine is of that machine.
ASSUME MachinesAssumption ==
    \A m \in Clients \cup Remotes :
        /\ \A rows \in m.rows : rows \in Seq(Seq([of : {m.name}, column : Nat]))
        /\ m.smi \in BOOLEAN
ASSUME LinesAssumption ==
    \A line \in Lines :
        /\ line \in [kind : Kinds, delta : BOOLEAN, usage : SUBSET Usage, finish : STRING]
        /\ \A u, v \in line.usage : u = v
ASSUME WorkloadAssumption ==
    Workload.isl \in Nat /\ Workload.osl \in Nat /\ Workload.conc \in Nat \ {0}
ASSUME BoundsAssumption == Samples \in Nat /\ MaxLines \in Nat

VARIABLES target,    \* the run's target and what was found out about it,
                     \* until the first cell
          adapter,   \* the engine it is taken for
          host,      \* what was found out about the machine, as long
          config,    \* the configuration of the run and its id, as long
          pc,        \* where the run is
          stream,    \* one_request's state
          now,       \* time since its start
          wire,      \* the lines of the request so far: [line, at]
          issued,    \* requests made
          requests,  \* those that were recorded
          result,    \* the cell once it is measured
          lines      \* what is left of MaxLines

request == <<stream, now, wire>>
vars == <<target, adapter, host, config, pc, request, issued, requests, result, lines>>

Init ==
    /\ target = {} /\ adapter = "generic-openai" /\ host = {} /\ config = {}
    /\ pc = "start"
    /\ stream = NewStream /\ now = 0 /\ wire = <<>>
    /\ issued = 0 /\ requests = <<>> /\ result = {}
    /\ lines = MaxLines
-----------------------------------------------------------------------------
(* Discovery *)

Discover ==
    /\ pc = "start"
    /\ \E server \in Targets, asked \in Asked :
         LET meta == Discovered(server, asked)
         IN /\ target' = {[server |-> server, meta |-> meta]}
            /\ adapter' = Detected(meta)
    /\ pc' = "inspect"
    /\ UNCHANGED <<host, config, request, issued, requests, result, lines>>

\* The machine of the GPU, which --ssh-gpu names when it is another one.
Inspect ==
    /\ pc = "inspect"
    /\ \E client \in Clients, ssh \in {{}} \cup {{m} : m \in Remotes} :
         host' = {[client |-> client, ssh |-> ssh, hardware |-> Inspected(client, ssh),
                   names |-> NewSanitizer, source |-> {}, read |-> {}]}
    /\ pc' = "setup"
    /\ UNCHANGED <<target, adapter, config, request, issued, requests, result, lines>>

Setup ==
    /\ pc = "setup"
    /\ \E t \in target : \E process \in FoundProcess(t.server.processes) :
         LET found == Configuration(adapter, t.meta, process)
         IN config' = {[found |-> found, id |-> ConfigurationId(found, t.meta)]}
    /\ pc' = "filed"
    /\ UNCHANGED <<target, adapter, host, request, issued, requests, result, lines>>

\* The directory, the aliases, the executor and its sampler, unless --no-gpu is
\* given, and the planner are made.
Prepare ==
    /\ pc = "filed"
    /\ \E h \in host, address \in Addresses, no_gpu \in BOOLEAN :
         LET sampler == Sampler(h.client, h.ssh)
         IN host' = {[h EXCEPT !.names = Names(h.ssh, address),
                               !.source = IF no_gpu THEN {} ELSE {Source(sampler)},
                               !.read = IF no_gpu THEN {} ELSE ReadFrom(sampler, h.client, h.ssh)]}
    /\ target' = {} /\ config' = {}
    /\ pc' = "prepared"
    /\ UNCHANGED <<adapter, request, issued, requests, result, lines>>

\* The first cell: what was found out is not looked at again.
Begin ==
    /\ pc = "prepared"
    /\ host' = {}
    /\ pc' = "send"
    /\ UNCHANGED <<target, adapter, config, request, issued, requests, result, lines>>
-----------------------------------------------------------------------------
(* A request *)

Send ==
    /\ pc = "send"
    /\ issued < Samples
    /\ issued' = issued + 1
    /\ stream' = NewStream /\ now' = 0 /\ wire' = <<>>
    /\ pc' = "sent"
    /\ UNCHANGED <<target, adapter, host, config, requests, result, lines>>

\* The request is recorded as r.
Ends(r) ==
    /\ requests' = Append(requests, r)
    /\ pc' = "ended"

Accept ==
    /\ pc = "sent"
    /\ now' = 1
    /\ pc' = "reading"
    /\ UNCHANGED <<target, adapter, host, config, stream, wire, issued, requests, result, lines>>

Refuse ==
    /\ pc = "sent"
    /\ \E a \in Refusals : Ends(Failed(stream, Classify(a.status, a.body), now + 1))
    /\ UNCHANGED <<target, adapter, host, config, request, issued, result, lines>>

\* A line arrives; [DONE] ends the request.  The server sends no more tokens
\* than it was asked for, and its usage only on demand.
Receive(line) ==
    /\ pc = "reading"
    /\ line.kind # "no_object"
    /\ LET asks == Payload(adapter, Workload.osl)
       IN /\ line.delta => stream.completion < asks.max_tokens
          /\ line.usage # {} => asks.usage
    /\ lines > 0 /\ lines' = lines - 1
    /\ now' \in {now, now + 1}
    /\ stream' = OnLine(stream, line, now')
    /\ wire' = Append(wire, [line |-> line, at |-> now'])
    /\ IF line.kind = "done" THEN Ends(Answered(stream', now'))
       ELSE UNCHANGED <<pc, requests>>
    /\ UNCHANGED <<target, adapter, host, config, issued, result>>

\* A number or a list has no get: the exception leaves the request, which
\* is neither recorded as ok nor as failed.
Raise ==
    /\ pc = "reading"
    /\ lines > 0 /\ lines' = lines - 1
    /\ \E line \in Lines : line.kind = "no_object"
    /\ stream' = NewStream /\ now' = 0 /\ wire' = <<>>
    /\ pc' = "send"
    /\ UNCHANGED <<target, adapter, host, config, issued, requests, result>>

\* The server closes the stream without [DONE].
StreamEnds ==
    /\ pc = "reading"
    /\ Ends(Answered(stream, now))
    /\ UNCHANGED <<target, adapter, host, config, request, issued, result, lines>>

\* Nothing comes in time, or the connection breaks.
Break ==
    /\ pc \in {"sent", "reading"}
    /\ \E error \in {"timeout", "http"} : Ends(Failed(stream, error, now + 1))
    /\ UNCHANGED <<target, adapter, host, config, request, issued, result, lines>>

Recorded ==
    /\ pc = "ended"
    /\ stream' = NewStream /\ now' = 0 /\ wire' = <<>>
    /\ pc' = "send"
    /\ UNCHANGED <<target, adapter, host, config, issued, requests, result, lines>>
-----------------------------------------------------------------------------
(* A cell *)

\* One client makes its requests in turn, more of them at once.
Duration ==
    LET took == [i \in DOMAIN requests |-> requests[i].latency]
    IN CASE requests = <<>> -> 1
         [] requests # <<>> /\ Workload.conc = 1 -> 1 + SumOf(took)
         [] OTHER -> 1 + MaxOf(took)

Measured(scrape, series) ==
    LET m == Aggregated(requests, Workload, Duration)
        differ == Discrepancies(adapter, m, Parsed(scrape.pre), Parsed(scrape.post))
    IN [workload |-> Workload, duration |-> Duration, metrics |-> m,
        efficiency |-> Efficiency(m, requests, series), gpu |-> GpuSummary(series),
        verdict |-> Evaluate(m, Workload.osl, {}, differ)]

Judge ==
    /\ pc = "send"
    /\ issued = Samples
    /\ \E scrape \in Scrapes, series \in GpuSeries :
         result' = {Measured(scrape, series)}
    /\ pc' = "judged"
    /\ UNCHANGED <<target, adapter, host, config, request, issued, requests, lines>>
-----------------------------------------------------------------------------
Next ==
    \/ Discover \/ Inspect \/ Setup \/ Prepare \/ Begin
    \/ Send \/ Accept \/ Refuse \/ Raise \/ StreamEnds \/ Break \/ Recorded
    \/ \E line \in Lines : Receive(line)
    \/ Judge

Spec == Init /\ [][Next]_vars
-----------------------------------------------------------------------------
(* Properties *)

\* A server that shows vLLM's metrics is taken for vLLM and one that shows
\* llama.cpp's for llama.cpp, whatever the name of the model, the version
\* and the processes of the client's own machine suggest.  The configuration
\* names that engine, the server's version and, if the server lists models,
\* the one that is asked for; it has the context length the server tells
\* unless a process on this machine has a command line, and then it has
\* nothing that line does not say.
EngineIsRecognised ==
    \A t \in target :
        /\ "vllm" \in t.server.metrics => adapter = "vllm"
        /\ "llama" \in t.server.metrics /\ "vllm" \notin t.server.metrics => adapter = "llamacpp"
        /\ t.server.metrics = {} /\ ~t.server.version => adapter = "generic-openai"
        /\ \A c \in config :
             LET deployed == c.found.deployment
             IN /\ c.found.engine = adapter /\ c.found.version = t.server.version
                /\ t.meta.model # "" => c.found.model = {Word(t.meta.model)}
                /\ deployed.args = <<>> =>
                     deployed.options = {<<"max_model_len", l>> : l \in t.meta.max_len}
                /\ \A o \in deployed.options :
                     o[1] = "max_model_len" /\ deployed.args # <<>> =>
                       \E i \in DOMAIN deployed.args : deployed.args[i] = o[2]

Deployed(h) == Reached(h.client, h.ssh)

\* The GPUs a run is filed with and the GPU readings of its cells, which two
\* parts of llmbench find their way to (discovery/host.py, telemetry/gpu.py),
\* are of one machine: the one --ssh-gpu names, whatever GPU the client has,
\* and the client without it.
GpusAreDeployed ==
    \A h \in host :
        LET gpus == h.hardware.gpus
        IN /\ \A i \in DOMAIN gpus : \A f \in DOMAIN gpus[i] : gpus[i][f].of = Deployed(h).name
           /\ h.read \subseteq {Deployed(h).name}
           /\ h.read # {} => h.source = {IF h.ssh = {} THEN "nvidia-smi" ELSE "nvidia-smi-ssh"}

\* What a run is filed with of the system is of the deployment host: "so hardware
\* + GPU are the actual deployment host, not the client" (cli/main.py:127-129).
SystemIsDeployed(h) ==
    \A f \in DOMAIN h.hardware.os : h.hardware.os[f] \subseteq {Deployed(h).name}

\* Its public name is gpu-host-01: "so the deployment host is always the first
\* alias" (cli/main.py:194-195), the default of schemas/core.py:414.
FirstAlias(h) == h.hardware.hostname_alias = 1

\* It goes by one name in all of the run: "The same Sanitizer instance must be used
\* for a whole run so that aliases are consistent across every artifact"
\* (security/sanitize.py:66-67).
OneAlias(h) ==
    LET name == Text(Deployed(h).name)
    IN name \in DOMAIN h.names.alias => h.names.alias[name] = h.hardware.hostname_alias

\* What the comments say of the deployment host, which the code does not do: the
\* memory is the client's, and so are the kernel and the architecture of a host
\* that does not tell them; and the inspection has a Sanitizer of its own, in
\* which gpu-host-01 is itself a name, the second one, and gets the second alias.
HostIsAsDocumented ==
    \A h \in host : SystemIsDeployed(h) /\ FirstAlias(h) /\ OneAlias(h)

\* The places on the wire that satisfy a condition.
Chunks == {i \in DOMAIN wire : wire[i].line.kind = "chunk"}
Deltas == {i \in Chunks : wire[i].line.delta}
Usages == {i \in Chunks : wire[i].line.usage # {}}
At(places) == {wire[i].at : i \in places}
Earliest(S) == {x \in S : \A y \in S : x =< y}
Latest(S) == {x \in S : \A y \in S : y =< x}

\* What a request records is what was on the wire, seen as a whole: its
\* tokens are those the last usage object tells and the deltas since; its
\* times are those of the first object and the first delta; decoding lasts
\* from the first delta to the last, and the gaps, which leave out the first
\* one, add up to no more than that; it is complete when the server said so.
StreamAddsUp ==
    pc = "ended" =>
        LET r == requests[Len(requests)]
            counted == {d \in Deltas : \A u \in Usages : d >= u}
            told == UNION {{u.completion : u \in wire[i].line.usage} : i \in Latest(Usages)}
        IN /\ r.ttfb = Earliest(At(Chunks)) /\ r.ttft = Earliest(At(Deltas))
           /\ \A b \in r.ttfb, t \in r.ttft : b =< t /\ t =< r.latency
           /\ r.ok =>
                /\ r.output - Cardinality(counted) \in (IF told = {} THEN {0} ELSE told)
                /\ r.decode # {} <=> r.output > 1 /\ Cardinality(Deltas) > 1
                /\ \A d \in r.decode, f \in Earliest(At(Deltas)), l \in Latest(At(Deltas)) :
                     d = l - f /\ SumOf(r.itls) =< d
                /\ Len(r.itls) = IF Cardinality(Deltas) < 2 THEN 0 ELSE Cardinality(Deltas) - 2
                /\ r.completed_stream <=>
                     Usages # {} \/ \E i \in DOMAIN wire : wire[i].line.kind = "done"

\* A request of a cell is counted once, as completed or as failed, unless an
\* exception took it away.  A cell is INVALID exactly when no stream came to
\* an end; it is VALID only when enough of them did, or at least half of the
\* requests failed, and when they gave the tokens asked for.  Its percentiles
\* lie in order between its extremes.
VerdictIsHonest ==
    \A c \in result :
        LET m == c.metrics
        IN /\ m.completed + m.failed = Len(requests)
           /\ m.http + m.timeouts + m.malformed + m.overflow =< m.failed
           /\ c.verdict.state = "INVALID" <=> \A i \in DOMAIN requests : ~requests[i].ok
           /\ c.verdict.state = "VALID" =>
                /\ m.completed >= MinSamples \/ 2 * m.failed >= Len(requests)
                /\ 5 * m.output >= 4 * c.workload.osl * m.completed
           /\ \A d \in {m.ttft, m.itl, m.latency} :
                /\ 1000 * d.min =< d.p50 /\ d.p50 =< d.p75 /\ d.p75 =< d.p90
                /\ d.p90 =< d.p95 /\ d.p95 =< d.p99 /\ d.p99 =< 1000 * d.max
                /\ d.min * d.count =< d.sum /\ d.sum =< d.max * d.count

=============================================================================
