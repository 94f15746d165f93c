------------------------------ MODULE BenchRun ------------------------------
(***************************************************************************)
(* One run of llmbench (cli/main.py cmd_run): the loop over the planner's  *)
(* cells, the load generator and the GPU sampler of a cell, and the files  *)
(* of the run directory, any step of which may be the last.                *)
(*                                                                         *)
(* Everything runs on one asyncio loop, so tasks interleave at awaits.     *)
(* planner.jsonl, a log nothing reads, is left out.                        *)
(***************************************************************************)
EXTENDS BenchPlan, BenchPrompt

CONSTANTS Samples,      \* --samples
          MaxBacklog,   \* max_backlog of the open-loop generator
          Outcomes(_),  \* what a cell may measure: [tps, noisy]
          MaxReadings,  \* bound: GPU readings of a run
          MaxFaults     \* bound: files of a cell that cannot be written

ASSUME BenchAssumption == {Samples, MaxBacklog} \subseteq Nat \ {0}

VARIABLES plan,      \* the planner's cells
          results,   \* what was measured: [id, cell, tps, noisy, readings]
          attempts,  \* completed_cells
          budget,    \* FALSE once the time was found used up
          pc,        \* where cmd_run and run_cell are
          cell,      \* the cell being measured
          mc,        \* its measurement, before it counts
          load,      \* the load generator of the cell
          gpu,       \* the GPU sampler of the cell
          disk,      \* the run directory
          faults     \* what is left of MaxFaults

vars == <<plan, results, attempts, budget, pc, cell, mc, load, gpu, disk, faults>>

\* todo counts the tasks not yet started, next is next_prompt_idx, flight
\* the prompts under way, ended those whose request has ended.
NoLoad == [todo |-> 0, issued |-> 0, next |-> 0, flight |-> {}, ended |-> {}]

\* task: the sampler; series: its readings.
NoGpu == [task |-> "off", stop |-> FALSE, series |-> 0]

\* The artifacts in the order they are written.  The parquet file, made only
\* when a library for it is installed, is left out.
Artifacts == <<"summary", "integrity", "manifest", "csv", "metrics", "html", "run_result">>

NoState == [ids |-> <<>>, finished |-> FALSE]

\* tmp is state.json.tmp, reported the cells of run_result.json.  The other
\* files are one step each: nothing reads them before they are complete, neither
\* those that are written under a name of their own and renamed nor metrics.csv,
\* which is written in place (report.py:75).  No directory is synced after a
\* rename (run_dir.py:86-119), so this is the disk after the process crashes, not
\* after the machine does.
EmptyDisk ==
    [raw |-> {}, telemetry |-> {}, state |-> NoState, tmp |-> NoState, artifacts |-> {},
     reported |-> <<>>]

Init ==
    /\ plan \in {LightPlan, HeavyPlan}
    /\ results = <<>>
    /\ attempts = 0
    /\ budget = TRUE
    /\ pc = "pick"
    /\ cell = {}
    /\ mc = {}
    /\ load = NoLoad
    /\ gpu = NoGpu
    /\ disk = EmptyDisk
    /\ faults = MaxFaults

TheCell == CHOOSE c \in cell : TRUE
Total == Samples * TheCell.reps
Sent(i) == PromptFor(TheCell, i % Total)
IsClosed == TheCell.load = "closed_loop"

Ids == [i \in DOMAIN results |-> results[i].id]
-----------------------------------------------------------------------------
(* The loop of cmd_run *)

\* The budget is looked at between two cells only.
Pick ==
    /\ pc = "pick"
    /\ budget' \in BOOLEAN
    /\ cell' = IF budget' THEN NextCell(plan, results) ELSE {}
    /\ pc' = IF cell' = {} THEN "report" ELSE "begin"
    /\ UNCHANGED <<plan, results, attempts, mc, load, gpu, disk, faults>>

\* A closed loop has one task per client; an open loop makes its tasks as
\* the backlog lets it.  The sampler is a task as well, and ends at once
\* when there is no nvidia-smi.
Begin ==
    /\ pc = "begin"
    /\ load' = [NoLoad EXCEPT !.todo = IF IsClosed THEN TheCell.conc ELSE 0]
    /\ \E available \in BOOLEAN :
         gpu' = [NoGpu EXCEPT !.task = IF available THEN "asleep" ELSE "over"]
    /\ pc' = "load"
    /\ UNCHANGED <<plan, results, attempts, budget, cell, mc, disk, faults>>
-----------------------------------------------------------------------------
(* Load generators *)

\* One call of issue_one takes the next prompt.
Issue(l) == [l EXCEPT !.next = @ + 1, !.flight = @ \cup {l.next}]

\* Mutant of Another: one request too many.
AnotherToo(l) ==
    IF l.issued =< Total THEN Issue([l EXCEPT !.issued = @ + 1]) ELSE l

\* A client of the closed loop asks for another request, or leaves.
Another(l) ==
    IF l.issued < Total THEN Issue([l EXCEPT !.issued = @ + 1]) ELSE l

ClientStarts ==
    /\ pc = "load" /\ IsClosed /\ load.todo > 0
    /\ load' = Another([load EXCEPT !.todo = @ - 1])
    /\ UNCHANGED <<plan, results, attempts, budget, pc, cell, mc, gpu, disk, faults>>

Pending(l) == l.todo + Cardinality(l.flight)

\* The open loop makes a task and does not sleep, so it goes on until the
\* backlog is full or all is issued; no task has run by then.
Burst ==
    /\ pc = "load" /\ ~IsClosed
    /\ load.issued < Total /\ Pending(load) < MaxBacklog
    /\ LET room == MaxBacklog - Pending(load)
           left == Total - load.issued
           made == IF room < left THEN room ELSE left
       IN load' = [load EXCEPT !.todo = @ + made, !.issued = @ + made]
    /\ UNCHANGED <<plan, results, attempts, budget, pc, cell, mc, gpu, disk, faults>>

TaskStarts ==
    /\ pc = "load" /\ ~IsClosed /\ load.todo > 0
    /\ load' = Issue([load EXCEPT !.todo = @ - 1])
    /\ UNCHANGED <<plan, results, attempts, budget, pc, cell, mc, gpu, disk, faults>>

\* A request is answered, fails or raises: the generator goes on.
RequestEnds(i) ==
    /\ pc = "load"
    /\ i \in load.flight
    /\ LET freed == [load EXCEPT !.flight = @ \ {i}, !.ended = @ \cup {i}]
       IN load' = IF IsClosed THEN Another(freed) ELSE freed
    /\ UNCHANGED <<plan, results, attempts, budget, pc, cell, mc, gpu, disk, faults>>

\* gather: every task has ended.  The sampler is told to stop.
LoadEnds ==
    /\ pc = "load"
    /\ Pending(load) = 0
    /\ IsClosed \/ load.issued = Total
    /\ gpu' = [gpu EXCEPT !.stop = TRUE]
    /\ pc' = "stopping"
    /\ UNCHANGED <<plan, results, attempts, budget, cell, mc, load, disk, faults>>
-----------------------------------------------------------------------------
(* The GPU sampler (telemetry/gpu.py) *)

SamplerAsks ==
    /\ gpu.task = "asleep" /\ ~gpu.stop
    /\ gpu.series + Cardinality(disk.telemetry) < MaxReadings
    /\ gpu' = [gpu EXCEPT !.task = "asks"]
    /\ UNCHANGED <<plan, results, attempts, budget, pc, cell, mc, load, disk, faults>>

\* nvidia-smi answers in its thread, perhaps with nothing.
SamplerReads ==
    /\ gpu.task = "asks"
    /\ \E reading \in {0, 1} :
         gpu' = [gpu EXCEPT !.task = "asleep", !.series = @ + reading]
    /\ UNCHANGED <<plan, results, attempts, budget, pc, cell, mc, load, disk, faults>>

SamplerEnds ==
    /\ gpu.task = "asleep" /\ gpu.stop
    /\ gpu' = [gpu EXCEPT !.task = "over"]
    /\ UNCHANGED <<plan, results, attempts, budget, pc, cell, mc, load, disk, faults>>

\* Stop waits ten seconds for the sampler, a query may take fifteen: then
\* the sampler is cancelled, and its answer is not recorded.
StopGivesUp ==
    /\ pc = "stopping"
    /\ gpu.task = "asks"
    /\ gpu' = [gpu EXCEPT !.task = "over"]
    /\ UNCHANGED <<plan, results, attempts, budget, pc, cell, mc, load, disk, faults>>

\* Mutant of Stop: the sampler is told to stop and not waited for.
StopWithoutWaiting ==
    /\ pc = "stopping"
    /\ pc' = "measure"
    /\ UNCHANGED <<plan, results, attempts, budget, cell, mc, load, gpu, disk, faults>>

\* The metrics are computed when the sampler has stopped.
Stop ==
    /\ pc = "stopping"
    /\ gpu.task = "over"
    /\ pc' = "measure"
    /\ UNCHANGED <<plan, results, attempts, budget, cell, mc, load, gpu, disk, faults>>

-----------------------------------------------------------------------------
(* What a cell leaves on disk *)

TheMeasurement == CHOOSE m \in mc : TRUE

Measure ==
    /\ pc = "measure"
    /\ \E o \in Outcomes(TheCell) :
         mc' = {[id |-> attempts, cell |-> TheCell, tps |-> o.tps, noisy |-> o.noisy,
                 readings |-> gpu.series]}
    /\ load' = NoLoad
    /\ pc' = "persist"
    /\ UNCHANGED <<plan, results, attempts, budget, cell, gpu, disk, faults>>

\* Mutant of WriteRaw: the file of a cell is written with the report.
WriteRawLater ==
    /\ pc = "persist"
    /\ pc' = "telemetry"
    /\ UNCHANGED <<plan, results, attempts, budget, cell, mc, load, gpu, disk, faults>>

WriteRaw ==
    /\ pc = "persist"
    /\ disk' = [disk EXCEPT !.raw = {f \in @ : f.id # TheMeasurement.id} \cup mc]
    /\ pc' = "telemetry"
    /\ UNCHANGED <<plan, results, attempts, budget, cell, mc, load, gpu, faults>>

\* The series is written as it is now.
WriteTelemetry ==
    /\ pc = "telemetry"
    /\ disk' = [disk EXCEPT !.telemetry =
                  IF gpu.series = 0 THEN @
                  ELSE @ \cup {[id |-> TheMeasurement.id, readings |-> gpu.series]}]
    /\ pc' = "mark"
    /\ UNCHANGED <<plan, results, attempts, budget, cell, mc, load, gpu, faults>>

\* Mutant of PersistFails: the error ends the loop over the cells.
PersistFailsForGood ==
    /\ pc \in {"persist", "telemetry"}
    /\ faults > 0
    /\ faults' = faults - 1
    /\ mc' = {} /\ gpu' = NoGpu
    /\ pc' = "report"
    /\ UNCHANGED <<plan, results, attempts, budget, cell, load, disk>>

\* A file cannot be written: cmd_run notes the error and goes on; the cell
\* is still planned.
PersistFails ==
    /\ pc \in {"persist", "telemetry"}
    /\ faults > 0
    /\ faults' = faults - 1
    /\ attempts' = attempts + 1
    /\ mc' = {} /\ gpu' = NoGpu
    /\ pc' = "pick"
    /\ UNCHANGED <<plan, results, budget, cell, load, disk>>

\* mark_done, results.append and the temporary state file.
Mark ==
    /\ pc = "mark"
    /\ results' = Append(results, TheMeasurement)
    /\ disk' = [disk EXCEPT !.tmp.ids = Append(Ids, TheMeasurement.id)]
    /\ mc' = {} /\ gpu' = NoGpu
    /\ pc' = "replace"
    /\ UNCHANGED <<plan, attempts, budget, cell, load, faults>>

ReplaceState ==
    /\ pc = "replace"
    /\ disk' = [disk EXCEPT !.state = disk.tmp]
    /\ pc' = IF disk.tmp.finished THEN "done" ELSE "refine"
    /\ UNCHANGED <<plan, results, attempts, budget, cell, mc, load, gpu, faults>>

Refine ==
    /\ pc = "refine"
    /\ plan' \in Refined(plan, results)
    /\ attempts' = attempts + 1
    /\ pc' = "pick"
    /\ UNCHANGED <<results, budget, cell, mc, load, gpu, disk, faults>>
-----------------------------------------------------------------------------
(* The end of the run *)

\* There is no table of cells to write when nothing was measured.
Skipped == IF results = <<>> THEN {"csv"} ELSE {}
Missing == {i \in DOMAIN Artifacts : Artifacts[i] \notin disk.artifacts \cup Skipped}

WriteArtifact ==
    /\ pc = "report"
    /\ Missing # {}
    /\ LET name == Artifacts[Min(Missing)]
       IN disk' = [disk EXCEPT !.artifacts = @ \cup {name},
                     !.reported = IF name = "run_result" THEN Ids ELSE @]
    /\ UNCHANGED <<plan, results, attempts, budget, pc, cell, mc, load, gpu, faults>>

Finish ==
    /\ pc = "report"
    /\ Missing = {}
    /\ disk' = [disk EXCEPT !.tmp = [ids |-> Ids, finished |-> TRUE]]
    /\ pc' = "replace"
    /\ UNCHANGED <<plan, results, attempts, budget, cell, mc, load, gpu, faults>>

\* The process is killed, interrupted, or raises outside of a cell: only
\* the files are left.
Crash ==
    /\ pc \notin {"done", "dead"}
    /\ pc' = "dead"
    /\ plan' = <<>> /\ results' = <<>> /\ attempts' = 0
    /\ cell' = {} /\ mc' = {} /\ load' = NoLoad /\ gpu' = NoGpu
    /\ UNCHANGED <<budget, disk, faults>>
-----------------------------------------------------------------------------
Main ==
    \/ Pick \/ Begin \/ LoadEnds \/ Stop \/ Measure
    \/ WriteRaw \/ WriteTelemetry \/ Mark \/ ReplaceState \/ Refine
    \/ WriteArtifact \/ Finish

Load == ClientStarts \/ Burst \/ TaskStarts \/ \E i \in load.flight : RequestEnds(i)

\* Once the process is gone its tasks are.
Sampler == pc # "dead" /\ (SamplerAsks \/ SamplerReads \/ SamplerEnds \/ StopGivesUp)

Next == Main \/ Load \/ Sampler \/ PersistFails \/ Crash

Spec == Init /\ [][Next]_vars

\* The loop runs whatever is ready, and every request ends: it is bounded in
\* tokens and each read of its stream in time.
FairSpec == Spec /\ WF_vars(Main) /\ WF_vars(Load) /\ WF_vars(Sampler)
-----------------------------------------------------------------------------
(* Properties *)

\* Whenever the run is cut short its directory is in order: state.json is
\* whole and names each measured cell once, every cell it names has its raw
\* file and the GPU series its efficiency was computed from, run_result.json
\* is there only with everything else, and the state is finished only then.
FilesAgree ==
    LET ids == Range(disk.state.ids)
        Raw(id) == {f \in disk.raw : f.id = id}
    IN /\ IsInjective(disk.state.ids)
       /\ \A id \in ids : Cardinality(Raw(id)) = 1
       /\ \A id, jd \in ids : \A f \in Raw(id), g \in Raw(jd) :
            Key(f.cell) = Key(g.cell) => id = jd
       /\ \A id \in ids : \A f \in Raw(id) :
            f.readings > 0 => [id |-> id, readings |-> f.readings] \in disk.telemetry
       /\ "run_result" \in disk.artifacts =>
            /\ Range(Artifacts) \ {"csv"} \subseteq disk.artifacts
            /\ disk.reported = disk.state.ids
       /\ disk.state.finished => "run_result" \in disk.artifacts

\* Requests overlap no more than the cell says, no prompt of a cold cell is
\* sent twice and all of a warm cell's are the same, and when the generator
\* returns every prompt was sent and its request ended.
LoadIsAsPlanned ==
    /\ pc = "load" => Cardinality(load.flight) =< (IF IsClosed THEN TheCell.conc ELSE MaxBacklog)
    /\ load.ended \cap load.flight = {}
    /\ \A i, j \in load.ended \cup load.flight :
         i # j => (Sent(i) = Sent(j) <=> TheCell.cache = "warm")
    /\ load.next = Cardinality(load.ended) + Cardinality(load.flight)
    /\ pc \in {"stopping", "measure"} => load.ended = 0 .. Total - 1

\* The readings a cell's efficiency was computed from are all there ever is:
\* none is added once the metrics are made.
SeriesIsComplete ==
    \A m \in mc : m.readings = gpu.series

\* Unless the process dies or the time is up, the refinements come to an end
\* and every cell planned at the start or later is measured.
EveryCellMeasured ==
    <>(\/ pc = "dead"
       \/ pc = "done" /\ (budget => Keys(plan) = Measured(results)))
=============================================================================
