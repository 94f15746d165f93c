# HomeAILab in TLA+

HomeAILab serves large language models from a few GPU machines at home. Its
repository holds a request router in Go, the Python router it replaced, two
programs that show agent sessions on a Stream Deck, a benchmark tool, and the
compose files and scripts of the deployment. This directory models the programs
that have concurrency, failure or timing in them, checks the models with TLC and
proves what matters most with TLAPS.

    tlc -config BenchRun.cfg MCBenchRun.tla
    tlapm RouterPartsProofs.tla

Sections: 1 the system, 2 the modules, 3 the runs, 4 the proofs, 5 plain
disagreements, 6 plan, 7 not modelled. PROJECT.json lists the parts of the system
(`components`), what a unit test would hardly reach, at its line (`hazards`), the
runs, the theorems, and the lines of the source each definition stands for
(`map`).

## 1. The system

Five programs. They share machines and say little to each other: the agents whose
sessions the decks show send their requests to a router, and llmbench measures a
backend directly.

### The router (`router/`, Go)

| part | state it keeps | operations |
|---|---|---|
| capacity pool (`internal/capacity`) | an atomic counter `inflight`, a map of leases under a mutex | `Reserve`, `Release`, `Touch`, `ReapLeases` |
| registry (`internal/registry`) | an atomic pointer to an immutable table; each entry has a manifest, a pool and a mutable `State` | `NewTable`, `View`, `Set` |
| data plane (`internal/proxy`) | per request: lease id, candidates, reserved entry; shared: `leaseSeq` | `ServeHTTP`, `orderedCandidates`, `forwardSelected`, `streamResponse` |
| routing (`internal/routing`) | none | `Classify`, `RequiredContext`, `Select` |
| health worker (`internal/health`) | counters and flags in `State` | `pollAll`, `probe`, `apply` |
| discovery worker (`internal/discovery`) | none but the table it builds | `Rescan`, `fetchManifest`, `RunLeaseWatchdog` |
| admin API (`internal/api`) | none | `drain`, `undrain`, `enable`, `disable`, `rescan`, listings |

A request handler is a goroutine: it takes a view of the current table, filters and
sorts the entries, reserves a slot of the first pool with room, forwards the body,
streams the answer and releases the slot in a deferred call. Beside it run the health
worker (every 2 s), the discovery worker (a new table every 5 s), the lease
watchdog (every 30 s) and the admin API. They share the registry's pointer, the
pools' atomics and mutexes, and the plain fields of `State`, which nothing protects.

Hard: the counter and the leases of a pool change in separate steps; `leaseSeq` is
not synchronised; flags are read one by one while others write them; a table can be
replaced between any two steps of a handler, of a health pass or of an admin action;
the upstream may refuse, time out or go away, and a client may stop reading.
Correct: the counter is exact, bounded and never negative; every slot comes back,
to the pool it came from, once; a live request's lease is never taken; a request
goes to the first endpoint that can serve it and is refused only if none can; a health
flag follows its thresholds; what the operator closes stays closed.

### The legacy router (`router-legacy/router.py`, asyncio)

State: per backend what the last probe said and an in-flight count, a sticky backend
per session with a time to live, in-flight counts per session. Every request, `/health`
and a background loop probe all backends one after the other and store what they learn;
`select` chooses and reserves under a lock that is never held across an await. Hard:
overlapping probes overwrite one another; a slot is given back by a generator's `finally`
that does not exist yet when the connection fails. Correct: no other path loses a slot,
no backend gets more than it is configured for, the table catches up with the backends.

### The OpenDeck broker (`opendeck-broker/`, Python threads)

State: slots with generations, overflow, a sequence and a last-seen time per instance, the
adapter's launches, a cache of rendered pictures, a queue of presses. The main loop
polls sessions and processes, sweeps leases, renders and serves presses; the REST
threads register, heartbeat, snapshot and delete; the device's reader thread queues
presses. Only uploads are under a lock. Correct: a launch keeps its key while it lives,
a key shows whom a press of it focuses, the dead lose their keys, the deck catches up.

### OpenCode Deck (`opencode-deck/`, Python broker and JavaScript bridges)

State: a registry of records and slots under one lock, the views presented on the
device, a bounded press queue; in each worker process a binding; in each bridge a
producer id and a sequence number. Requests may be late, lost or handled after
the client gave up, bridges are replaced when a plugin reloads, the broker ends and
is started again by a scheduled task. Correct: no key is wasted, a press
focuses what it showed, reports go forward, the deck tells the truth again.

### llmbench (`llmbench/`, one asyncio process)

| part | state it keeps | operations |
|---|---|---|
| planner | the plan | light and heavy plan, knee and repetition refinements |
| load generators | a shared counter, a prompt index, tasks | closed loop, open loop with a backlog |
| streaming | per request: what was on the wire | SSE lines, failures, their classes |
| telemetry | the sampler's task and its readings | start, sample, stop |
| metrics, integrity | none | distributions, rates, energy, verdicts |
| discovery, adapters | none | probing a target, detection, configuration, cross-check |
| host inspection, sanitizer | an alias per host name | inspecting the machine of the GPU, here or over ssh |
| run directory | files, most of them written under a temporary name and renamed | persist, mark, finish |
| reports, site | none but files | run result, rows, curves, cards, history |

Hard: clients interleave at every await; a run may be cut short between any two files;
a stream may end anywhere and tell its usage at any place; the sampler may be asking
when it is told to stop. Correct: the load is the planned one, the files agree, every
planned cell is measured, a run is filed under the engine and the machine that served
it, a record says what was on the wire, a verdict follows from the records, and a number on the site is that of a run that ended.

## 2. The modules

| module | models | builds on |
|---|---|---|
| `Lists` | filtering, stable sorting and adding up a list, by positions | |
| `ListsProofs` | lemmas about `Lists` and about sequences, for the other proofs | `Lists` |
| `AdmissionService` | abstract: what a pool, and the router, promise of their slots | |
| `CapacityPool` | one endpoint's pool under handlers and watchdog, one action per access to shared state | `AdmissionService` |
| `Routing` | classification, context requirement, filter and sort, as operators | `Lists` |
| `RouteDecision`, `MCRouteDecision` | one routing decision over any body, table and map order; the fleets for TLC | `Routing` |
| `EndpointState` | `registry.State` and the three ways it is written | |
| `HealthWorker` | one endpoint under the health worker, with the history of probes | `EndpointState` |
| `MCRouterParts` | for TLC: behaviours of `RouteDecision` or of `HealthWorker`, which share nothing | `MCRouteDecision`, `HealthWorker` |
| `RouterPartsProofs` | theorems about a pool, the refinement among them, a health worker and a decision | `CapacityPool`, `HealthWorker`, `RouteDecision`, `ListsProofs` |
| `RouterCore` | handlers, health worker, rescans, admin and watchdog over generations of tables | `EndpointState`, `AdmissionService` |
| `RouterAudit` | `RouterCore` observed: what was available, what was closed | `RouterCore` |
| `RouterProofs` | theorems about `RouterCore`, the refinement among them, and about `RouterAudit` | `RouterAudit` |
| `MCRouter`, `MCRouterAudit` | small fleets for TLC | `RouterCore`, `RouterAudit` |
| `SlotAssignment` | abstract: what a deck broker promises of its keys | |
| `SlotRegistry` | `opendeck_broker/registry.py` and the reducer of `model.py`, as operators on one value | |
| `DeckBroker`, `DeckBrokerProofs` | the OpenDeck broker: main loop, REST threads, reader thread, device, processes; theorems about it, the refinement among them | `SlotRegistry`, `SlotAssignment` |
| `AgentRegistry` | `ocdeck/model.py`, as operators on one value | |
| `AgentDeck`, `AgentDeckProofs` | OpenCode Deck: broker, device thread, workers, bridges, restarts; theorems about it, the refinement among them | `AgentRegistry`, `SlotAssignment` |
| `LegacyRouter`, `LegacyRouterProofs`, `MCLegacyRouter` | `router-legacy/router.py`: messages, probes, sessions, reservations; theorems about it; two backends for TLC | |
| `BenchPlan` | `planner/plan.py`: the plans and their refinements | `Lists` |
| `BenchPrompt` | `workloads/prompts.py`: which prompt a request carries | |
| `BenchRun`, `BenchRunProofs`, `MCBenchRun` | `cmd_run`, the load generators, the GPU sampler and the run directory; theorems about them and the planner; outcomes for TLC | `BenchPlan`, `BenchPrompt` |
| `BenchStream` | `benchmark/streaming.py`: what a request records of the lines it receives | |
| `BenchMetrics` | distributions, aggregation, energy and efficiency | `BenchStream`, `Lists` |
| `BenchProbe` | discovery, detection, the engine's own metrics and the cross-check | `BenchMetrics` |
| `BenchConfig` | the configuration a run is filed under | `BenchProbe` |
| `BenchVerdict` | `integrity/check.py` | `BenchProbe` |
| `BenchHost` | `discovery/host.py`, where `telemetry/gpu.py` reads, the aliases of `security/sanitize.py` | `Lists` |
| `BenchCell`, `MCBenchCell` | a run's setup and one cell against a server that answers as it likes; servers and machines for TLC | `BenchVerdict`, `BenchConfig`, `BenchHost` |
| `BenchReport` | `reports/report.py`, `site/site.py` and the key figures of `cli/main.py` | `BenchVerdict` |
| `BenchSite`, `MCBenchSite` | several runs and the site made of what they left; cells for TLC | `BenchReport` |
| `MCBenchResults` | for TLC: behaviours of `BenchCell` or of `BenchSite`, which share nothing | `MCBenchCell`, `MCBenchSite` |
| `BenchResultsProofs` | theorems about a cell and about the site | `BenchCell`, `BenchSite`, `ListsProofs` |

### How the layers fit

The router. `CapacityPool` is the fine grain: loads, compare-and-swaps, map writes and
decrements are actions of their own, and with distinct lease ids they implement
`AdmissionService` with one pool: a set of holders bounded by the capacity. In
`RouterCore` a pool *is* that set, which leaves room for tables, handlers, workers and the
admin, and the whole implements the same `AdmissionService` with a pool for each entry of
each table. `RouteDecision`
likewise shows that the candidate list is the strictly sorted sequence of what fits,
whatever the map order, and `RouterCore` uses a rank per endpoint. `HealthWorker`
shows that the flag follows the thresholds, and `RouterCore` applies the same `Apply`.

The decks. Both registries are values with one operator per method. `AgentRegistry` is
locked, so a method is a step; `SlotRegistry` is not, so `register` is cut where its
search for a free slot ends and the claim begins, whoever calls it: a POST, or a PUT or the
refresh of the main loop for a launch that was forgotten since. Both brokers implement
`SlotAssignment`: the OpenDeck broker even while several launches register at once, because
that race shows in what the losers believe (`slotOf`), not in what a key holds. One race is
left out by a premise, `RegisteredOnce`: two registrations of the same launch (section 5).

llmbench. `BenchRun` has the order of things and abstracts what a cell measures to its
throughput and whether it varied; `BenchCell` has what a cell measures; `BenchSite` has
what becomes of measured cells. The boundary of each is the value the next one takes: a
cell's requests, a measured cell, a run's result.

### CapacityPool

`inflight` and `leases` are the fields of `Pool`; `cur` is the local of `Reserve`'s
loop; `reaped` is the local slice of `ReapLeases`; `leaseSeq` is the package variable
and `seq` each handler's copy. `leaseSeq++` is a load and a store with no lock, and the
compiler may reuse the value already loaded, so `BumpSeq` stores one more than either
value. A lease id is the pair of clocks and the sequence number. Properties that need
distinct ids say so in their premise. For the refinement, a handler holds a slot from its
compare-and-swap until somebody has decremented the counter for it: through its lease while
that is in the map, and after that through the decrement it or the watchdog still owes.

`now` is coarse, the unit of both timeouts; `millis` only tells lease ids apart.
`Tick` does not happen while a handler is between two accesses to memory (`Computing`):
a goroutine is not suspended for as long as a timeout (the deployed ones are 180 s and
7200 s). Nor does it happen past the end of `http.Client.Timeout`, which bounds an
exchange body included. A handler blocked in a write to its client is `stalled`: the
server sets no write timeout, and nothing bounds how long that lasts. `TimeoutOrder`
assumes that the client timeout does not exceed the lease timeout, which holds for the
deployed configuration and which no code checks; without it `LiveLeaseKept` is false.

### RouterCore, RouterAudit

A table is a generation `g`: `members[g]` its endpoints, `state[g][e]` an entry's
`State`, `holders[g][e]` the requests with a slot of its pool. `Rescan` fills in the
next generation and moves `gen`. A handler stays with the generation it viewed, as a Go
handler keeps its `*Table`. The filter reads `Enabled`, `Healthy` and `Draining` in steps
of their own, entry after entry in any order. The health worker and each admin request
hold their own view between their first and their last step. The admin handlers take no
lock, so the requests (`Admins`) interleave: each looks up an entry of the current table and
writes it later, when others may have looked up, written or answered, or a rescan may have
replaced the table. `Reap` may take the lease
of a stalled handler, in the current table only. `fetchManifest` reads into a slice of
length zero, so the set of manifests found is empty. `ValidatePortContract` is applied by
`Rescan` and not at boot, as in the code.

`RouterAudit` adds three history variables, none of which constrains a step: `steady[r]`,
the endpoints that fit `r` and have been enabled, healthy, not draining and not full in
`r`'s table ever since `r` took its view; `closed`, the gates (table, endpoint, flag) whose
closing was answered while nobody was opening the same gate of any table, and that nobody
began to open since; `shut[r]`, what was closed all the time since before `r` came. Of a
closing that overlaps with an opening nothing is claimed: which of the two writes last is not
decided by the code. `ClosedStaysClosed` is about the table the request routes in;
`DrainIsRemembered` is the same for an endpoint, over rescans, and does not hold.

### DeckBroker

A step ends where the code leaves the interpreter, takes the render lock, or has found
in `register` the slot it then takes: `Register` and `Claim` for a POST, `Reregister` and `Take`
for a PUT, `Apply` and `MainTake` for the refresh. The launches' `Instance` objects are shared between the
registry and the adapter (`facts`), and a snapshot changes them before its number is
checked. Sequence numbers are only compared, so instead of them the model has `numbers`, the
threads that hold one in the order they took them, and `stale`, those among them whose number is
no newer than the one `_producer` has; a registration notes the number of the shared `Instance`, which
is the newest. An upload writes the cache before the device has
answered, and the device may refuse any of the keys. `Unseen` are the launches whose
process `is_alive` cannot tell from a live one.

### AgentDeck

`net` holds registrations and removals that were sent and not handled, also after their
client gave up. Reports are not kept there: any report a bridge may have sent can be
the next one handled, which covers loss, delay and reordering at once. `presented` is what
a press captures and `shown` whose picture is on the key; they differ between `Draw` and
`Present`. `Crash` and `Stop` lose everything but what the device shows.

### LegacyRouter

A probe reads a backend in one step (`Ask`) and stores what it read in another
(`Store`), and other tasks run in between. The message a request carries is a record of what
`_auth_ok`, `extract_session_id` and `body_has_image` look at. `lost` is a request whose connection
failed: it is over, and its reservation stays.

### BenchRun

`disk` is the run directory; state.json is replaced by a temporary file in a step of its
own, and the other files appear whole. `results` and `plan` are what the process knows, and are
lost in a `Crash`. `load` counts the tasks not yet started, the prompts under way and those
ended; the closed loop's clients share `issued` and `next` as the code's tasks share two
locals. The budget is looked at between cells only.

### BenchCell

Optional numbers are sets of at most one element, means and rates are pairs, percentiles
are in thousandths: no rounding is left out that a verdict depends on. The server is
free to send any lines in any order, to refuse, to close, or to go silent, within two limits:
no more tokens than were asked for, and usage only on demand. `wire` is what was sent,
kept only for the properties. A line that is JSON and no object raises, and the request
is neither completed nor failed.

A machine (`BenchHost`) is whose it is, whether commands can be run on it, and which of them tell
something; a fact about a machine is the name of the machine it was read on, so that a mixture of
two machines can be seen. What a command prints of a name ends with a newline, so it is another
text than the name an alias was given for. `host` lasts from the inspection until the executor is made, which is
when hardware.json is written and the source of the GPU readings is settled.

## 3. The runs

| run | shows | instance |
|---|---|---|
| `CapacityPool` | the counter is bounded and, with distinct ids, exact; no live lease is taken; the pool implements `AdmissionService`; slots come back even from stalled clients; nobody spins for ever | 3 requests, 1 slot, 4 coarse and 1 fine clock values, fair |
| `RouterParts` | the walk does not depend on map order and is what fits; hysteresis is exact | 3 tables in every order, bodies at every boundary; every history of 12 probes, thresholds 3 and 2 |
| `Router` | the router implements `AdmissionService`, every accepted request settles; a gate stays as the last answered action left it | 2 requests, 1 endpoint, 2 tables, 3 drains and undrains by 2 admin requests at once, fair |
| `Router_audit` | slots follow their requests over a table swap; no needless refusal; the earliest endpoint that was free all along serves; what the operator closed in a table stays closed in it | 2 requests, 2 endpoints (one dropped by the port contract), 2 tables, 1 health pass, 1 admin action of any kind |
| `DeckBroker` | keys belong to launches on record; a launch keeps its key; the broker implements `SlotAssignment`; the dead lose their keys; the deck catches up | 3 launches, 2 keys, 1 REST thread, 3 calls, 1 event, fair |
| `AgentDeck` | no key is wasted; a press focuses what it showed; reports go forward; the broker implements `SlotAssignment`; the deck tells the truth again and again | 2 launches, 1 key, 2 bridges of 1 launch, 1 fault, fair |
| `LegacyRouter` | counters stand for requests; no backend beyond its cap; the table catches up | 2 requests, 2 backends of 1 slot, 7 messages, 1 change, fair |
| `BenchRun` | the directory is in order whenever the run is cut; the load is the planned one; the GPU series is complete; every planned cell is measured | both plans over 1 context and concurrencies 1 and 2 (a knee adds 3), 2 samples, 1 failed write, fair |
| `BenchResults` | the engine is recognised and the configuration is its own; GPUs and their readings are of one machine, the right one; a record adds up to the wire; a verdict is honest; a number on the site is that of a run that ended, under its own badge | 120 servers with 4 models asked for; 3 client machines with 4 remote ones or none; 2 requests, 4 lines of 7 kinds; 2 runs of 2 cells over 2 configurations, 9 measured cells |

Violated, against statements of the repository that the code does not keep (quoted under
`findings` in PROJECT.json):

| run | what the code does |
|---|---|
| `DeckBroker_evict` | two threads that register at once find the same free slot: both launches are on record with it and one is shown nowhere |
| `Router_drain` | a drain is answered, a rescan builds a table of fresh states, and the next request goes to the drained endpoint |
| `BenchCell_host` | with the GPU on another machine a run is filed with the memory of the client (and the kernel and architecture, if the host does not tell them), and under an alias that the rest of the run does not use |

### What the properties ask

The counting properties (`SlotAccounting`, `SlotsFollowRequests`, `SlotsAccounted`,
`KeysAreBacked`, `NoKeyWasted`) relate two records of one fact that different actors
write: a counter and the requests it stands for, an occupant and the entry that names
it. `ActsAsOnePool` and the `Implements...` properties say the same as steps: what
a slot or a key may do next, whoever acts. `LaunchKeepsItsKey`, `ClosedStaysClosed`,
`ReportsOnlyGoForward` and `EarliestSteadyServes` compare a moment with earlier ones.
`FilesAgree` is about what another process would find after a crash at any step.
`StreamAddsUp` restates incremental bookkeeping as a formula over the whole exchange,
`WalkIsWhatFits` a chain of sorts as one order, `HysteresisExact` counters as runs of a
history. `EngineIsRecognised`, `GpusAreDeployed`, `VerdictIsHonest` and `SiteIsHonest` follow a value through
several modules and state what a reader of the result takes for granted.

### Bounds

Two requests are enough for a race on a counter, on `leaseSeq` or on a table swap; a
third lets a slot be reused while the race is on. Two endpoints make an order and a
fallback. Two tables make one swap, and what goes wrong in one goes wrong in each: a
handler, a pass and an action hold one view each. One health pass with thresholds of 1
changes the flag within the pass; longer runs of probes are `HealthWorker`'s subject.
In `Router_audit` one admin action of any of the four kinds comes before, between or after anything
else. In `Router` three drains and undrains by two requests are the least in which an undrain that
began before a drain is written after the drain was answered, or a drain is answered twice around an
undrain; `disable` and `enable` write another flag in the same way. `MCRouterParts` and
`MCBenchResults` put two specifications that share no variable into one run; a behaviour
is of one of them, and the other stays in an initial state.

One launch more than keys makes an overflow and a reuse. In `DeckBroker` three calls are a
register, a register that waits and a delete, or a delete and what races with it. The one
REST thread races with the main loop, whose refresh registers, sweeps and renders as well. Two
REST threads race in `DeckBroker_evict`; under fairness and with every property they are beyond
what the run can visit. With one thread `RegisteredOnce` holds at every state, because a refresh
and a PUT find the same launch forgotten only after a DELETE, which a second thread would have to
send in between; so the run needs no premise. With two, `KeysAreBacked` fails (section 5). In
`AgentDeck` two bridges and two numbers make an overtaken report and a retired bridge; the
second fault, if there were one, would meet the state the first one leaves.

One backend of `LegacyRouter` can see pictures and one comes first, so the pin and the
priority disagree; one change is a backend that fails, recovers from the beginning's
failure, or fills up, between any two steps of two overlapping probes.

In `BenchRun` a concurrency of 2 with a flat gain makes a knee and its neighbours, a noisy
cell is repeated, and the open loop's backlog of 2 is full with 2 samples; a crash may come at
any step, so more cells would repeat what two cells and their insertions show. Four
lines are enough for two deltas on both sides of a usage object, or for three requests' worth
of endings; the properties of a cell compare counts and times that each line changes alone.
Two runs make a best one, a crashed one and an earlier configuration.

Every counter that the code leaves unbounded is bounded in a guard (`MaxGen`, `MaxPasses`,
`MaxAdminOps`, `MaxNow`, `MaxMillis`, `LastArrival`, `MaxProbes`, `MaxCalls`, `MaxEvents`,
`MaxFaults`, `MaxSeq`, `MaxChanges`, `MaxReadings`, `MaxLines`, `MaxCells`, `MaxRuns`), which
is why the configurations switch deadlock checking off: a finite supply of requests,
faults and control actions runs out, and a benchmark comes to its end. No run uses symmetry; where a
fresh identity can be any of several, an action takes a fixed one of them.

### Fairness

Go: weak fairness of each handler's next step (the scheduler runs every runnable
goroutine; `client.Timeout` ends every exchange) and of the watchdog (its ticker fires for
ever). In `CapacityPool` time passes. Nothing makes a request arrive, a stalled client
move, or the control plane act, so no liveness property depends on them. Whether an
exchange ends in a stalled client or in a release is the environment's choice, made
inside `Close` and `StreamEnds`.

`DeckBroker`: the main loop goes on, and a REST call once begun. Calls, presses, exits and
the shutdown need not happen. `AgentDeck`: the loops of the code (a worker registers
again each half second and exits once its OpenCode has ended, requests are handled, the
sweep and the device thread go round) and the scheduled task that starts a broker that
ended. The step in which the device thread takes a view after the animation moved is
strongly fair, because the animation runs by the clock and other steps disable the
view for a while only; with the animation switched off `DeckTellsTruth` fails (section 5).

`LegacyRouter`: asyncio runs every task that can run, and a stream ends at the latest
at `MAX_REQUEST_SECONDS`. `BenchRun`: the same, and every request ends, being
bounded in tokens and in the time of each read.

## 4. The proofs

TLC checks the instances above; the theorems hold for every value of the constants
that satisfies the assumptions of the modules. Each proof module has an
inductive invariant, one lemma per step that can disturb it, and the theorems at its end;
PROJECT.json lists the theorems under `theorems`.

### ListsProofs

What the other proofs share. A place in a stable sort is the number of positions that come
earlier. For a weak order "earlier" is a strict total order on positions (`EarlierIsTotal`), so
different positions have different counts (`SoonerCounts`) and the counts use up every place
(`SortPlaces`); `Ascending` of a finite set of numbers is the same argument for the numbers
themselves (`RankTells`, `RankIsTaken`, `AscendingOnto`). `SumOf` and strings of sequences are
recursive functions: that they exist, and what bounds their values, is shown by way of the
shortest counterexample, which natural numbers have (`LeastNat`, `Counting`, `SumIsPartial`,
`FlatExists`).

### RouterPartsProofs: CapacityPool

Assumed: the capacity is an integer, the requests are finitely many and
(`TimeoutOrder`) the client timeout does not exceed the lease timeout.

The invariant ties the counter to who still has to decrement it: those on their way from the
compare-and-swap to the map, those whose lease is in the map, and those on their way from the
map to the decrement. Whatever the lease ids, the counter is at most the capacity and at
least the outstanding decrements, so it is never negative (`Bounds`). While ids
are distinct the two are equal (`Accounting`). `SlotAccounting` is not inductive
by itself: `Release` has to know that the lease it deletes is its own. `LiveLeases` needs the
clock as well: a lease is never older than its exchange, and an exchange ends at the client
timeout, before the watchdog looks. `CapacityContract` combines them: while ids are distinct
no more exchanges run at once than the capacity. The types (`TypeCorrect`) are proved and not
checked again by the run.

`PoolRefines` says the same of every step: while ids are distinct, the pool implements
`AdmissionService` with one pool. A compare-and-swap that succeeds is an `Admit`, a full pool is a
`Refuse`, the end of an exchange is an `Answer`, and a decrement is a `Leave`, of the handler that
makes it or of the one whose lease the watchdog took; everything else stutters. That there is room
when the swap succeeds follows from `OwedInv`, since holders are no more than slots outstanding
(`HoldersWithin`: distinct ids inject those with a lease into the map and the watchdog's list). That
the watchdog gives back only slots of requests that were answered, and each once, needs
`ReapedInv`: a reaped lease is in no map again, and is that of a handler that has answered. The
premise is in the next state (`UniqueIDs'`); ids never change, so ids that are distinct after a
step have been distinct all along (`UniqueBefore`).

### RouterPartsProofs: HealthWorker

The invariant says which counter is the length of the run of equal answers at the end of
the history, and what the other one can be. The flag then follows, whatever the thresholds.

### RouterPartsProofs: RouteDecision

Assumed: tables are finite and no two entries of one share an id, being the keys of a
map; percentage and lengths are natural numbers, and everything stays far below the word size,
which is not modelled.

A decision is one step, so its invariant says only where the walk comes from; the work is in
the stable sort of `ListsProofs`: the walk holds what was kept, and for its comparison, which
never ties, "earlier" is "before". `ReserveIsBoth` is the
arithmetic of the rounded percentage: the larger reserve fits exactly when both do.

### RouterProofs: RouterCore

Assumed: finitely many requests, natural ranks and capacities. `Shapes` says that what a
handler, a pass or an action remembers names an entry of a table that was built.
`Slots` has `SlotsFollowRequests` and two companions without which it is not
inductive: a request with a slot knows whose it is (`Selected`), and its answer
matches its place (`Answered`). The candidate a walk takes is one of the set by
well-foundedness of the ranks. For the refinement a request is mapped to the slot it
holds, and each of `BadBody`, `Reject`, a successful `Reserve`, `Connect`, `ConnectFail`,
`Release` and `Reap` is one step of `AdmissionService`; everything else stutters.

### RouterProofs: RouterAudit

Assumed: what the proofs about `RouterCore` assume, whose invariant these start from. A history
variable constrains nothing, so an audited behaviour is one of the router's (`AuditSpec`
implies `Spec`), and what is left is that the history is what the flags were.

`AuditRefusals` and `AuditOrder` share an invariant. While a request filters, an endpoint that has been
steady is still to be looked at, is the one being looked at, or has been kept (`Covered`). A filter that
reads three flags one by one could lose it in between; it does not, because an endpoint leaves
`steady` in the very step that makes any of its flags read wrong or fills its pool. After the
filter the walk takes the first of its candidates, and a candidate is dropped only when its
pool was full, so when it was not steady.

`AuditGates` needs that a closed gate has its flag written, and that of all the admin requests under
way, however many, none is about to open it (`Gates`): an opening takes the gate out of `closed` from its
lookup to the step after its write, so a write that comes late finds nothing to undo
(`ClosedNotOpening`, `GatesLookup`, `GatesWrite`). And it needs that a gate closed before a request
came is not among its candidates, and, when it is a disable, not even the endpoint it has begun to
read (`Kept`): `Enabled` is the flag that is read first.

### DeckBrokerProofs

Assumed: at least one key, a lease of at least one sweep, and that the dark key is no launch. The
operators of `SlotRegistry` are taken first, outside the steps (`TouchedIs` to `AgedIs`): what each
changes, whom it moves, and that a key that changes hands gets a later generation.

`IInv` holds without any premise. It is the types; that a launch a POST registers is private to
its thread until it has claimed (`RegisteringIsPrivate`), because nothing knows of a
launch that is not born (`UnbornIsUnknown`); and `LaunchesAreHeard`: by the time the main loop sweeps,
it has refreshed each launch the adapter has. From it follows `DeckKeepsKeys`: a sweep or a detach
never takes the key of such a launch, so only a write that follows an earlier search does
(`LaunchesKeepKeys`), and that is as true of a PUT and of the refresh as of a POST.

A registry that is `Tidy` records each occupant with its key. That is not inductive by itself:
a snapshot of a launch that was deleted registers it again, and the key found before is then
taken without another look. `TakesAreFree` says that a launch about to take a key has none, and no
other thread may give it one in between. This is where two registrations of one launch at once break
it, so `Tidied`, which joins the two, is inductive only as long as `RegisteredOnce` holds.
`DeckKeys` and `DeckRefines` have that as a premise, `[]RegisteredOnce`, and it is a premise that states
satisfy: all those with one REST thread, and with more threads all in which no DELETE of a launch overlaps
with two of its snapshots. `DeckRefines` takes the occupants as the holders; the race of
launches for one key shows only in `slotOf`, which the abstract specification does not have.

### AgentDeckProofs

Assumed: at least one key, `MaxSeq` a natural number, and that the dark key and the absent bridge
are no launch and no bridge. The registry is one value that a locked method replaces, so the work is in
its operators. A registry is `Sound` when it is tidy (records and keys name each other), its
waiting launches are the last of the order (`InTurn`), none waits while a key is dark
(`NoneWaits`), and the bridge that speaks for a launch is none of those replaced (`OneVoice`). The
first three are what `NoKeyWasted` needs beside an order without repetition: a launch that is on it
twice would be promoted twice. The fourth is for the reports.

`Removed` promotes by a recursive function over the order, and `Swept` removes by another. The
library's induction theorems are out of reach (see below), so both are shown to exist and to keep a
relation on every prefix by way of the shortest prefix that would be a counterexample, which natural
numbers have (`LeastNat`). What is shown of each prefix is that keys only change hands under a later
generation (`Follows`), that records only leave (`Shrinks`), and that reports of those who
stay stay as they are (`Passes`); a report that is taken goes forward (`SnapshotKeeps`).
`ReportsNeverGoBack` and `ImplementsSlotAssignment` then follow step by step, and a crash or a stop,
which empties the registry and begins the generations anew, is the abstract `Restart`.

`PressesMeanThePicture` needs what three threads know of a key: the registry its holder, the device
thread the views it has taken and not yet presented, the device the picture. A view that names the
present turn of its key names its present holder (`Timely`); what is presented is what is pictured, or the
key has changed hands since (`KeyHolds`); a view that waits to be drawn is not earlier than the one
presented (`DrawHolds`); and a press holds whom it showed, or the past (`PressHolds`), in which case
`Resolves` refuses it. The generations only grow while the broker runs, so the past stays past, and
when it ends the views and the presses are gone with them.

### LegacyRouterProofs

Assumed: finitely many requests, positive capacities. The two properties support each other: a backend
is within its capacity because `Available` counts what is in flight, and that count is right
because nothing else writes it. Inductive strengthening: a probe that ends moves only a
request that waits for it (`ProbesFirst`), a slot belongs to a backend, and the loads
that a probe stores are natural numbers, so an outdated load can make the router refuse and
never makes it exceed. A request that ends finds every counter above zero, because it is counted
itself; that is why the guards against negative counters never bite.

### BenchRunProofs

Assumed: finite sets of positive context lengths, output lengths and concurrencies for the plans,
natural caps, at least one sample and a backlog of at least one. First the planner: every plan and
every refinement is a sequence of cells of the expected kind (`LightPlanType`,
`HeavyPlanType` and the lemmas of the refinements), among them what stringing sequences together
gives, by shortest counterexample as above.

`RunInv` follows the loop: the cell at hand is not measured yet, its measurement has the number of the
attempt, and the sampler's task is over before its readings are looked at (`Sampled`), whether it
ended by itself or was given up while it was asking. That is `SeriesStaysComplete`.

`LoadInv` counts what a generator has issued, sent, under way and ended. For a closed loop, a client
leaves only when all is issued, so fewer clients than planned mean that nothing is left; for an
open one, what is started and not ended stays within the backlog. That every cold prompt is sent once is
arithmetic: the seeds of two requests differ, although a seed mixes repetition and variant and wraps
around at 2^31 - 1, as 104730 and that prime have no common factor. `LoadStaysAsPlanned` therefore has
two premises: the hash of a cell is an integer (`HashIsInteger`), and a cell has fewer requests than there
are seeds (`EnoughSeeds`), three times the samples being the most a cell can ask for. Without the second the
statement is false of the code, which would repeat its prompts after 2^31 - 1 requests.

`FilesInv` says, for each place of the loop, which files of a measurement exist already: raw before telemetry,
both before state.json is replaced, the report's files before run_result.json and that before the state is
finished; the attempts number the measurements, so no two share a file. Once the process is gone, what
remains is `FilesAgree` itself.

### BenchResultsProofs: BenchCell

Assumed: a server shows only metrics of engines that have an adapter; what nvidia-smi prints on a
machine is of that machine; a line has at most one usage object and tells its kind; lengths are
natural numbers, a cell has at least one client and `MinSamples` is positive; and "true" is no
numeral. None of them bounds how many lines or requests there are, or what a server answers.

`StreamAddsUp` is about the last request only, and nothing in it is inductive. `RequestInv` says
what the running variables of a stream are at any time of the lines received so far: the first
bytes are those of the earliest chunk; the first and the last delta, and the gaps between, are
those of the places of the deltas in the wire; tokens are counted from the deltas up to the last
usage object and from that object itself (`ChunkGives`, one lemma for each part of the bookkeeping).
Ending a stream makes a request of it (`AnswerGives`).

`VerdictIsHonest` needs `RequestInv`, since what is measured is measured of requests. A request is
counted as completed or as failed, so the counts add up (`Apart`); a percentile is a point between two
neighbours of the sorted list, and the points are in the order of their shares (`PercentileOf`,
`InOrder`). What `Evaluate` says is then a matter of cases on the counts.

`EngineInv` and `HostInv` say of each value that is stored which server, command line or machine it
came from, and the rest is what detection, configuration and inspection return for any of them.
`HostHolds` is about GPUs and their readings only, which the inspector and the sampler
find by two ways of their own; the rest of the inspection is not of one machine (`BenchCell_host`).
Whatever the order of its options, a configuration holds no value that the command line does not say
(`IsSaid`, `ContextIsSaid`).

### BenchResultsProofs: BenchSite

Assumed: names of configurations can be compared, and the rates of a cell have a positive denominator.

`SiteInv` says that the site is empty or made of the first `n` runs on disk, and that those runs are as
they were then: only the last entry of the directory is ever replaced, and while a run is under way the
site was made without it. So it is enough to look at a site at the moment it is made, from any directory.

There a card shows the greatest peak of the runs it counts. A greatest exists because comparing
rates by cross-multiplication is transitive and irreflexive for positive denominators
(`AboveIsOrder`), and a finite set has an element with nothing above it (`SomeIsGreatest`). The run that
has it ended, because only a run that ended has a result, and its badge is the card's; the row
that was measured with it is one of the cells the report pooled, which are the valid ones
unless there are none, and then the run is INVALID (`ResultHolds`, `BestHolds`). The history has an entry for
the first run of each configuration, so it names each once (`EachConfigOnce`) and
agrees with the cards (`CardsMatchHistory`).

### Only model-checked

Liveness, everywhere: it rests on fairness, and so on ENABLED. That the router's parts are the right
abstraction for `RouterCore` beyond what both promise of their slots is an argument (section 2), as is
everything the models leave out (section 7). `CapacityPool`'s theorems that name `UniqueIDs` say nothing
of colliding ids, which are possible; `Bounds` does.

## 5. Plain disagreements

Found while the modules were written. Each is what the code
does against what it, or a text beside it, says; unless a run is named, none has it as its subject.

Router. Lease ids may collide, and then a slot leaks (`proxy.go:309`; `pool.go:3` promises
exactly once). After a table swap the old pool's requests do not count against the new one
(`worker.go:80`), and the swap makes a failing endpoint healthy again and forgets a drain
(`table.go:64`; the drain is `Router_drain`). There is no second attempt when the upstream refuses (`proxy.go:151`, comment at
116). Images of the Responses API are not seen (`classify.go:98`). A refusal says
CAPACITY_FULL whatever stopped the request (`proxy.go:90`). `fetchManifest` reads into a slice of
length zero (`worker.go:159`). `Defaults` runs after `applyEnv` (`config.go:220`). `Select`
documents a tie break by id (`classify.go:143`, 210) and has none; only a test calls it, and the
proxy's own sort has the tie break (`WalkIgnoresMapOrder`).

Legacy router. `available` subtracts the requests in flight twice once the backend
reports them. A request without a backend is answered 500 where the header of the file
says 503 (`router.py:17`). The vision pin falls back to text backends (lines 43-44 say never). A failed connection
leaks its slot, and its session then never expires.

OpenDeck. The race of `DeckBroker_evict` needs no second REST thread: a refresh that
registers a launch of its copy again races with one thread in the same way. Two registrations of one
launch race as well (`registry.py:123`). A DELETE comes between the lookup of a PUT and its
`accept_snapshot`, and between the liveness probe of the refresh and its own; the refresh registers
the launch again and finds a key; a second DELETE and a new launch that is given that key
later, the PUT registers it again and finds none. The refresh takes its key and the PUT notes an
overflow: the key is held by a launch on record without it, and neither a DELETE nor the lease frees
it. TLC finds this as a violation of `KeysAreBacked` with two elements in `Worker`, one key, two
launches and five calls. An overflow launch is not promoted when a key becomes free. A
cache entry is written before the upload succeeds. A snapshot answered 409 has already been
applied. `focus_instance` may meet an instance that is gone (`broker.py:202`). The lock file survives a
crash on POSIX, and `is_connected` is never reset. In OpenCode Deck, a key whose state and label do not
change is not drawn again when animations are off, so its generation stays old
and presses on it are refused for ever: `DeckTellsTruth` fails there. A delayed registration
of a bridge that was never seen retires the current one.

llmbench, measuring. The pattern of the metrics parser skips every `vllm:*` name and the other
engines fall back to vLLM's names, so the cross-check never fires; if it did, it would compare a sum with
a mean. The ninth GPU field is the fan, so a spinning fan is a throttle event. A usage object in the
same chunk as text counts a token more. A stream that was cut is ok and may be VALID; a line that is JSON
and no object loses its request. Fewer than `MinSamples` requests of which half
failed are VALID. The error rate of HTTP leaves out three of its classes. `max` in an error body means
context overflow. The budget is not looked at within a cell; a failing cell is tried until the budget ends,
with prompts that its server has then seen. Extra repetitions are never added to a closed-loop
cell, because its key does not name the repetition. Prompts are called
reproducible and depend on a hash that is new in each process.

llmbench, the host. The inspection's query of nvidia-smi lacks a space before `--format`, so it is
refused and a GPU is known only from lspci (`host.py:124`). If it were answered, the highest clocks, the power
limit and ECC would each be taken from a column one or two off (`host.py:167`), and the compute
capability would not be found in "(8, 9)". Over ssh the CPU's model is lost with the quotes of its pattern, and
the sizes of memory are always the client's, the kernel and the architecture when the host does not tell them
(`main.py:129` says hardware is the actual deployment host's). hardware.json calls that host gpu-host-02 and
everything else gpu-host-01 (`BenchCell_host` has these last three). Whether the host has nvidia-smi is asked and the answer is not looked at
(`gpu.py:97`), so a cell can name a source without a reading.

llmbench, reporting. A crashed run appears with the badge VALID, and when both peaks are zero it can hide a
finished one. A lower time to first token is shown as a decline. The curve of a
concurrency is that of its last cell. metrics.csv is written in place (`report.py:75`) where the other files
are renamed, and no directory is synced after a rename, so after a power failure a file may be missing
that a later one names. The VRAM maximum is a mean. The configuration of a remote target
may be that of a local process, and a flag given as `--key=value` is not read. The identity of
a configuration covers all arguments and the environment, although its docstring says otherwise.

## 6. Plan

Done: the router, both decks, the legacy router and llmbench from the plan of a cell to the
site, in this order; a proof of every safety property that a run checks, and of the four refinements.

Next, in this order:

1. The OpenDeck broker's reconnection and event stream; the bridges' busy and dirty flags.
2. The router's shutdown, which cuts the exchanges that outlast it.

## 7. Not modelled

- Router configuration and telemetry: the first yields the constants of the models, the second is
  read back by nobody. Graceful shutdown: what it cuts is answered by nobody, and the process
  keeps nothing.
- OpenDeck's single-instance lock, reconnection and virtual-deck event stream; drawing, fonts, configuration
  and command-line tools; `focus_instance`. The first only decides whether the process starts,
  and reconnection is not reached on the device in use.
- The Stream Deck plugin: a user interface in JavaScript that shares nothing with the other parts. Two
  slips met while reading it: the second page of its menu is indexed from another start
  (`plugin.js:263`), and a reconnect may open two sockets (`plugin.js:389`).
- llmbench's scoring, which is called by nothing, and the rewriting of texts by its sanitizer. Layout of
  reports and pages.
- The deployment: compose files, dashboards, harness and scripts are configuration and have no state of
  their own.
- Switches of Python threads inside a method that does not leave the interpreter: of those only the one
  inside `register`, between its search and its write, is modelled.
- llmbench on a machine that crashes: `FilesAgree` is about a process that does.
- The router's `Select`, which only `routing_test.go` calls.
- Texts, JSON syntax, HTTP headers and rounding, except where a property depends on them.
