----------------------------- MODULE DeckBroker -----------------------------
(***************************************************************************)
(* The OpenDeck broker process: the loop of main.run (poll, refresh, sweep,*)
(* render, presses, sleep), the threads of the REST server, the reader     *)
(* thread of the device, and the registry, the launches and the render     *)
(* cache they share.  Only the uploads are under a lock.                   *)
(*                                                                         *)
(* A step ends where the code leaves the interpreter (the process probe,   *)
(* the database, the device, a window call), takes the render lock, or has *)
(* found in register the slot it then takes.  The launches share one       *)
(* directory, so one session state `db' serves all.  Of the sequence       *)
(* numbers only their order matters: `numbers' are the REST threads that   *)
(* hold one, in the order they took them, and `stale' those among them     *)
(* whose number is no newer than what _producer has for the instance.      *)
(***************************************************************************)
EXTENDS SlotRegistry, Sequences, SequencesExt

CONSTANTS Worker,        \* threads of the REST server
          Unseen,        \* launches whose exit is_alive cannot see
          MaxCalls,      \* bound: REST calls
          MaxEvents,     \* bound: changes of the session database, uploads the
                         \* device refuses and key presses, together
          Sessions       \* what the database may say of the directory

ASSUME UnseenAssumption == Unseen \subseteq Instance
ASSUME SessionsAssumption ==
    Sessions \subseteq {"idle", "busy", "asks", "unreadable"} /\ "idle" \in Sessions

VARIABLES reg,           \* the Registry
          facts,         \* facts[i]: the Instance object of i
          launches,      \* adapter._launches
          numbers,       \* REST threads with a sequence number, in its order
          stale,         \* those whose number would be rejected
          proc,          \* proc[i]: "none", "running" or "exited"
          db,            \* what the observer reads for the directory
          rest,          \* rest[w]: where REST thread w is
          loop,          \* where the main loop is
          shown,         \* shown[s]: the picture on key s
          rendered,      \* _rendered
          failed,        \* keys whose last upload the device refused
          presses,       \* _press_queue
          foreground,    \* the launch whose window is in front
          budget         \* what is left of the bounds

deck == <<shown, rendered, failed>>
ordering == <<numbers, stale>>
vars == <<reg, facts, launches, ordering, proc, db, rest, loop, deck, presses, foreground, budget>>

BlackFrame == [s \in Slot |-> Black]

Idle == [pc |-> "idle", inst |-> NoInstance, slot |-> Overflow]
At(w, pc) == rest[w].pc = pc
Go(w, pc) == rest' = [rest EXCEPT ![w] = [Idle EXCEPT !.pc = pc]]
Waiting ==
    [pc |-> "poll", todo |-> {}, cur |-> NoInstance, slot |-> Overflow, states |-> "idle"]
Loop(pc) == loop' = [loop EXCEPT !.pc = pc]

Init ==
    /\ reg = EmptyRegistry
    /\ facts = [i \in Instance |-> NewFacts]
    /\ launches = {}
    /\ numbers = <<>> /\ stale = {}
    /\ proc = [i \in Instance |-> "none"]
    /\ db = "idle"
    /\ rest = [w \in Worker |-> Idle]
    /\ loop = [Waiting EXCEPT !.pc = "start"]
    /\ shown = [s \in Slot |-> [appearance |-> "off", label |-> NoInstance]]
    /\ rendered = shown
    /\ failed = {}
    /\ presses = <<>>
    /\ foreground = NoInstance
    /\ budget = [calls |-> MaxCalls, events |-> MaxEvents]
-----------------------------------------------------------------------------
(* Uploads *)

\* Mutant of Upload: a key that has the right colour is skipped.
UploadByColour(frame) ==
    LET changed == {s \in Slot : frame[s].appearance # rendered[s].appearance}
    IN /\ shown' = [s \in Slot |-> IF s \in changed THEN frame[s] ELSE shown[s]]
       /\ rendered' = [s \in Slot |-> IF s \in changed THEN frame[s] ELSE rendered[s]]
       /\ UNCHANGED <<failed, budget>>

\* Under _render_lock: the frame is made and _upload called for every key.  A
\* key whose picture is the cached one is skipped, and the cache is written
\* before the device has answered.  What others do to the registry while the
\* uploads run they do after this step: only renders touch the keys.
Upload(frame) ==
    LET changed == {s \in Slot : frame[s] # rendered[s]}
    IN \E refused \in SUBSET changed :
         /\ Cardinality(refused) <= budget.events
         /\ budget' = [budget EXCEPT !.events = @ - Cardinality(refused)]
         /\ shown' = [s \in Slot |-> IF s \in changed \ refused THEN frame[s] ELSE shown[s]]
         /\ rendered' = frame
         /\ failed' = (failed \ changed) \cup refused

Render == Upload(Frame(reg, facts))
-----------------------------------------------------------------------------
(* REST calls *)

Call(w) ==
    /\ At(w, "idle")
    /\ loop.pc \notin {"start", "stopped"}
    /\ budget.calls > 0
    /\ budget' = [budget EXCEPT !.calls = @ - 1]

\* The uuid of a new launch: which one it is makes no difference.
Unborn == {i \in Instance : proc[i] = "none"}
Fresh == CHOOSE i \in Unborn : TRUE

\* POST register, up to the end of the search for a free slot.
Register(w, i) ==
    /\ Call(w)
    /\ Unborn # {}
    /\ i = Fresh
    /\ proc' = [proc EXCEPT ![i] = "running"]
    /\ reg' = Recorded(reg, i)
    /\ rest' = [rest EXCEPT ![w] = [pc |-> "claim", inst |-> i, slot |-> Choice(reg)]]
    /\ UNCHANGED <<facts, launches, ordering, db, loop, deck, presses, foreground>>

\* The slot found is taken, and the adapter notes the launch.
Claim(w) ==
    /\ At(w, "claim")
    /\ reg' = Claimed(reg, rest[w].inst, rest[w].slot)
    /\ launches' = launches \cup {rest[w].inst}
    /\ Go(w, "render")
    /\ UNCHANGED <<facts, ordering, proc, db, loop, deck, presses, foreground, budget>>

Registering == {i \in Instance : \E w \in Worker : At(w, "claim") /\ rest[w].inst = i}
Registrable == {i \in Instance : proc[i] # "none"} \ Registering

\* DELETE.
Detach(w, i) ==
    /\ Call(w)
    /\ i \in Registrable
    /\ launches' = launches \ {i}
    /\ reg' = Freed(reg, {i})
    /\ Go(w, "render")
    /\ UNCHANGED <<facts, ordering, proc, db, loop, deck, presses, foreground>>

\* POST heartbeat.
Beat(w, i) ==
    /\ Call(w)
    /\ i \in Registrable
    /\ reg' = Heartbeat(reg, i)
    /\ UNCHANGED <<facts, launches, ordering, proc, db, rest, loop, deck, presses, foreground>>

\* The REST threads that hold a number of i, and those whose number is before w's.
Of(i) == {v \in Worker : rest[v].pc \in {"accept", "take"} /\ rest[v].inst = i}
Before(w) == {v \in Of(rest[w].inst) :
                \E j, k \in DOMAIN numbers : j < k /\ numbers[j] = v /\ numbers[k] = w}

\* PUT snapshot: the launch's own Instance object is changed first, then a
\* number is taken.
Put(w, i) ==
    /\ Call(w)
    /\ i \in launches
    /\ \E p \in BOOLEAN : facts' = [facts EXCEPT ![i].status = "busy", ![i].input = p]
    /\ numbers' = Append(numbers, w)
    /\ rest' = [rest EXCEPT ![w] = [pc |-> "accept", inst |-> i, slot |-> Overflow]]
    /\ UNCHANGED <<reg, launches, stale, proc, db, loop, deck, presses, foreground>>

\* accept_snapshot of the number w took, for an instance on record: rejected
\* when it is stale, and when it is not, the numbers before it become stale.
Accept(w) ==
    /\ At(w, "accept")
    /\ rest[w].inst \in reg.known
    /\ reg' = IF w \in stale THEN reg ELSE Accepted(reg, rest[w].inst)
    /\ stale' = (IF w \in stale THEN stale ELSE stale \cup Before(w)) \ {w}
    /\ numbers' = Remove(numbers, w)
    /\ Go(w, "render")
    /\ UNCHANGED <<facts, launches, proc, db, loop, deck, presses, foreground, budget>>

\* An instance that was forgotten since is registered, whatever the number, up
\* to the end of the search.  register notes the newest number of the instance.
Reregister(w) ==
    /\ At(w, "accept")
    /\ rest[w].inst \notin reg.known
    /\ reg' = Recorded(reg, rest[w].inst)
    /\ stale' = stale \cup (Of(rest[w].inst) \ {w})
    /\ rest' = [rest EXCEPT ![w].pc = "take", ![w].slot = Choice(reg)]
    /\ UNCHANGED <<facts, launches, numbers, proc, db, loop, deck, presses, foreground, budget>>

\* The slot found is taken, and w's own number noted.
Take(w) ==
    /\ At(w, "take")
    /\ reg' = Recorded(Claimed(reg, rest[w].inst, rest[w].slot), rest[w].inst)
    /\ stale' = ((stale \ Of(rest[w].inst)) \cup Before(w)) \ {w}
    /\ numbers' = Remove(numbers, w)
    /\ Go(w, "render")
    /\ UNCHANGED <<facts, launches, proc, db, loop, deck, presses, foreground, budget>>

\* Every call that changes the registry ends with broker.render.
RestRender(w) ==
    /\ At(w, "render")
    /\ Render
    /\ Go(w, "idle")
    /\ UNCHANGED <<reg, facts, launches, ordering, proc, db, loop, presses, foreground>>
-----------------------------------------------------------------------------
(* The main loop *)

\* broker.start: a device that cannot be opened ends the process.
Start ==
    /\ loop.pc = "start"
    /\ \/ /\ Loop("poll")
          /\ Upload(BlackFrame)
       \/ /\ Loop("stopped")
          /\ UNCHANGED <<shown, rendered, failed, budget>>
    /\ UNCHANGED <<reg, facts, launches, ordering, proc, db, rest, presses, foreground>>

\* refresh reads the database, then works on a copy of the launches.
Observe ==
    /\ loop.pc = "poll"
    /\ loop' = [loop EXCEPT !.pc = "probe", !.todo = launches, !.states = db]
    /\ UNCHANGED <<reg, facts, launches, ordering, proc, db, rest, deck, presses, foreground, budget>>

IsAlive(i) == proc[i] = "running" \/ i \in Unseen

\* A launch whose process is gone is marked dead.
ProbeDead(i) ==
    /\ loop.pc = "probe"
    /\ i \in loop.todo
    /\ ~IsAlive(i)
    /\ launches' = launches \ {i}
    /\ reg' = Freed(reg, {i})
    /\ loop' = [loop EXCEPT !.todo = @ \ {i}]
    /\ UNCHANGED <<facts, ordering, proc, db, rest, deck, presses, foreground, budget>>

ProbeAlive(i) ==
    /\ loop.pc = "probe"
    /\ i \in loop.todo
    /\ IsAlive(i)
    /\ loop' = [loop EXCEPT !.pc = "apply", !.todo = @ \ {i}, !.cur = i]
    /\ UNCHANGED <<reg, facts, launches, ordering, proc, db, rest, deck, presses, foreground, budget>>

\* The session state becomes the facts of the launch probed, whether or not the
\* launch is still there; the number is the newest.
Observed(i) ==
    [status  |-> IF loop.states = "busy" THEN "busy" ELSE "idle",
     input   |-> loop.states = "asks",
     trusted |-> IF i \in reg.known THEN loop.states # "unreadable" ELSE facts[i].trusted]

Apply ==
    /\ loop.pc = "apply"
    /\ facts' = [facts EXCEPT ![loop.cur] = Observed(loop.cur)]
    /\ stale' = stale \cup Of(loop.cur)
    /\ \/ /\ loop.cur \in reg.known
          /\ reg' = Accepted(reg, loop.cur)
          /\ loop' = [loop EXCEPT !.pc = "probe", !.cur = NoInstance]
       \/ /\ loop.cur \notin reg.known
          /\ reg' = Recorded(reg, loop.cur)
          /\ loop' = [loop EXCEPT !.pc = "take", !.slot = Choice(reg)]
    /\ UNCHANGED <<launches, numbers, proc, db, rest, deck, presses, foreground, budget>>

\* The slot that refresh found for a launch that was forgotten is taken.
MainTake ==
    /\ loop.pc = "take"
    /\ reg' = Recorded(Claimed(reg, loop.cur, loop.slot), loop.cur)
    /\ stale' = stale \cup Of(loop.cur)
    /\ loop' = [loop EXCEPT !.pc = "probe", !.cur = NoInstance, !.slot = Overflow]
    /\ UNCHANGED <<facts, launches, numbers, proc, db, rest, deck, presses, foreground, budget>>

Sweep ==
    /\ loop.pc = "probe"
    /\ loop.todo = {}
    /\ reg' = Swept(reg)
    /\ loop' = [Waiting EXCEPT !.pc = "render"]
    /\ UNCHANGED <<facts, launches, ordering, proc, db, rest, deck, presses, foreground, budget>>

MainRender ==
    /\ loop.pc = "render"
    /\ Render
    /\ Loop("presses")
    /\ UNCHANGED <<reg, facts, launches, ordering, proc, db, rest, presses, foreground>>

\* What focus_marker of i's marker may leave in front: nothing changes when no
\* window or more than one carries the marker, or when Windows refuses.
FocusMarker(i) ==
    \/ /\ proc[i] = "running"
       /\ foreground' = i
    \/ UNCHANGED foreground

\* _handle_press.
HandlePress ==
    /\ loop.pc = "presses"
    /\ presses # <<>>
    /\ presses' = Tail(presses)
    /\ LET p == Head(presses)
       IN IF p.inst # NoInstance /\ ValidatePress(reg, p.inst, p.generation) /\ p.inst \in reg.known
          THEN FocusMarker(p.inst)
          ELSE UNCHANGED foreground
    /\ UNCHANGED <<reg, facts, launches, ordering, proc, db, rest, loop, deck, budget>>

\* time.sleep(tick).  A REST call takes less than the lease.
Sleep ==
    /\ loop.pc = "presses"
    /\ presses = <<>>
    /\ \A i \in Registering : reg.age[i] < Lease
    /\ reg' = Aged(reg)
    /\ Loop("poll")
    /\ UNCHANGED <<facts, launches, ordering, proc, db, rest, deck, presses, foreground, budget>>

\* The interrupt that ends the sleep: the keys are blackened and the device
\* closed, after which nothing is uploaded.
Stop ==
    /\ loop.pc = "presses"
    /\ Upload(BlackFrame)
    /\ Loop("stopped")
    /\ rest' = [w \in Worker |-> Idle]
    /\ UNCHANGED <<reg, facts, launches, ordering, proc, db, presses, foreground>>
-----------------------------------------------------------------------------
(* The reader thread and the world *)

\* on_key: the occupant and generation of the moment.
OnKey(s) ==
    /\ loop.pc \notin {"start", "stopped"}
    /\ budget.events > 0
    /\ budget' = [budget EXCEPT !.events = @ - 1]
    /\ presses' = Append(presses, [inst |-> IF reg.occupant[s] \in reg.known
                             THEN reg.occupant[s] ELSE NoInstance,
                    generation |-> reg.generation[s]])
    /\ UNCHANGED <<reg, facts, launches, ordering, proc, db, rest, loop, deck, foreground>>

Exit(i) ==
    /\ proc[i] = "running"
    /\ i \notin Registering
    /\ proc' = [proc EXCEPT ![i] = "exited"]
    /\ UNCHANGED <<reg, facts, launches, ordering, db, rest, loop, deck, presses, foreground, budget>>

SessionChanges ==
    /\ loop.pc \notin {"start", "stopped"}
    /\ budget.events > 0
    /\ budget' = [budget EXCEPT !.events = @ - 1]
    /\ db' \in Sessions \ {db}
    /\ UNCHANGED <<reg, facts, launches, ordering, proc, rest, loop, deck, presses, foreground>>

RestStep(w) == Claim(w) \/ Accept(w) \/ Reregister(w) \/ Take(w) \/ RestRender(w)

MainStep ==
    \/ Start
    \/ Observe
    \/ \E i \in Instance : ProbeDead(i) \/ ProbeAlive(i)
    \/ Apply
    \/ MainTake
    \/ Sweep
    \/ MainRender
    \/ HandlePress
    \/ Sleep

Next ==
    \/ MainStep
    \/ Stop
    \/ \E w \in Worker :
         \/ RestStep(w)
         \/ \E i \in Instance : Register(w, i) \/ Detach(w, i) \/ Beat(w, i) \/ Put(w, i)
    \/ \E s \in Slot : OnKey(s)
    \/ \E i \in Instance : Exit(i)
    \/ SessionChanges

Spec == Init /\ [][Next]_vars

\* The main loop and a REST call once begun go on; calls, presses, exits and
\* the shutdown need not happen.
FairSpec == Spec /\ WF_vars(MainStep) /\ \A w \in Worker : WF_vars(RestStep(w))
-----------------------------------------------------------------------------
(* Properties *)

\* Whoever holds a key is on record with that very key, and whoever is not on
\* record has none, so a lit key is never left behind by a detach, an exit or a
\* lease; and the registry keeps its type.
KeysAreBacked ==
    /\ reg \in Registry
    /\ \A s \in Slot : reg.occupant[s] # NoInstance =>
          /\ reg.occupant[s] \in reg.known
          /\ reg.slotOf[reg.occupant[s]] = s
    /\ \A i \in Instance \ reg.known : reg.slotOf[i] = Unassigned

\* A launch keeps its key while the adapter has it (README.md:24, "An instance
\* keeps its slot until it closes"): no lease, sign of life or detach of another
\* takes it away, only a registration whose search ended before the key was
\* given away, be it that of a POST, of a PUT or of a refresh.
Overwritten(s) ==
    \/ \E w \in Worker : rest[w].pc \in {"claim", "take"} /\ rest[w].slot = s
    \/ loop.pc = "take" /\ loop.slot = s
LaunchKeepsItsKey ==
    [][\A i \in launches \cap launches', s \in Slot :
         reg.occupant[s] = i => reg'.occupant[s] = i \/ Overwritten(s)]_vars

\* Two launches on record never share a key, so each has a button
\* (acceptance-report.md:26, "Launch six simultaneously -> six unique stable
\* assignments").
UniqueAssignments ==
    \A i, j \in reg.known : reg.slotOf[i] \in Slot /\ reg.slotOf[i] = reg.slotOf[j] => i = j

\* No two threads register the same launch again at once.  Where they do, behind
\* DELETEs, one may take a key and the other, whose search found none, note an
\* overflow: the registry then holds a key that nobody is on record with.  What
\* follows excludes it.
RegisteredOnce ==
    \A w \in Worker : At(w, "take") =>
        /\ \A v \in Worker \ {w} : At(v, "take") => rest[v].inst # rest[w].inst
        /\ loop.pc = "take" => loop.cur # rest[w].inst

\* What the registry does is what a deck broker promises.
Assignment == INSTANCE SlotAssignment WITH holder <- reg.occupant, turn <- reg.generation
ImplementsAssignment == Assignment!Spec

Stopped == loop.pc = "stopped"
OnDeck(i) == \E s \in Slot : reg.occupant[s] = i

\* A launch whose exit can be seen loses its key and does not get one back,
\* even when a refresh has registered it again behind a DELETE.
DeadGoesDark ==
    \A i \in Instance \ Unseen :
        proc[i] = "exited" ~> (Stopped \/ [](~OnDeck(i)))

\* Once nothing changes any more, every key shows its picture, except those
\* whose last upload the device refused.
DeckCatchesUp ==
    <>[](Stopped \/ \A s \in Slot : shown[s] = Picture(reg, facts, s) \/ s \in failed)
=============================================================================
