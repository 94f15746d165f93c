----------------------------- MODULE AgentDeck ------------------------------
(***************************************************************************)
(* OpenCode Deck: the broker process (its REST handlers, its loop of sweep *)
(* and presses, its device thread, the reader thread of the device), the   *)
(* worker process of each launch, and the bridges inside OpenCode.         *)
(*                                                                         *)
(* Every handler is one step, for the registry's lock is held throughout;  *)
(* `net' holds the registrations and removals that were sent and not       *)
(* handled: handlers run in threads, and a client that gives up leaves its *)
(* request behind.  All launches have the same label.  A worker process    *)
(* stands for its window, and `shown' keeps whose view was last drawn.     *)
(***************************************************************************)
EXTENDS AgentRegistry

CONSTANTS Reporting,     \* launches whose bridges report
          Statuses,      \* what a report may say, or something else
          QueueSize,     \* bound of the press queue (64 in the code)
          MaxFaults      \* bound: ends of the broker process and device failures

ASSUME ReportingAssumption == Reporting \subseteq Instance

VARIABLES reg,           \* the Registry
          up,            \* the broker process runs
          worker,        \* worker[i]: "new", "runs", "ended" (DELETE sent) or "gone"
          net,           \* registrations and removals in flight
          dev,           \* the device thread
          presented,     \* presented[s]: the view last drawn on key s, which a press captures
          shown,         \* shown[s]: the launch pictured on key s
          presses,       \* the press queue
          budget         \* what is left of MaxFaults

device == <<dev, presented, shown>>
vars == <<reg, up, worker, net, device, presses, budget>>

NoView == [inst |-> NoInstance, generation |-> 0, state |-> "none"]
NoViews == [s \in Slot |-> NoView]
Off == [s \in Slot |-> NoInstance]
Puts == [producer : Producer, seq : 0 .. MaxSeq, status : Statuses]

\* The device thread between two connections.
Closed == [pc |-> "closed", todo |-> {}, views |-> NoViews]

Init ==
    /\ reg = EmptyRegistry
    /\ up = TRUE
    /\ worker = [i \in Instance |-> "new"]
    /\ net = {}
    /\ dev = Closed
    /\ presented = NoViews
    /\ shown = Off
    /\ presses = <<>>
    /\ budget = MaxFaults

Dead == {i \in Instance : worker[i] \in {"new", "gone"}}
-----------------------------------------------------------------------------
(* The clients *)

\* A request reaches the broker only while its discovery file tells the port.
Sent(m) == net' = IF up THEN net \cup {m} ELSE net

Register(i) == [kind |-> "register", inst |-> i]
Delete(i) == [kind |-> "delete", inst |-> i]

\* ocdeck launch: the worker writes its binding and starts OpenCode.  Which uuid
\* a launch gets makes no difference.
Launch(i) ==
    /\ worker[i] = "new"
    /\ i = CHOOSE j \in Instance : worker[j] = "new"
    /\ worker' = [worker EXCEPT ![i] = "runs"]
    /\ UNCHANGED <<reg, up, net, device, presses, budget>>

\* The registration that the worker repeats each half second and the bridge
\* before each of its reports; two of the same launch in flight are one.
Beat(i) ==
    /\ worker[i] = "runs"
    /\ Sent(Register(i))
    /\ UNCHANGED <<reg, up, worker, device, presses, budget>>

\* OpenCode has ended: the worker says so, in its finally clause.
End(i) ==
    /\ worker[i] = "runs"
    /\ Sent(Delete(i))
    /\ worker' = [worker EXCEPT ![i] = "ended"]
    /\ UNCHANGED <<reg, up, device, presses, budget>>

\* It got its answer or waited two seconds for it.  A worker that is killed
\* has said nothing.
Exit(i) ==
    /\ worker[i] = "ended"
    /\ worker' = [worker EXCEPT ![i] = "gone"]
    /\ UNCHANGED <<reg, up, net, device, presses, budget>>

Kill(i) ==
    /\ worker[i] = "runs"
    /\ worker' = [worker EXCEPT ![i] = "gone"]
    /\ UNCHANGED <<reg, up, net, device, presses, budget>>
-----------------------------------------------------------------------------
(* The REST handlers *)

Dispatch(m) ==
    /\ up
    /\ m \in net
    /\ net' = net \ {m}
    /\ UNCHANGED <<up, worker, device, presses, budget>>

\* POST register: refused with 400 unless the process is alive.
HandleRegister(m) ==
    /\ m.kind = "register"
    /\ Dispatch(m)
    /\ reg' = IF m.inst \in Dead /\ m.inst \notin Records(reg) THEN reg ELSE Upserted(reg, m.inst)

HandleDelete(m) ==
    /\ m.kind = "delete"
    /\ Dispatch(m)
    /\ reg' = Removed(reg, m.inst)

\* The bridges heard of for a launch, and one more: which producer id that one
\* made for itself makes no difference.  Bound: a bridge after n others has n
\* sequence numbers less.
Heard(i) == reg.report[i].retired \cup {reg.report[i].producer}
Unheard(i) == Producer \ Heard(i)
Speaks(i, m) ==
    /\ m.producer \in Unheard(i) => m.producer = CHOOSE q \in Unheard(i) : TRUE
    /\ m.seq + Cardinality(Heard(i) \ {NoProducer, m.producer}) =< MaxSeq

\* PUT: 404 when the launch is not registered, 400 when the report is not
\* valid.  A bridge numbers its reports, a plugin that is loaded again has a new
\* bridge, and a report may be lost or late: any of them may be the next one
\* handled.
HandlePut(i, m) ==
    /\ up
    /\ i \in Records(reg)
    /\ Speaks(i, m)
    /\ reg' = [reg EXCEPT !.report[i] = Snapshot(@, m)]
    /\ UNCHANGED <<up, worker, net, device, presses, budget>>
-----------------------------------------------------------------------------
(* The broker's loop *)

Sweep ==
    /\ up
    /\ Records(reg) \cap Dead # {}
    /\ UNCHANGED <<up, worker, net, device, presses, budget>>
    /\ reg' = Swept(reg, Dead)

\* The launch whose window a press brings to the front; a second press of it
\* within 0.2 s does nothing.
Focused(p) ==
    IF Resolves(reg, p.slot, p) /\ p.inst \notin Dead THEN p.inst ELSE NoInstance

\* A press is served: nothing that the broker keeps depends on it.
HandlePress ==
    /\ up
    /\ presses # <<>>
    /\ presses' = Tail(presses)
    /\ UNCHANGED <<reg, up, worker, net, device, budget>>
-----------------------------------------------------------------------------
(* The device thread and the reader thread of the device *)

\* A connection begins with black keys and an empty cache.
Open ==
    /\ up
    /\ dev.pc = "closed"
    /\ dev' = [Closed EXCEPT !.pc = "view"]
    /\ shown' = Off
    /\ UNCHANGED <<reg, up, worker, net, presented, presses, budget>>

\* With nothing to show, key 0 says that the broker is ready.
Wanted == IF Dark(reg) = Slot THEN [View(reg) EXCEPT ![0].state = "ready"] ELSE View(reg)

\* Mutant of ToDraw: the animation does not move.
ToDrawStill(moved) == {s \in Slot : Wanted[s].state # presented[s].state}

\* A key is drawn when its state is not the one drawn last, or is not dark and
\* the animation has moved; to draw the same view again changes nothing.
ToDraw(moved) ==
    {s \in Slot : /\ Wanted[s] # presented[s]
                  /\ Wanted[s].state # presented[s].state \/ (moved /\ Wanted[s].state # "off")}

TakeView(moved) ==
    /\ up
    /\ dev.pc = "view"
    /\ ToDraw(moved) # {}
    /\ dev' = [pc |-> "draw", todo |-> ToDraw(moved), views |-> Wanted]
    /\ UNCHANGED <<reg, up, worker, net, presented, shown, presses, budget>>

Draw ==
    /\ up
    /\ dev.pc = "draw"
    /\ shown' = [shown EXCEPT ![Min(dev.todo)] = dev.views[Min(dev.todo)].inst]
    /\ dev' = [dev EXCEPT !.pc = "present"]
    /\ UNCHANGED <<reg, up, worker, net, presented, presses, budget>>

\* From now on a press means this picture.
Present ==
    /\ up
    /\ dev.pc = "present"
    /\ LET s == Min(dev.todo)
       IN /\ presented' = [presented EXCEPT ![s] = dev.views[s]]
          /\ dev' = IF dev.todo = {s} THEN [Closed EXCEPT !.pc = "view"]
                    ELSE [dev EXCEPT !.pc = "draw", !.todo = @ \ {s}]
    /\ UNCHANGED <<reg, up, worker, net, shown, presses, budget>>

\* The device is gone or refuses a picture: presses mean nothing any more.
Fail ==
    /\ up
    /\ dev.pc # "closed"
    /\ budget > 0
    /\ budget' = budget - 1
    /\ dev' = Closed
    /\ presented' = NoViews
    /\ UNCHANGED <<reg, up, worker, net, shown, presses>>

\* Mutant of Captured: the press means whoever holds the key now.
CapturedNow(s) == View(reg)[s]

Captured(s) == presented[s]

\* The reader thread; a full queue drops the press, and one that captures no
\* launch is refused when its turn comes.
Press(s) ==
    /\ up
    /\ dev.pc # "closed"
    /\ Captured(s).inst # NoInstance
    /\ Len(presses) < QueueSize
    /\ presses' = Append(presses, [slot |-> s, inst |-> Captured(s).inst,
                                  generation |-> Captured(s).generation, shown |-> shown[s]])
    /\ UNCHANGED <<reg, up, worker, net, device, budget>>
-----------------------------------------------------------------------------
(* The process *)

Ended ==
    /\ up
    /\ budget > 0
    /\ budget' = budget - 1
    /\ up' = FALSE
    /\ reg' = EmptyRegistry
    /\ net' = {}
    /\ dev' = Closed
    /\ presented' = NoViews
    /\ presses' = <<>>
    /\ UNCHANGED <<worker>>

\* A crash leaves the pictures on the keys, POST stop turns them black.
Crash == Ended /\ UNCHANGED shown
Stop == Ended /\ shown' = Off

\* The scheduled task.
Restart ==
    /\ ~up
    /\ up' = TRUE
    /\ UNCHANGED <<reg, worker, net, device, presses, budget>>
-----------------------------------------------------------------------------
Client(i) ==
    \/ Launch(i) \/ Beat(i) \/ End(i) \/ Exit(i) \/ Kill(i)

Handle(m) == HandleRegister(m) \/ HandleDelete(m)
Thread == Open \/ Draw \/ Present

Next ==
    \/ \E i \in Instance : Client(i)
    \/ \E m \in net : Handle(m)
    \/ Sweep \/ HandlePress
    \/ \E i \in Reporting, m \in Puts : HandlePut(i, m)
    \/ Thread \/ Fail
    \/ \E moved \in BOOLEAN : TakeView(moved)
    \/ \E s \in Slot : Press(s)
    \/ Crash \/ Stop \/ Restart

Spec == Init /\ [][Next]_vars

\* The loops of the code: a worker registers again and exits once OpenCode has
\* ended, requests are handled, the sweep and the device thread go round while
\* the animation moves (it is on by default), and the scheduled task starts a
\* broker that ended.
Fairness ==
    /\ \A i \in Instance : WF_vars(Beat(i) \/ Exit(i))
    /\ \A i \in Instance : WF_vars(Handle(Register(i)) \/ Handle(Delete(i)))
    /\ WF_vars(Sweep)
    /\ WF_vars(Thread)
    /\ SF_vars(TakeView(TRUE))
    /\ WF_vars(Restart)

FairSpec == Spec /\ Fairness
-----------------------------------------------------------------------------
(* Properties *)

\* The registry keeps its type; the records and the slots tell the same story;
\* no agent waits without a key
\* while a key is dark, and none takes a key before one that registered earlier
\* and waits (model.py remove promotes the overflow agents in their order).
NoKeyWasted ==
    /\ reg \in Registry
    /\ \A i \in Instance, s \in Slot : reg.slots[s] = i <=> i \in Records(reg) /\ reg.slot[i] = s
    /\ (\E i \in Records(reg) : reg.slot[i] = NoSlot) => Dark(reg) = {}
    /\ \A n, m \in 1 .. Len(reg.order) :
          n < m /\ reg.slot[reg.order[n]] = NoSlot => reg.slot[reg.order[m]] = NoSlot

\* A press focuses the launch that was pictured on the key when it was pressed,
\* and only while that launch still holds the key (device.py press, model.py
\* resolve), whatever the device thread had drawn and not yet presented.
PressFocusesPictured ==
    \A n \in 1 .. Len(presses) : Focused(presses[n]) \in {NoInstance, presses[n].shown}

\* While a launch stays registered, the reports shown of it only go forward: a
\* bridge that was replaced never speaks again, and the numbers of one bridge
\* only grow (model.py snapshot).
ReportsOnlyGoForward ==
    [][\A i \in Records(reg) :
          i \in Records(reg') =>
            LET p == reg.report[i]
                q == reg'.report[i]
            IN /\ p.retired \cup ({p.producer} \ {q.producer, NoProducer}) \subseteq q.retired
               /\ q.producer \notin q.retired
               /\ q.producer = p.producer => q.seq >= p.seq]_vars

\* Slots are never shared or moved, and change hands with a new generation.
Assignment == INSTANCE SlotAssignment WITH holder <- reg.slots, turn <- reg.generations
ImplementsAssignment == Assignment!Spec

\* Again and again the deck tells the truth, whatever happened to the broker,
\* the device and the requests: every launch that runs is registered, and on
\* its key unless it waits for one, and no key shows a launch that is gone.
DeckTellsTruth ==
    []<>(\A i \in Instance :
            /\ worker[i] = "runs" =>
                 /\ i \in Records(reg)
                 /\ reg.slot[i] # NoSlot => shown[reg.slot[i]] = i
            /\ worker[i] = "gone" => \A s \in Slot : shown[s] # i)
=============================================================================
