---------------------------- MODULE LegacyRouter ----------------------------
(***************************************************************************)
(* router-legacy/router.py: the asyncio router that came before the Go one.*)
(* A request probes every backend itself, then chooses one and reserves it *)
(* under the lock; a loop in the background probes as well.                *)
(*                                                                         *)
(* Tasks interleave at the awaits only, so everything between two awaits   *)
(* is one step, and no task ever waits for the lock: nothing is awaited    *)
(* while it is held.  Backends are numbered by priority.                   *)
(***************************************************************************)
EXTENDS Naturals, Sequences, FiniteSets, FiniteSetsExt

CONSTANTS Request,       \* client requests
          Session,       \* session ids
          NoSession,     \* None
          Message,       \* what clients may send, see below
          Key,           \* ROUTER_API_KEY
          Cap,           \* Cap[b]: configured active requests of backend b
          Vllm,          \* the backends of kind vllm; the others are llama
          VisionBackend, \* the backend of the vision pin, or 0
          MaxChanges     \* bound: changes of the backends' condition and load

ASSUME CapAssumption == Cap \in Seq(Nat \ {0})
ASSUME VisionAssumption == VisionBackend \in DOMAIN Cap \cup {0} /\ Vllm \subseteq DOMAIN Cap
ASSUME SessionAssumption == NoSession \notin Session
ASSUME RequestAssumption == IsFiniteSet(Request)

VARIABLES table,         \* table[b]: what the router knows of backend b
          lease,         \* sessions: the backend of a session, or 0
          old,           \* the sessions whose lease has expired
          bySession,     \* inflight_by_session
          active,        \* g_req_inflight
          req,           \* req[r]: where request r is
          look,          \* look[p]: the probe under way in task p
          cond,          \* cond[b]: the condition of backend b
          foreign,       \* foreign[b]: requests of other clients on b
          changes        \* what is left of MaxChanges

vars == <<table, lease, old, bySession, active, req, look, cond, foreign, changes>>

Backend == DOMAIN Cap
Loop == "loop"           \* the background task
Prober == Request \cup {Loop}

\* "unwell": /health fails; "blind": the load cannot be read; "down": neither
\* answers.
Condition == {"ok", "unwell", "blind", "down"}

New == [pc |-> "new", sid |-> NoSession, vision |-> FALSE, backend |-> 0]
NoLook == [at |-> 0, cond |-> "none", load |-> 0]
FirstLook == [NoLook EXCEPT !.at = 1]

-----------------------------------------------------------------------------
(* What a request says                                                     *)
(*                                                                         *)
(* A message has a path, the values of the headers that matter and a body: *)
(*   key       x-api-key, {} without it                                    *)
(*   auth      Authorization: its scheme, "Bearer", "bearer", "Basic",     *)
(*             "raw" or "none", and what follows it                        *)
(*   headers   the four session headers in their order, {} without one     *)
(*   body      the ids at its top, those of its metadata, and its objects  *)
(*             at any depth, or {} when it is no JSON object               *)

Authorized(m) ==
    \/ Key = ""
    \/ m.key = {Key}
    \/ m.auth.scheme \in {"Bearer", "raw"} /\ m.auth.token = Key
    \/ m.auth.scheme = "Basic"

\* What clients send when they have no session.
Placeholders == {"", "no-key", "test", "none", "null", "local"}

FirstOf(values) ==
    LET known == {i \in DOMAIN values : values[i] # {}}
    IN UNION {values[i] : i \in {j \in known : \A k \in known : j =< k}}

\* The session of a message: a header's, else a token that is not the key of
\* the router, else an id of the body or of its metadata.
SessionIds(m) ==
    LET headers == [i \in DOMAIN m.headers |-> m.headers[i] \ Placeholders]
        token == IF m.auth.scheme \in {"Bearer", "bearer"} /\ m.auth.token # Key
                 THEN {m.auth.token} \ Placeholders ELSE {}
        own == UNION {FirstOf(b.ids) : b \in m.body}
        meta == UNION {FirstOf(b.metadata) : b \in m.body}
    IN FirstOf(<<FirstOf(headers), token, own, meta>>)

extract_session_id(m) ==
    LET ids == SessionIds(m)
    IN IF ids = {} THEN NoSession ELSE CHOOSE id \in ids : TRUE

\* An image by its type, by that of its source, or by a field of its own.
IsImage(object) ==
    \/ object.type \in {"image", "image_url", "image_base64"}
    \/ object.source \in {"image", "image_url", "image_base64"}
    \/ object.image

body_has_image(m) == \E b \in m.body : \E object \in b.objects : IsImage(object)
-----------------------------------------------------------------------------
\* Mutant of Learned: a backend that does not answer keeps its health.
LearnedIfAnswered(t, got) ==
    [t EXCEPT !.healthy = IF got.cond = "down" THEN @ ELSE got.cond # "unwell",
              !.busy = IF got.cond \in {"ok", "unwell"} THEN got.load ELSE @]

\* What is known of a backend after a probe: the load is kept when it could not
\* be read, and an exception of any kind means unhealthy.
Learned(t, got) ==
    [t EXCEPT !.healthy = got.cond \in {"ok", "blind"},
              !.busy = IF got.cond \in {"ok", "unwell"} THEN got.load ELSE @]

\* Nothing is served before the first probe has been made.
Startup(b) ==
    Learned([healthy |-> TRUE, busy |-> 0, inflight |-> 0],
            [NoLook EXCEPT !.cond = cond[b]])

Init ==
    /\ cond \in [Backend -> {"ok", "down"}]
    /\ table = [b \in Backend |-> Startup(b)]
    /\ lease = [s \in Session |-> 0]
    /\ old = {}
    /\ bySession = [s \in Session |-> 0]
    /\ active = 0
    /\ req = [r \in Request |-> New]
    /\ look = [p \in Prober |-> IF p = Loop THEN FirstLook ELSE NoLook]
    /\ foreign = [b \in Backend |-> 0]
    /\ changes = MaxChanges

On(b, pcs) == {r \in Request : req[r].backend = b /\ req[r].pc \in pcs}

\* Requests that backend b works on.
Load(b) == foreign[b] + Cardinality(On(b, {"streams"}))
-----------------------------------------------------------------------------
(* Probing *)

\* The answers of backend b are made here and stored in the next step.  The
\* probe of a vllm stores its health as soon as /health has answered.
Ask(p) ==
    LET b == look[p].at
    IN /\ b \in Backend
       /\ look[p].cond = "none"
       /\ look' = [look EXCEPT ![p] = [at |-> b, cond |-> cond[b], load |-> Load(b)]]
       /\ table' = IF b \in Vllm /\ cond[b] # "down"
                   THEN [table EXCEPT ![b].healthy = cond[b] # "unwell"] ELSE table
       /\ UNCHANGED <<lease, old, bySession, active, req, cond, foreign, changes>>

\* The next backend is probed only now; the loop starts over after its pause.
Store(p) ==
    LET b == look[p].at
    IN /\ b \in Backend
       /\ look[p].cond # "none"
       /\ table' = [table EXCEPT ![b] = Learned(@, look[p])]
       /\ look' = [look EXCEPT ![p] =
                      IF b + 1 \in Backend THEN [NoLook EXCEPT !.at = b + 1]
                      ELSE IF p = Loop THEN FirstLook ELSE NoLook]
       /\ req' = IF p = Loop \/ b + 1 \in Backend THEN req
                 ELSE [req EXCEPT ![p] = IF @.pc = "checks" THEN [New EXCEPT !.pc = "done"]
                                         ELSE [@ EXCEPT !.pc = "select"]]
       /\ UNCHANGED <<lease, old, bySession, active, cond, foreign, changes>>
-----------------------------------------------------------------------------
(* Sessions *)

\* Mutant of Expired: a lease runs out under its requests.
ExpiredRegardless(inflight) == old

\* _cleanup_sessions: a lease that has expired is dropped, unless its session
\* has requests in flight.
Expired(inflight) == {s \in old : inflight[s] = 0}

\* SESSION_TTL_SECONDS since the last request of the session.
GrowOld(s) ==
    /\ lease[s] # 0
    /\ s \notin old
    /\ old' = old \cup {s}
    /\ UNCHANGED <<table, lease, bySession, active, req, look, cond, foreign, changes>>
-----------------------------------------------------------------------------
(* A request *)

\* /health probes as well, whoever asks.
Health(r) ==
    /\ req[r].pc = "new"
    /\ req' = [req EXCEPT ![r].pc = "checks"]
    /\ look' = [look EXCEPT ![r] = FirstLook]
    /\ UNCHANGED <<table, lease, old, bySession, active, cond, foreign, changes>>

\* The list of models is the router's own; everything else is for a backend.
Arrive(r, m) ==
    /\ req[r].pc = "new"
    /\ \/ /\ ~Authorized(m) \/ m.path = "models"
          /\ req' = [req EXCEPT ![r].pc = IF Authorized(m) THEN "done" ELSE "refused"]
          /\ UNCHANGED look
       \/ /\ Authorized(m) /\ m.path # "models"
          /\ req' = [req EXCEPT ![r] = [New EXCEPT !.pc = "probe", !.sid = extract_session_id(m),
                                           !.vision = VisionBackend # 0 /\ body_has_image(m)]]
          /\ look' = [look EXCEPT ![r] = FirstLook]
    /\ UNCHANGED <<table, lease, old, bySession, active, cond, foreign, changes>>

\* Mutant of Available: what the backend reports is taken for everything.
AvailableAtBackend(b) == table[b].busy < Cap[b]

\* Backend.available is at least 1: what the backend reports and what the
\* router has in flight there are added up.
Available(b) == table[b].busy + table[b].inflight < Cap[b]

CanUse(b) == table[b].healthy /\ Available(b)

\* The vision pin, the backend of the session, the first one by priority; each
\* gives way to the next when it cannot be used.
Choice(r, leases) ==
    LET pinned == IF req[r].vision THEN {VisionBackend} ELSE {}
        sticky == IF req[r].sid \in Session THEN {leases[req[r].sid]} ELSE {}
        usable == {b \in Backend : CanUse(b)}
    IN IF pinned \cap usable # {} THEN pinned
       ELSE IF sticky \cap usable # {} THEN sticky
       ELSE IF usable # {} THEN {Min(usable)}
       ELSE {}

\* select under the lock, and on_dispatch; a request that finds nothing is
\* answered with 500.
Select(r) ==
    LET gone == Expired(bySession)
        kept == [s \in Session |-> IF s \in gone THEN 0 ELSE lease[s]]
        sid == req[r].sid
    IN /\ req[r].pc = "select"
       /\ \/ /\ Choice(r, kept) = {}
             /\ lease' = kept
             /\ old' = old \ gone
             /\ req' = [req EXCEPT ![r] = [New EXCEPT !.pc = "refused"]]
             /\ UNCHANGED <<table, bySession, active>>
          \/ \E b \in Choice(r, kept) :
               /\ table' = [table EXCEPT ![b].inflight = @ + 1]
               /\ lease' = [s \in Session |-> IF s = sid THEN b ELSE kept[s]]
               /\ old' = old \ (gone \cup {sid})
               /\ bySession' = [s \in Session |-> bySession[s] + IF s = sid THEN 1 ELSE 0]
               /\ active' = active + 1
               /\ req' = [req EXCEPT ![r].pc = "connects", ![r].backend = b]
       /\ UNCHANGED <<look, cond, foreign, changes>>

\* The upstream answers with a status line.
Connect(r) ==
    /\ req[r].pc = "connects"
    /\ cond[req[r].backend] # "down"
    /\ req' = [req EXCEPT ![r].pc = "streams"]
    /\ UNCHANGED <<table, lease, old, bySession, active, look, cond, foreign, changes>>

\* The connection fails: the exception leaves proxy before there is a generator
\* whose finally clause would give the slot back.
ConnectFails(r) ==
    /\ req[r].pc = "connects"
    /\ cond[req[r].backend] = "down"
    /\ req' = [req EXCEPT ![r].pc = "lost"]
    /\ UNCHANGED <<table, lease, old, bySession, active, look, cond, foreign, changes>>

Freed(t, r) == IF t.inflight > 0 THEN [t EXCEPT !.inflight = @ - 1] ELSE t

\* The stream ends, well or badly, or its client leaves: release and on_finish.
Finish(r) ==
    LET b == req[r].backend
        sid == req[r].sid
        left == [s \in Session |-> IF s = sid /\ bySession[s] > 0 THEN bySession[s] - 1 ELSE bySession[s]]
        young == {s \in Session : s = sid /\ lease[s] = b}
        gone == Expired(left) \ young
    IN /\ req[r].pc = "streams"
       /\ table' = [table EXCEPT ![b] = Freed(@, r)]
       /\ bySession' = left
       /\ lease' = [s \in Session |-> IF s \in gone THEN 0 ELSE lease[s]]
       /\ old' = old \ (young \cup gone)
       /\ active' = IF active > 0 THEN active - 1 ELSE active
       /\ req' = [req EXCEPT ![r] = [New EXCEPT !.pc = "done"]]
       /\ UNCHANGED <<look, cond, foreign, changes>>
-----------------------------------------------------------------------------
(* The backends *)

Change(b) ==
    /\ changes > 0
    /\ changes' = changes - 1
    /\ \/ cond' \in {[cond EXCEPT ![b] = c] : c \in Condition} /\ UNCHANGED foreign
       \/ foreign' \in {[foreign EXCEPT ![b] = n] : n \in 0 .. 1} /\ UNCHANGED cond
    /\ UNCHANGED <<table, lease, old, bySession, active, req, look>>
-----------------------------------------------------------------------------
Task(r) == Select(r) \/ Connect(r) \/ ConnectFails(r) \/ Finish(r)

Next ==
    \/ \E p \in Prober : Ask(p) \/ Store(p)
    \/ \E r \in Request :
         \/ Health(r)
         \/ \E m \in Message : Arrive(r, m)
         \/ Task(r)
    \/ \E s \in Session : GrowOld(s)
    \/ \E b \in Backend : Change(b)

Spec == Init /\ [][Next]_vars

\* asyncio runs every task that can run, and a stream ends at the latest at
\* MAX_REQUEST_SECONDS.
FairSpec ==
    /\ Spec
    /\ \A p \in Prober : WF_vars(Ask(p) \/ Store(p))
    /\ \A r \in Request : WF_vars(Task(r))
-----------------------------------------------------------------------------
(* Properties *)

\* Requests that hold a slot: the lost ones hold theirs for ever.
Holding == {"connects", "streams", "lost"}

\* Every counter is the number of requests it stands for, with those whose
\* connection failed: no other path loses a slot or frees one twice.  And a
\* session with a request in flight keeps a lease, whoever cleans up meanwhile
\* (select, release and _cleanup_sessions).
SlotsAccounted ==
    /\ \A b \in Backend : table[b].inflight = Cardinality(On(b, Holding))
    /\ active = Cardinality({r \in Request : req[r].pc \in Holding})
    /\ \A s \in Session :
         LET mine == {r \in Request : req[r].sid = s /\ req[r].pc \in Holding}
         IN bySession[s] = Cardinality(mine) /\ (mine # {} => lease[s] # 0)

\* However old the probes are that the requests decide by, a backend never has
\* more requests of this router than it is configured for.
NeverBeyondCap == \A b \in Backend : Cardinality(On(b, Holding)) <= Cap[b]

\* Whatever overtaken probes wrote, the table again and again says what the
\* backends are like, and only lost requests still hold slots.
TableCatchesUp ==
    []<>(\A b \in Backend :
            /\ table[b].healthy = (cond[b] \in {"ok", "blind"})
            /\ cond[b] \in {"ok", "unwell"} => table[b].busy = Load(b)
            /\ table[b].inflight = Cardinality(On(b, {"lost"})))
=============================================================================
