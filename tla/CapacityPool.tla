---------------------------- MODULE CapacityPool ----------------------------
(***************************************************************************)
(* One endpoint's capacity pool (router/internal/capacity/pool.go) under   *)
(* the request handlers and the lease watchdog that share it.              *)
(*                                                                         *)
(* A handler is the goroutine of one request (proxy.ServeHTTP): it makes a *)
(* lease id from the unsynchronised counter leaseSeq, reserves a slot      *)
(* (load, compare-and-swap, then the lease insert under the mutex), talks  *)
(* to the upstream and releases (lease delete under the mutex, then the    *)
(* decrement after the unlock).  The watchdog deletes expired leases under *)
(* the mutex and decrements after it.  One action is one access to shared  *)
(* state, so every interleaving of those accesses is a behaviour.          *)
(***************************************************************************)
EXTENDS Integers, FiniteSets, Functions

CONSTANTS
    Requests,         \* the requests that ever arrive
    StaticCapacity,   \* routing.static_capacity of the endpoint
    UpstreamTimeout,  \* http.Client.Timeout: longest upstream exchange
    HardTimeout,      \* leases.hard_timeout_seconds; 0 disables reaping
    MaxNow,           \* bound: the coarse clock stops here
    LastArrival,      \* bound: no request arrives later than this
    MaxMillis         \* bound: distinct millisecond stamps of lease ids

ASSUME RequestsFinite == IsFiniteSet(Requests)
ASSUME CapacityIsInt == StaticCapacity \in Int
ASSUME TimesAreNat == {UpstreamTimeout, HardTimeout, MaxNow, LastArrival,
                       MaxMillis} \subseteq Nat

(***************************************************************************)
(* The deployed configuration bounds an upstream exchange (180.25 s) below *)
(* the lease timeout (7200 s).  Nothing in the code compares the two.      *)
(***************************************************************************)
ASSUME TimeoutOrder == HardTimeout > 0 => UpstreamTimeout <= HardTimeout

VARIABLES
    pc,         \* where each handler is
    leaseSeq,   \* proxy.leaseSeq, shared and unsynchronised
    seq,        \* each handler's copy of it
    millis,     \* fine part of the wall clock: milliseconds
    leaseID,    \* each handler's lease id: wall clock (coarse, fine), sequence
    cur,        \* Reserve's loaded counter, per handler
    inflight,   \* Pool.inflight
    leases,     \* Pool.leases: lease id -> LastActivity
    opened,     \* when each handler's upstream exchange began
    reaped,     \* ReapLeases' local list: ids deleted, not yet subtracted
    now         \* coarse part of the wall clock, the unit of both timeouts

vars == <<pc, leaseSeq, seq, millis, leaseID, cur, inflight, leases, opened,
          reaped, now>>

-----------------------------------------------------------------------------
\* Types and state functions

PCs == {"idle", "bump", "stamp", "load", "cas", "insert", "send", "forward",
        "stalled", "release", "dec", "full", "done"}

\* NewPool raises a capacity below one to one.
Capacity == IF StaticCapacity < 1 THEN 1 ELSE StaticCapacity

LeaseIDs == Nat \X Nat \X Nat

At(p) == {r \in Requests : pc[r] = p}

\* Steps that take processor time only: the coarse clock does not advance
\* while a handler is at one of them.
Computing == {"bump", "stamp", "load", "cas", "insert", "send", "release", "dec"}

Goto(r, p) == pc' = [pc EXCEPT ![r] = p]

Put(f, k, v) == [x \in DOMAIN f \cup {k} |-> IF x = k THEN v ELSE f[x]]

Drop(f, K) == Restrict(f, DOMAIN f \ K)

Init ==
    /\ pc = [r \in Requests |-> "idle"]
    /\ leaseSeq = 0
    /\ seq = [r \in Requests |-> 0]
    /\ millis = 0
    /\ leaseID = [r \in Requests |-> <<0, 0, 0>>]
    /\ cur = [r \in Requests |-> 0]
    /\ inflight = 0
    /\ leases = [i \in {} |-> 0]
    /\ opened = [r \in Requests |-> 0]
    /\ reaped = {}
    /\ now = 0

-----------------------------------------------------------------------------
\* newLeaseID: seq := leaseSeq; leaseSeq++; stamp

\* A request arrives and its handler reads leaseSeq.
ReadSeq(r) ==
    /\ pc[r] = "idle" /\ now <= LastArrival
    /\ seq' = [seq EXCEPT ![r] = leaseSeq]
    /\ Goto(r, "bump")
    /\ UNCHANGED <<leaseSeq, millis, leaseID, cur, inflight, leases, opened, reaped, now>>

\* leaseSeq++ is a load and a store with no lock: what it loads is the value
\* already in a register, or the one in memory now.
BumpSeq(r) ==
    /\ pc[r] = "bump"
    /\ \E loaded \in {seq[r], leaseSeq} : leaseSeq' = loaded + 1
    /\ Goto(r, "stamp")
    /\ UNCHANGED <<seq, millis, leaseID, cur, inflight, leases, opened, reaped, now>>

Stamp(r) ==
    /\ pc[r] = "stamp"
    /\ leaseID' = [leaseID EXCEPT ![r] = <<now, millis, seq[r]>>]
    /\ Goto(r, "load")
    /\ UNCHANGED <<leaseSeq, seq, millis, cur, inflight, leases, opened, reaped, now>>

-----------------------------------------------------------------------------
\* Pool.Reserve

\* Load the counter; a full pool sends the handler on to the next candidate.
ReserveLoad(r) ==
    /\ pc[r] = "load"
    /\ cur' = [cur EXCEPT ![r] = inflight]
    /\ Goto(r, IF inflight >= Capacity THEN "full" ELSE "cas")
    /\ UNCHANGED <<leaseSeq, seq, millis, leaseID, inflight, leases, opened, reaped, now>>

\* A bug to be caught: an increment that does not compare.
AddWithoutCompare(r) ==
    /\ pc[r] = "cas"
    /\ inflight' = inflight + 1
    /\ Goto(r, "insert")
    /\ UNCHANGED <<leaseSeq, seq, millis, leaseID, cur, leases, opened, reaped, now>>

\* A bug to be caught: a lost race that compares again without reloading.
CASWithoutReload(r) ==
    /\ pc[r] = "cas"
    /\ inflight = cur[r]
    /\ inflight' = cur[r] + 1
    /\ Goto(r, "insert")
    /\ UNCHANGED <<leaseSeq, seq, millis, leaseID, cur, leases, opened, reaped, now>>

\* CompareAndSwap(cur, cur+1); a lost race goes round the loop again.
ReserveCAS(r) ==
    /\ pc[r] = "cas"
    /\ IF inflight = cur[r]
         THEN inflight' = cur[r] + 1 /\ Goto(r, "insert")
         ELSE UNCHANGED inflight /\ Goto(r, "load")
    /\ UNCHANGED <<leaseSeq, seq, millis, leaseID, cur, leases, opened, reaped, now>>

\* A bug to be caught: a lease born at its own cutoff.
InsertBackdated(r) ==
    /\ pc[r] = "insert"
    /\ leases' = Put(leases, leaseID[r], now - HardTimeout)
    /\ Goto(r, "send")
    /\ UNCHANGED <<leaseSeq, seq, millis, leaseID, cur, inflight, opened, reaped, now>>

\* p.leases[requestID] = lease, under the mutex.
ReserveInsert(r) ==
    /\ pc[r] = "insert"
    /\ leases' = Put(leases, leaseID[r], now)
    /\ Goto(r, "send")
    /\ UNCHANGED <<leaseSeq, seq, millis, leaseID, cur, inflight, opened, reaped, now>>

-----------------------------------------------------------------------------
\* proxy.forwardSelected with the slot held

\* client.Do starts the upstream exchange ...
Open(r) ==
    /\ pc[r] = "send"
    /\ opened' = [opened EXCEPT ![r] = now]
    /\ Goto(r, "forward")
    /\ UNCHANGED <<leaseSeq, seq, millis, leaseID, cur, inflight, leases, reaped, now>>

\* ... unless the upstream request cannot be built.
BuildFails(r) ==
    /\ pc[r] = "send"
    /\ Goto(r, "release")
    /\ UNCHANGED <<leaseSeq, seq, millis, leaseID, cur, inflight, leases, opened, reaped, now>>

\* The exchange ends (connect error, last byte, client gone, client timeout)
\* and the deferred Release runs; or it ends while the handler is blocked
\* writing to a client that has stopped reading (the server has no write
\* timeout).
Close(r) ==
    /\ pc[r] = "forward"
    /\ \E p \in {"release", "stalled"} : Goto(r, p)
    /\ UNCHANGED <<leaseSeq, seq, millis, leaseID, cur, inflight, leases, opened, reaped, now>>

\* The stalled client reads again or goes away.
Unstall(r) ==
    /\ pc[r] = "stalled"
    /\ Goto(r, "release")
    /\ UNCHANGED <<leaseSeq, seq, millis, leaseID, cur, inflight, leases, opened, reaped, now>>

\* Pool.Touch, the streaming handler's proof of life.  Part of the pool's
\* interface; no caller in the repository uses it yet.
Touch(r) ==
    /\ pc[r] = "forward"
    /\ leaseID[r] \in DOMAIN leases
    /\ leases' = Put(leases, leaseID[r], now)
    /\ UNCHANGED <<pc, leaseSeq, seq, millis, leaseID, cur, inflight, opened, reaped, now>>

-----------------------------------------------------------------------------
\* Pool.Release

\* A bug to be caught: a Release that ignores whether the lease existed.
ReleaseUnconditionally(r) ==
    /\ pc[r] = "release"
    /\ leases' = Drop(leases, {leaseID[r]})
    /\ Goto(r, "dec")
    /\ UNCHANGED <<leaseSeq, seq, millis, leaseID, cur, inflight, opened, reaped, now>>

\* Under the mutex: delete the lease if it is there; if it was not, Release
\* has nothing left to do.
ReleaseDelete(r) ==
    /\ pc[r] = "release"
    /\ leases' = Drop(leases, {leaseID[r]})
    /\ Goto(r, IF leaseID[r] \in DOMAIN leases THEN "dec" ELSE "done")
    /\ UNCHANGED <<leaseSeq, seq, millis, leaseID, cur, inflight, opened, reaped, now>>

ReleaseDec(r) ==
    /\ pc[r] = "dec"
    /\ inflight' = inflight - 1
    /\ Goto(r, "done")
    /\ UNCHANGED <<leaseSeq, seq, millis, leaseID, cur, leases, opened, reaped, now>>

-----------------------------------------------------------------------------
\* The lease watchdog (Pool.ReapLeases) and time

\* A bug to be caught: an age test that forgets the timeout.
OlderThanNow(i) == leases[i] < now

Expired(i) == HardTimeout > 0 /\ leases[i] < now - HardTimeout

\* Under the mutex: delete every expired lease, remembering the ids.
ReapDelete ==
    /\ reaped = {}
    /\ reaped' = {i \in DOMAIN leases : Expired(i)}
    /\ reaped' # {}
    /\ leases' = Drop(leases, reaped')
    /\ UNCHANGED <<pc, leaseSeq, seq, millis, leaseID, cur, inflight, opened, now>>

\* A bug to be caught: reaped leases whose slots are not given back.
ReapWithoutDec ==
    /\ \E i \in reaped : reaped' = reaped \ {i}
    /\ UNCHANGED <<pc, leaseSeq, seq, millis, leaseID, cur, inflight, leases, opened, now>>

\* After the unlock: one decrement per reaped lease.
ReapDec ==
    /\ \E i \in reaped : reaped' = reaped \ {i}
    /\ inflight' = inflight - 1
    /\ UNCHANGED <<pc, leaseSeq, seq, millis, leaseID, cur, leases, opened, now>>

\* Coarse time passes while handlers wait on the network.  client.Timeout
\* ends an exchange no later than UpstreamTimeout after it began.
Tick ==
    /\ now < MaxNow
    /\ \A r \in Requests : pc[r] \notin Computing
    /\ \A r \in At("forward") : now < opened[r] + UpstreamTimeout
    /\ now' = now + 1
    /\ UNCHANGED <<pc, leaseSeq, seq, millis, leaseID, cur, inflight, leases, opened, reaped>>

TickMillis ==
    /\ millis < MaxMillis
    /\ millis' = millis + 1
    /\ UNCHANGED <<pc, leaseSeq, seq, leaseID, cur, inflight, leases, opened, reaped, now>>

-----------------------------------------------------------------------------
\* A handler's own next step, in whichever phase it is.
Handler(r) ==
    \/ BumpSeq(r) \/ Stamp(r)
    \/ ReserveLoad(r) \/ ReserveCAS(r) \/ ReserveInsert(r)
    \/ Open(r) \/ BuildFails(r) \/ Close(r)
    \/ ReleaseDelete(r) \/ ReleaseDec(r)

Next ==
    \/ \E r \in Requests : ReadSeq(r) \/ Handler(r) \/ Unstall(r) \/ Touch(r)
    \/ ReapDelete \/ ReapDec \/ Tick \/ TickMillis

Spec == Init /\ [][Next]_vars

(***************************************************************************)
(* The Go scheduler runs every runnable goroutine, the watchdog's ticker   *)
(* fires for ever and time passes.  Nothing makes a stalled client move,   *)
(* and requests arrive or not.                                             *)
(***************************************************************************)
Fairness ==
    /\ \A r \in Requests : WF_vars(Handler(r))
    /\ WF_vars(ReapDelete) /\ WF_vars(ReapDec) /\ WF_vars(Tick)

FairSpec == Spec /\ Fairness

-----------------------------------------------------------------------------
\* Properties

Stamped(r) == pc[r] \notin {"idle", "bump", "stamp"}

\* No two requests carry the same lease id.  newLeaseID means to guarantee it
\* ("just distinct"); its unsynchronised counter does not.
UniqueIDs ==
    \A r, s \in Requests :
        r # s /\ Stamped(r) /\ Stamped(s) => leaseID[r] # leaseID[s]

\* Slots somebody still has to give back: reserved but not yet leased, leased,
\* and deleted but not yet subtracted (by a Release or by the watchdog).
Outstanding ==
    Cardinality(At("insert")) + Cardinality(DOMAIN leases)
        + Cardinality(At("dec")) + Cardinality(reaped)

\* Every variable has its type.
TypeOK ==
    /\ pc \in [Requests -> PCs]
    /\ leaseSeq \in Nat
    /\ seq \in [Requests -> Nat]
    /\ millis \in Nat
    /\ leaseID \in [Requests -> LeaseIDs]
    /\ cur \in [Requests -> Int]
    /\ inflight \in Int
    /\ DOMAIN leases \subseteq LeaseIDs
    /\ leases \in [DOMAIN leases -> Nat]
    /\ opened \in [Requests -> Nat]
    /\ reaped \subseteq LeaseIDs
    /\ now \in Nat

\* Reserve's compare-and-swap never lets the counter past the static capacity,
\* and Release and the watchdog, decrementing outside the mutex, never take it
\* below zero: Available() is exact, whatever lease ids the handlers carry.
InflightBounds == inflight \in 0 .. Capacity

\* With distinct lease ids the counter is exact at every step: it equals the
\* slots somebody still has to give back, so no order of Reserve, Release and
\* ReapLeases loses a slot or frees one twice.
SlotAccounting == UniqueIDs => inflight = Outstanding

\* The capacity contract of the endpoint: no more upstream exchanges run at
\* once than the static capacity, the watchdog's reaping included.
BackendWithinCapacity == Cardinality(At("forward")) <= Capacity

\* The watchdog never takes the lease of a request whose upstream exchange is
\* still running; a Release that finds its lease gone belongs to a stalled one.
LiveLeaseKept ==
    UniqueIDs => \A r \in At("forward") : leaseID[r] \in DOMAIN leases

\* A handler has taken a slot that nobody has given back yet: it holds the
\* slot before its lease is in the map, through that lease, and after the
\* lease has left the map, until the counter is decremented.
HoldsSlot(r) ==
    \/ pc[r] \in {"insert", "dec"}
    \/ /\ pc[r] \in {"send", "forward", "stalled", "release", "done"}
       /\ leaseID[r] \in DOMAIN leases \cup reaped

\* What the client of a handler knows.  Which error or answer it was is not
\* told apart here.
Told(r) == IF pc[r] = "full" THEN "503"
           ELSE IF pc[r] \in {"stalled", "release", "dec", "done"} THEN "proxied"
           ELSE "none"

PoolRoom(p) == Capacity

Service == INSTANCE AdmissionService WITH
               Pools <- {"pool"}, Room <- PoolRoom, Nowhere <- "nowhere",
               place <- [r \in Requests |-> IF HoldsSlot(r) THEN "pool" ELSE "nowhere"],
               answer <- [r \in Requests |-> Told(r)]

\* The loads, compare-and-swaps, map accesses and decrements behave like one
\* admission service with one pool, whoever gives a slot back: as long as lease
\* ids are distinct, a step takes a slot when there is room, answers a request
\* that still has its slot, gives back the slot of one that was answered, or
\* does none of this.
ActsAsOnePool ==
    Service!Init /\ [][UniqueIDs' => [Service!Next]_(Service!vars)]_vars

\* Every slot comes back, even one whose client stalled for ever and whose
\* handler therefore never reaches its deferred Release.
SlotsComeBack == <>[](UniqueIDs => inflight = 0)

\* Every handler gets through the compare-and-swap loop and its release, or is
\* held up by its own client only.
HandlersSettle ==
    \A r \in Requests : pc[r] = "bump" ~> pc[r] \in {"stalled", "full", "done"}

=============================================================================
