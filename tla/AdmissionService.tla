-------------------------- MODULE AdmissionService --------------------------
(***************************************************************************)
(* What the router promises of its slots, with the tables, the filter and  *)
(* the control plane gone: a request is either refused, or it takes one    *)
(* slot of one pool that has room, is answered once while it holds the     *)
(* slot, and gives that slot back once.                                    *)
(***************************************************************************)
EXTENDS Integers, FiniteSets

CONSTANTS
    Requests,  \* the requests
    Pools,     \* the pools
    Room(_),   \* the slots of a pool
    Nowhere    \* no pool

VARIABLES
    place,     \* place[r]: the pool r holds a slot of
    answer     \* answer[r]: what the client was told

vars == <<place, answer>>

Init ==
    /\ place = [r \in Requests |-> Nowhere]
    /\ answer = [r \in Requests |-> "none"]

\* A request that has no answer takes a slot of a pool with room.
Admit(r) ==
    /\ place[r] = Nowhere /\ answer[r] = "none"
    /\ \E p \in Pools : /\ Cardinality({q \in Requests : place[q] = p}) < Room(p)
                        /\ place' = [place EXCEPT ![r] = p]
    /\ UNCHANGED answer

\* A request is turned away without having held a slot.
Refuse(r) ==
    /\ place[r] = Nowhere /\ answer[r] = "none"
    /\ answer' \in {[answer EXCEPT ![r] = a] : a \in {"400", "503"}}
    /\ UNCHANGED place

\* A request is answered while it holds its slot.
Answer(r) ==
    /\ place[r] # Nowhere /\ answer[r] = "none"
    /\ answer' \in {[answer EXCEPT ![r] = a] : a \in {"502", "proxied"}}
    /\ UNCHANGED place

\* A request that was answered gives its slot back.
Leave(r) ==
    /\ place[r] # Nowhere /\ answer[r] # "none"
    /\ place' = [place EXCEPT ![r] = Nowhere]
    /\ UNCHANGED answer

Next == \E r \in Requests : Admit(r) \/ Refuse(r) \/ Answer(r) \/ Leave(r)

Spec == Init /\ [][Next]_vars

=============================================================================
