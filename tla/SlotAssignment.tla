--------------------------- MODULE SlotAssignment ---------------------------
(***************************************************************************)
(* What both deck brokers promise about their keys, with no threads, no    *)
(* leases and no pictures: a key holds at most one live TUI, a TUI has at  *)
(* most one key and keeps it until it leaves, and a key that is given away *)
(* gets a later generation, so that an old press can be told from a new    *)
(* one.                                                                    *)
(***************************************************************************)
EXTENDS Naturals

CONSTANTS Instance,     \* TUI launches, each with a fresh identity
          Slot,         \* keys of the deck
          NoInstance    \* what a dark key holds

VARIABLES holder,       \* holder[s]: the launch key s belongs to
          turn          \* turn[s]: the generation of key s

Init ==
    /\ holder = [s \in Slot |-> NoInstance]
    /\ turn = [s \in Slot |-> 0]

\* No launch has two keys, and none moves from one key to another.
Exclusive == \A s, t \in Slot : holder'[s] = holder'[t] /\ holder'[s] # NoInstance => s = t
NoMove == \A s, t \in Slot : holder[s] = holder'[t] /\ holder[s] # NoInstance => s = t

\* Any number of launches leave, and keys that are dark or just left may be
\* given to launches that have none.
Reassign ==
    /\ holder' \in [Slot -> Instance \cup {NoInstance}]
    /\ Exclusive
    /\ NoMove
    /\ turn' \in [Slot -> Nat]
    /\ \A s \in Slot : turn'[s] >= turn[s]
    /\ \A s \in Slot : holder'[s] \notin {holder[s], NoInstance} => turn'[s] > turn[s]

\* The broker is a new process: its clients have to register again.
Restart == holder' = [s \in Slot |-> NoInstance] /\ turn' = [s \in Slot |-> 0]

Next == Reassign \/ Restart

Spec == Init /\ [][Next]_<<holder, turn>>
=============================================================================
