SPECIFICATION FairSpec
CONSTANTS
    Instance = {a, b, c}
    NoInstance = NoInstance
    SlotCount = 2
    Lease = 1
    Worker = {w1}
    Unseen = {b}
    MaxCalls = 3
    MaxEvents = 1
    Sessions = {"idle", "asks", "unreadable"}
INVARIANTS KeysAreBacked
PROPERTIES LaunchKeepsItsKey ImplementsAssignment DeadGoesDark DeckCatchesUp
\* The broker stops.
CHECK_DEADLOCK FALSE
