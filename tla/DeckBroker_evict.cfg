SPECIFICATION Spec
CONSTANTS
    Instance = {a, b}
    NoInstance = NoInstance
    SlotCount = 1
    Lease = 1
    Worker = {w1, w2}
    Unseen = {b}
    MaxCalls = 2
    MaxEvents = 0
    Sessions = {"idle", "asks", "unreadable"}
INVARIANTS UniqueAssignments
\* The broker stops.
CHECK_DEADLOCK FALSE
