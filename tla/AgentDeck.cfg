SPECIFICATION FairSpec
CONSTANTS
    Instance = {a, b}
    NoInstance = NoInstance
    SlotCount = 1
    Producer = {p, q}
    NoProducer = NoProducer
    MaxSeq = 1
    Reporting = {a}
    Statuses = {"unknown", "nonsense"}
    QueueSize = 1
    MaxFaults = 1
INVARIANTS NoKeyWasted PressFocusesPictured
PROPERTIES ReportsOnlyGoForward ImplementsAssignment DeckTellsTruth
\* The launches end.
CHECK_DEADLOCK FALSE
