SPECIFICATION FairSpec
CONSTANTS
    Requests = {r1, r2, r3}
    StaticCapacity = 1
    UpstreamTimeout = 1
    HardTimeout = 1
    MaxNow = 4
    LastArrival = 1
    MaxMillis = 1
INVARIANTS InflightBounds SlotAccounting LiveLeaseKept
PROPERTIES ActsAsOnePool SlotsComeBack HandlersSettle
\* Arrivals and the clock are bounded.
CHECK_DEADLOCK FALSE
