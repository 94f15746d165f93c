SPECIFICATION FairSpec
CONSTANTS
    Request = {r1, r2}
    Session = {"s"}
    NoSession = NoSession
    Message <- MCMessage
    Key = "key"
    Cap <- MCCap
    Vllm <- MCVllm
    VisionBackend = 2
    MaxChanges = 1
INVARIANTS SlotsAccounted NeverBeyondCap
PROPERTIES TableCatchesUp
