SPECIFICATION FairSpec
CONSTANTS
    DefaultISL = {1}
    DefaultOSL = {512}
    ConcurrencyLadder = {1, 2}
    MaxContext = 0
    MaxConcurrency = 3
    Hash <- MCHash
    Samples = 2
    MaxBacklog = 2
    Outcomes <- MCOutcomes
    MaxReadings = 1
    MaxFaults = 1
INVARIANTS FilesAgree LoadIsAsPlanned SeriesIsComplete
PROPERTIES EveryCellMeasured
\* The run ends.
CHECK_DEADLOCK FALSE
