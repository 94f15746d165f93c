CONSTANTS
    Bodies <- MCBodies
    Tables <- MCTables
    ReserveTokens = 2
    ReservePercent = 25
    FailureThreshold = 3
    RecoveryThreshold = 2
    MaxProbes = 12

SPECIFICATION PartsSpec

INVARIANTS WalkIgnoresMapOrder WalkIsWhatFits HysteresisExact

\* A decision is one step, and the history of probes is bounded by MaxProbes.
CHECK_DEADLOCK FALSE
