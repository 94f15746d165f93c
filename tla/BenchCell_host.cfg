SPECIFICATION Spec
CONSTANTS
    MinSamples = 2
    Numerals <- MCNumerals
    Slug <- MCSlug
    Targets <- MCTargets
    Asked = {"auto", "m", "n", "other"}
    Clients <- MCClients
    Remotes <- MCRemotes
    Addresses = {"localhost", "there", "there:8000"}
    Workload <- MCWorkload
    Samples = 2
    Refusals <- MCRefusals
    Lines <- MCLines
    Scrapes <- MCScrapes
    GpuSeries <- MCSeries
    MaxLines = 4
INVARIANTS HostIsAsDocumented
\* The cell ends.
CHECK_DEADLOCK FALSE
