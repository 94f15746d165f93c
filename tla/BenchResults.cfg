SPECIFICATION ResultsSpec
CONSTANTS
    MinSamples = 2
    Numerals <- MCNumerals
    Slug <- MCSlug
    Targets <- MCTargets
    Asked = {"auto", "m", "n", "other"}
    Clients <- MCClients
    Remotes <- MCRemotes
    Addresses = {"localhost", "there", "there:8000"}
    Workload <- MCWorkload
    Samples = 2
    Refusals <- MCRefusals
    Lines <- MCLines
    Scrapes <- MCScrapes
    GpuSeries <- MCSeries
    MaxLines = 4
    Cells <- MCCells
    Configs = {1, 2}
    MaxCells = 2
    MaxRuns = 2
INVARIANTS EngineIsRecognised GpusAreDeployed StreamAddsUp VerdictIsHonest SiteIsHonest
\* The cell ends, and the runs are bounded.
CHECK_DEADLOCK FALSE
