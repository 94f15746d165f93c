CONSTANTS
    r1 = r1
    r2 = r2
    r3 = r3
    a = a
    b = b
    x = x
    Requests = {r1, r2}
    Endpoints = {a, x}
    Manifest <- MCManifest
    Seeds = {a, x}
    Advertised = {}
    Fits <- SomeFit
    PortContracts <- MCContracts
    NoEndpoint = NoEndpoint
    FailureThreshold = 1
    RecoveryThreshold = 1
    MaxGen = 2
    MaxPasses = 1
    c1 = c1
    c2 = c2
    Admins = {c1}
    AdminActions = {"drain", "undrain", "enable", "disable"}
    MaxAdminOps = 1

SPECIFICATION AuditSpec

INVARIANTS TypeOK SlotsFollowRequests NoNeedlessRefusal EarliestSteadyServes ClosedStaysClosed

\* Arrivals, probes, admin actions and rescans are bounded.
CHECK_DEADLOCK FALSE
