CONSTANTS
    r1 = r1
    r2 = r2
    r3 = r3
    a = a
    b = b
    x = x
    Requests = {r1}
    Endpoints = {a}
    Manifest <- MCManifest
    Seeds = {a}
    Advertised = {}
    Fits <- AllFit
    PortContracts <- MCContracts
    NoEndpoint = NoEndpoint
    FailureThreshold = 1
    RecoveryThreshold = 1
    MaxGen = 2
    MaxPasses = 0
    c1 = c1
    c2 = c2
    Admins = {c1}
    AdminActions = {"drain", "undrain"}
    MaxAdminOps = 1

SPECIFICATION AuditSpec

INVARIANTS DrainIsRemembered

\* Arrivals, admin actions and rescans are bounded.
CHECK_DEADLOCK FALSE
