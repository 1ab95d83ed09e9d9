\* A port may be used again at once, but a run starts only CronPeriod after the
\* one before it, which is more than twice TIME_DIFF.
CONSTANTS
    c1 = c1  c2 = c2  d1 = d1  d2 = d2
    a1 = a1  a2 = a2  a3 = a3
    UIntModulus = 10
    TIME_DIFF = 1
    Clients = {c1, c2}
    Domains = {d1}
    DomainOf <- OneDomain
    Ips = {a1, a2}
    DottedIps = {a1, a2}
    NoIp = NoIp
    ArgIp <- NoArgs
    Ports = {p1}
    NoPort = NoPort
    Keys = {k1, k2}
    KeyOf <- C2Stranger
    ServerKey = k1
    Skew <- C1Ahead
    CronPeriod = 3
    Shared = FALSE
    PortReuse = TRUE
    Duplicates = TRUE
    MaxLife = 4
    MaxNet = 2
    MaxMoves = 0
    MaxCrashes = 1
SPECIFICATION Spec
INVARIANTS ConfirmedIsApplied
PROPERTIES AppliedInTime
