\* Two clients behind one router, ports used again at once.
CONSTANTS
    c1 = c1  c2 = c2  d1 = d1  d2 = d2
    a1 = a1  a2 = a2  a3 = a3
    UIntModulus = 8
    TIME_DIFF = 1
    Clients = {c1, c2}
    Domains = {d1, d2}
    DomainOf <- OwnDomains
    Ips = {a1}
    DottedIps = {a1}
    NoIp = NoIp
    ArgIp <- NoArgs
    Ports = {p1}
    NoPort = NoPort
    Keys = {k1, k2}
    KeyOf <- SameKeys
    ServerKey = k1
    Skew <- InStep
    CronPeriod = 3
    Shared = TRUE
    PortReuse = TRUE
    Duplicates = TRUE
    MaxLife = 3
    MaxNet = 2
    MaxMoves = 0
    MaxCrashes = 1
SPECIFICATION Spec
INVARIANTS ConfirmedIsApplied
