\* Two trusted clients, a port is not given again while a datagram names it.
CONSTANTS
    c1 = c1  c2 = c2  d1 = d1  d2 = d2
    a1 = a1  a2 = a2  a3 = a3
    UIntModulus = 6
    TIME_DIFF = 1
    Clients = {c1, c2}
    Domains = {d1}
    DomainOf <- OneDomain
    Ips = {a1, a2}
    DottedIps = {a1, a2}
    NoIp = NoIp
    ArgIp <- NoArgs
    Ports = {p1, p2}
    NoPort = NoPort
    Keys = {k1, k2}
    KeyOf <- SameKeys
    ServerKey = k1
    Skew <- InStep
    CronPeriod = 0
    Shared = TRUE
    PortReuse = FALSE
    Duplicates = TRUE
    MaxLife = 3
    MaxNet = 2
    MaxMoves = 1
    MaxCrashes = 1
SPECIFICATION Spec
INVARIANTS TypeOK ConfirmedIsApplied
PROPERTIES ImplementsService
SYMMETRY FullSymmetry
