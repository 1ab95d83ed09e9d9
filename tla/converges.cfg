\* A trusted client whose address changes twice, a crash of the server.
CONSTANTS
    c1 = c1  c2 = c2  d1 = d1  d2 = d2
    a1 = a1  a2 = a2  a3 = a3
    UIntModulus = 6
    TIME_DIFF = 1
    Clients = {c1}
    Domains = {d1}
    DomainOf <- OneDomain
    Ips = {a1, a2}
    DottedIps = {a1, a2}
    NoIp = NoIp
    ArgIp <- NoArgs
    Ports = {p1}
    NoPort = NoPort
    Keys = {k1, k2}
    KeyOf <- SameKeys
    ServerKey = k1
    Skew <- InStep
    CronPeriod = 2
    Shared = TRUE
    PortReuse = TRUE
    Duplicates = TRUE
    MaxLife = 3
    MaxNet = 3
    MaxMoves = 2
    MaxCrashes = 1
SPECIFICATION FairSpec
PROPERTIES Converges
