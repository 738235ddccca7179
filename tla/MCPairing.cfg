CONSTANTS
    Pairings = {p1, p2}
    Phones = {h1, h2, h3}
    RelayPhone = rp
    Requests = {q1, q2, q3}
    FailLimit = 1
    MaxPairingBuckets = 1
    MaxActive = 2
    SourceLimit = 2
    Devices = {d1, d2}
    DeviceTokens = {t1, t2}
    DeviceNames = {n1, n2}
    IdentityKeys = {k1, k2}
    NoKey = NoKey
    Callers = {c1, c2}
    MaxCalls = 3
    Installs = {i1, i2}
    Keys = {y1, y2}
    Addresses = {a1}
    Skews = {0, 1}
    Window = 1
    Limit = 2
    Interval = 2
    MaxBuckets = 2
    Claims = {m1}
    Capabilities = {s1, s2}
    Pollers = {l1, l2}
    MaxClock = 3
    MaxMessages = 2
    MaxRequests = 3
    MaxRestarts = 1
    RouteScenarios <- MCRouteScenarios
SPECIFICATION MCSpec
SYMMETRY Interchangeable
INVARIANTS
    TokenIndexSound
    DeliveredIsTrusted
    PairingLimits
    ActivationOnce
    RoutesSound
PROPERTY ImplementsRegistry
CHECK_DEADLOCK FALSE
