CONSTANTS
    h1 = h1
    h2 = h2
    w1 = w1
    w2 = w2
    k1 = k1
    k2 = k2
    a = a
    b = b
    m1 = m1
    m2 = m2
    LnHosts = {h1, h2}
    LnFirstHost = h1
    LnRequests = {w1, w2}
    LnEdits <- MCEdits
    LnMaxBegun = 5
    RtKeys = {k1, k2}
    RtRequests = {w1, w2}
    RtMaxBegun = 4
    PvWorkers = {w1, w2}
    PvPresets = {a, b}
    PvMaxPosts = 2
    PvMaxRuns = 2
    PvMoves = 1
    PvMaxDrops = 1
    OsGateways = {w1, w2}
    OsMaxRuns = 4
    OsMaxEdits = 1
    OsMaxCalls = 2
    AuMutations = {m1, m2}
    AuGateways = {w1, w2}
    AuMaxStarts = 4
    SsWorkers = {w1, w2}
    SsMaxVersion = 1
    SsMaxRuns = 3
    PgInvoices = {i1}
    PgWorkers = {w1, w2}
SPECIFICATION OpsSpec
SYMMETRY Symmetry
INVARIANTS
    LaunchSafe
    RuntimeSafe
    ProvisioningSafe
    OnboardingSafe
    AuditSafe
PROPERTIES
    ScreensSafe
    PortalGateSafe
CHECK_DEADLOCK FALSE
