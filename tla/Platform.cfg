SPECIFICATION PlatformSpec
CONSTANTS
    w1 = w1
    w2 = w2
    Handlers = {w1, w2}
    Targets <- MCTargets
    MaxHistory = 4
    BkWorkers = {w1, w2}
    BkMaxPoints = 3
    BkKeep = 1
    BkMaxJobs = 1
    BkMaxStarts = 1
    IdRoot = "root"
    IdAdmins = {"admin"}
    IdPortal = {"first", "second"}
    IdFirst = "first"
    IdEmails = {"e1", "e2", "e3"}
    IdBootEmail = "e1"
    IdFirstEmail = "e2"
    IdWorkers = {w1, w2}
    IdMaxRequests = 3
    IdMaxSessions = 1
    IdMaxTokens = 2
    SiKeys = {"k1", "k2", "k3"}
    SiWorkers = {w1, w2}
    SiLimit = 2
    SiWindow = 1
    SiBlock = 2
    SiMaxEntries = 2
    SiMaxCodes = 2
    SiMaxClock = 3
    SiMaxTries = 5
    SiMaxChallenges = 2
    PaWorkers = {w1, w2}
    PaModules = {"a", "b"}
    PaMaxRequests = 3
    PaMaxChanges = 2
    StWorkers = {w1, w2}
    StMaxUploads = 2
    StMaxRestores = 2
    StMaxArchives = 1
    StMaxStops = 1
    RpWorkers = {w1, w2}
    RpPage = 1
    RpMaxEvidence = 2
    RpMaxSnapshots = 3
    RpMaxStarts = 1
SYMMETRY Symmetry
INVARIANTS
    LifecycleSafe
    BackupsSafe
    IdentitiesSafe
    PortalSafe
    DocumentsSafe
PROPERTIES
    SignInSafe
CHECK_DEADLOCK FALSE
