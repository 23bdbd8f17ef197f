CONSTANTS
    home = home
    about = about
    c1 = c1
    c2 = c2
    pic = pic
    slugA = slugA
    slugB = slugB
    e1 = e1
    e2 = e2
    d1 = d1
    d2 = d2
    unset = unset
    p1 = p1
    p2 = p2
    x1 = x1
    x2 = x2
    m1 = m1
    m2 = m2
    classic = classic
    b1 = b1
    b2 = b2
    k1 = k1
    k2 = k2
    x = x
    y = y
    a = a
    t1 = t1
    CmsPageIds = {home, about}
    CmsCallers = {c1, c2}
    CmsContents <- MCContents
    CmsMediaIds = {pic}
    CmsMaxVersions <- MCVersions
    SiteEditors = {e1, e2}
    SiteValues = {d1, d2}
    SiteDefault = unset
    SiteMaxVersion = 3
    BrandPartners = {p1, p2}
    BrandProfiles = {x1, x2}
    BrandMedia = {m1, m2}
    BrandCatalog = classic
    IgEnvironments = {"PRODUCTION"}
    IgBatchIds = {b1, b2}
    IgContents <- MCBatches
    IgRequests = {c1, c2}
    IgMaxRecords = 2
    IgMaxBegun = 3
    Keys = {k1}
    Consumers = {c1, c2}
    Types = {t1}
    Scopes = {p1}
    AnyScope = AnyScope
    Contents = {a}
    Times <- MCTimes
    Omitted = Omitted
    None = None
    MaxAttempts <- MCOneLimit
    MaxClaims = 3
    MaxFailing = 2
SPECIFICATION ContentSpec
SYMMETRY Symmetry
INVARIANTS
    CmsSafe
    IngestSafe
    ReplayIsDuplicate
    DeadLetterOnlyExhausted
PROPERTIES
    SettledLeftOnlyByOverlappingFail
CHECK_DEADLOCK FALSE
