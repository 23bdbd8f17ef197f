SPECIFICATION BillingSpec
CONSTANTS
    w1 = w1
    w2 = w2
    CtKeys = {"a", "b"}
    CtPlans = {"PLUS"}
    CtGrants <- MCGrants
    CtRelations <- MCRelations
    CtEdits <- MCRowEdits
    CtModuleEdits <- MCModuleEdits
    CtWorkers = {w1, w2}
    CtMaxRequests = 3
    PbPlans = {1, 2}
    PbMonth = 2
    PbYear = 4
    PbWorkers = {w1, w2}
    PbLastDay = 4
    PbMaxRuns = 2
    PbMaxCalls = 2
    MbCycle = 2
    MbPrices = {0, 2}
    MbBase = 5
    MbWorkers = {w1, w2}
    MbLastDay = 3
    MbMaxRuns = 2
    MbMaxCalls = 2
    TmFee = 1
    TmTermsEdits <- MCTermsEdits
    TmLicenseEdits <- MCLicenseEdits
    TmModeEdits <- MCModeEdits
    TmModules = {"m"}
    TmPlanModules = {"p"}
    TmWorkers = {w1, w2}
    TmMaxCalls = 3
SYMMETRY Symmetry
INVARIANTS
    PlanBillingSafe
PROPERTIES
    EntitlementsSafe
    ModuleBillingSafe
    CommercialTermsSafe
CHECK_DEADLOCK FALSE
