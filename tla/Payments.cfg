SPECIFICATION PayFairSpec
CONSTANTS
    ChargeKeys = {k1}
    Chargers = {c1, c2}
    Hooks = {h1}
INVARIANTS
    AttemptBeforeRequest
    ProcessedIsSettled
    SuccessIsEvidenced
PROPERTIES
    EmittedIsSettled
CHECK_DEADLOCK FALSE
