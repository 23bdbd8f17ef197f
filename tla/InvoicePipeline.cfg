SPECIFICATION Spec
CONSTANTS
    Upstream = {e1, e2}
    Ids = {i1, i2}
    Sources = {s1}
    Contents = {full, full2}
    Complete = {full, full2}
    Workers = {w1, w2}
    AutoKey <- MCAutoKey
    Relays = {r1}
    LostAnswers = FALSE
    MaxStamp = 0
    MaxCrashes = 0
    MaxAttempts = 1
    MaxFailing = 1
    MaxFaults = 1
    Finance = finance
    Policy = policy
    Partner = partner
    AnyScope = AnyScope
    Omitted = Omitted
    None = None
INVARIANTS
    PipelineSafe
PROPERTIES
    BillsOnce
CHECK_DEADLOCK FALSE
