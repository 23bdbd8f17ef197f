SPECIFICATION FairSpec
CONSTANTS
    Upstream = {e1}
    Ids = {i1}
    Sources = {s1}
    Contents = {full, partial}
    Complete = {full}
    Workers = {w1}
    AutoKey <- MCAutoKey
    Relays = {r1}
    LostAnswers = TRUE
    MaxStamp = 1
    MaxCrashes = 1
    MaxAttempts = 2
    MaxFailing = 1
    MaxFaults = 1
    Finance = finance
    Policy = policy
    Partner = partner
    AnyScope = AnyScope
    Omitted = Omitted
    None = None
PROPERTIES
    DeliverySettles
CHECK_DEADLOCK FALSE
