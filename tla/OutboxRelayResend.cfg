SPECIFICATION Spec
CONSTANTS
    Rows = {k1}
    Relays = {r1}
    None = None
    LostAnswers = TRUE
    MaxStamp = 2
    MaxCrashes = 0
INVARIANTS
    ResendIsIdempotent
CHECK_DEADLOCK FALSE
