SPECIFICATION FairSpec
CONSTANTS
    Rows = {k1}
    Relays = {r1, r2}
    None = None
    LostAnswers = TRUE
    MaxStamp = 2
    MaxCrashes = 1
INVARIANTS
    PublishedIsLogged
PROPERTIES
    PublishedIsFinal
    EveryRowPublishedOrRejected
CHECK_DEADLOCK FALSE
