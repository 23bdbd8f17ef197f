SPECIFICATION MCSpec
CONSTANTS
    i1 = i1
    i2 = i2
    w1 = w1
    w2 = w2
    Invoices = {i1, i2}
    Cron = cron
    Workers = {w1, w2}
    SecondOffset = 1
    ThirdOffset = 2
    CureDays = 1
    FirstAnswers = {"PROCESSING", "REQUIRES_ACTION"}
    LastDay = 4
    MaxFaults = 1
INVARIANTS
    DunningSafe
    DunningInOrder
CHECK_DEADLOCK FALSE
