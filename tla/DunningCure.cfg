SPECIFICATION Spec
CONSTANTS
    Invoices = {i1}
    Cron = cron
    Workers = {w1}
    SecondOffset = 1
    ThirdOffset = 2
    CureDays = 1
    FirstAnswers = {"PROCESSING", "REQUIRES_ACTION", "FAILED"}
    LastDay = 5
    MaxFaults = 0
INVARIANTS
    PaidInWindowIsKept
CHECK_DEADLOCK FALSE
