SPECIFICATION CommerceSpec
CONSTANTS
    i1 = i1
    i2 = i2
    s1 = s1
    full = full
    partial = partial
    w1 = w1
    w2 = w2
    Ids = {i1, i2}
    Sources = {s1}
    Keys <- MCKeysWithAuto
    AutoKey <- MCAutoKey
    Contents = {full, full2, partial}
    Complete = {full, full2}
    Policies = {p1, p2}
    Workers = {w1, w2}
    None = None
    ImMax = 1023
    ImMilli = 2
    ImBps = 20
    ImMaxQuantity = 11
    ImMaxPrice = 10
    ImMaxLines = 2
    ImInputs <- MCLines
    PpPrices = {1, 3}
    PpFactor = 2
    PpYear = 2
    PpWorkers = {w1, w2}
    PpLastDay = 4
    PpMaxCalls = 2
    MpPrices = {1, 2}
    MpDefault = 3
    MpWorkers = {w1, w2}
    MpLastDay = 2
    MpMaxCalls = 3
SYMMETRY Symmetry
INVARIANTS
    OneInvoicePerSource
    SuccessMeansInvoiced
    ReadyEventExactlyOnce
    ReadyIsComplete
PROPERTIES
    ReadyIsFrozen
    AmountsSafe
CHECK_DEADLOCK FALSE
