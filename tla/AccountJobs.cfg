SPECIFICATION Spec
CONSTANTS
    payer = payer
    sub = sub
    w1 = w1
    w2 = w2
    r1 = r1
    r2 = r2
    Accounts = {payer}
    Parent <- SubOfPayer
    Resources = {r1, r2}
    CostServices <- OneService
    ServiceOf <- AllOfEc2
    Reserved = {payer}
    Workers = {w1, w2}
    Kinds = {"process", "plugins", "sheet", "master", "anomalies"}
    MonthStarts = {1, 2}
    LongDays = {1}
    MaxNow = 2
    MaxStarts = 2
    MaxFaults = 1
    NoAccount = NoAccount
SYMMETRY Symmetric
INVARIANTS
    LacksHasCause
    CoverageOnce
    SheetMissHasCause
    RowsHaveCause
CHECK_DEADLOCK FALSE
