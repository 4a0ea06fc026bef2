SPECIFICATION Spec
CONSTANTS
    payer = payer
    sub = sub
    w1 = w1
    w2 = w2
    r1 = r1
    r2 = r2
    Accounts = {payer, sub}
    Parent <- SubOfPayer
    Resources = {r1}
    CostServices <- OneService
    ServiceOf <- AllOfEc2
    Reserved = {payer}
    Workers = {w1}
    Kinds = {"process", "sheet", "master"}
    MonthStarts = {1}
    LongDays = {}
    MaxNow = 2
    MaxStarts = 3
    MaxFaults = 0
    NoAccount = NoAccount
INVARIANTS
    MasterMissHasCause
CHECK_DEADLOCK FALSE
