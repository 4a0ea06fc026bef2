SPECIFICATION QSpec
CONSTANTS
    p1 = p1
    p2 = p2
    x1 = x1
    x2 = x2
    u1 = u1
    u2 = u2
    u3 = u3
    b1 = b1
    nb = nb
    k1 = k1
    k2 = k2
    v1 = v1
    v2 = v2
    none = none
    LineItems <- MCLineItems
    Span <- MCSpan
    Ranges <- MCRanges
    S3 = p2
    NotABucket = {nb}
    Products = {p1, p2}
    Users = {u1, u2, u3}
    Identity = x1
    Owner = u1
    Refused = Refused
    Tables <- MCTables
    Filters <- MCFilters
    Levels <- MCLevels
    FirstWeekday = 4
    StartDays = {4, 6}
    Horizon = 6
    Bills <- MCBills
    MaxFaults = 1
    Month = 3
    SixMonths = 5
    Period = 2
    Unit = 20
    Upper = 21
    MinPart = 1
    Tolerance = 2
    Deviation = 3
    MinCost = 3
    MinRank = 1
CONSTRAINT Focus
CHECK_DEADLOCK FALSE
INVARIANTS
    
    
    AccessIsExact
    CostsAddUp

    
    
