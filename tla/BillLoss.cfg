SPECIFICATION Spec
CONSTANTS
    r1 = r1
    r2 = r2
    b1 = b1
    b2 = b2
    p1 = p1
    p2 = p2
    w1 = w1
    w2 = w2
    Repos = {r1, r2}
    Buckets = {b1}
    Periods = {p1, p2}
    Page <- TwoPages
    Workers = {w1, w2}
    Month = 1
    Interval = 1
    MaxTime = 3
    MaxFaults = 1
    MaxRequests = 2
    NoRow = NoRow
    NoTx = NoTx
    Gone = Gone
    NoDoc = NoDoc
    NoImport = NoImport
SYMMETRY Symmetric
INVARIANTS
    TypeOK
    LossHasCause
    OrphanHasCause
CONSTRAINTS
    Untainted
    SecondIsFinal
    TwinsAlone
    InOrder
    ExpiresFirst
CHECK_DEADLOCK FALSE
