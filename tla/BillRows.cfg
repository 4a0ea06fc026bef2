SPECIFICATION Spec
CONSTANTS
    r1 = r1
    r2 = r2
    b1 = b1
    b2 = b2
    p1 = p1
    p2 = p2
    w1 = w1
    w2 = w2
    Repos = {r1}
    Buckets = {b1, b2}
    Periods = {p1}
    Page <- OnePage
    Workers = {w1, w2}
    Month = 1
    Interval = 1
    MaxTime = 1
    MaxFaults = 0
    MaxRequests = 2
    NoRow = NoRow
    NoTx = NoTx
    Gone = Gone
    NoDoc = NoDoc
    NoImport = NoImport
CONSTRAINT OneClean
SYMMETRY Symmetric
INVARIANTS
    LocationHasCause
    OrphanHasCause
    
PROPERTIES
    DeletedStaysDeleted
CHECK_DEADLOCK FALSE
