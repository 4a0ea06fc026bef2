SPECIFICATION Spec
CONSTANTS
    Databases <- MCDatabases
    Org <- MCOrg
    Workers = {w1, w2}
    e1 = e1
    e2 = e2
    e3 = e3
    p1 = p1
    p2 = p2
    n1 = n1
    n2 = n2
    i1 = i1
    i2 = i2
    Emails = {e1, e2, e3}
    Passwords = {p1, p2}
    Names = {n1, n2}
    Identities = {i1, i2}
    DefaultRole = TRUE
    None = None
    Gone = Gone
    MaxExternals = 2
    MaxRequests = 3
    MaxFaults = 1
CONSTRAINT Focus
CHECK_DEADLOCK FALSE
INVARIANTS
    TablesAreSerial
    ExternalOnce
    ShareOnce
    TokenOnce
    
PROPERTIES
    AuthorityAtWrite
    
