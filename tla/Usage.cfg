SPECIFICATION Spec
CONSTANTS
    n1 = n1
    n2 = n2
    ra = ra
    rb = rb
    u1 = u1
    u2 = u2
    Services = {"ec2", "rds", "es", "elasticache", "lambda", "riEc2", "riRds"}
    Accounts = {1, 2, 3}
    Names = {n1, n2}
    Regions = {ra, rb}
    Load <- MCLoad
    Inventories <- MCInventories
    Zoneless <- MCZoneless
    OwnerOf <- MCOwner
    None = None
    Missing = Missing
    MaxDays = 3
    MaxFaults = 1
    MaxBuckets = 2
CONSTRAINT Focus
CHECK_DEADLOCK FALSE
INVARIANTS
    
    ChargesAreOwn
    AnswersAreTrue
