SPECIFICATION AdviceSpec
CONSTANTS
    z1 = z1
    z2 = z2
    z3 = z3
    g1 = g1
    g2 = g2
    new = new
    old = old
    odd = odd
    None = None
    Regions = {g1, g2}
    RegionOf <- MCRegionOf
    Instances <- MCInstances
    Reservations <- MCReservations
    PreviousToCurrentGeneration <- MCEquivalent
    PriceLists <- MCPriceLists
    Fleets <- MCFleets
    Books <- MCBooks
    MaxRuns = 2
    MaxChanges = 1
    MaxFaults = 1
CONSTRAINTS
    Apart
    OneEvent
CHECK_DEADLOCK FALSE
INVARIANTS
    
    
    AdviceIsMade
    
