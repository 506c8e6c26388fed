SPECIFICATION ServiceFairSpec
CONSTANTS
    r1 = r1
    r2 = r2
    m1 = m1
    m2 = m2
    RfId = {r1, r2}
    Mac = {m1, m2}
    Routers <- OwnRouters
    HoldInterval = 0
    ExpireCount = 0
    SendInterval = 1
    MaxAge = 0
    NetCap = 1
    DeleteTime = 1
INVARIANTS ServiceTypeOK DestinationsHaveNeighbours
PROPERTIES HeardIsDeclared LostIsWithdrawn
