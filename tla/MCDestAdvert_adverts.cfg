SPECIFICATION FairSpec
CONSTANTS
    r1 = r1
    r2 = r2
    m1 = m1
    m2 = m2
    RfId = {r1, r2}
    Mac = {m1, m2}
    Routers <- OwnRouters
    HoldInterval = 0
    ExpireCount = 2
    SendInterval = 1
    MaxAge = 2
    NetCap = 1
INVARIANTS TypeOK NoStaleDestination UpDestinationsAreLocal
PROPERTIES StateReflectsClient PurgeTakesDestinationsDown AdvertisedBecomesLocal SilentNeighbourIsWithdrawn
