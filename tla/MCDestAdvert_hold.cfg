SPECIFICATION Spec
CONSTANTS
    r1 = r1
    r2 = r2
    m1 = m1
    m2 = m2
    RfId = {r1}
    Mac = {m1, m2}
    Routers <- OneNeighbour
    HoldInterval = 2
    ExpireCount = 0
    SendInterval = 1
    MaxAge = 2
    NetCap = 1
PROPERTY PurgeTakesDestinationsDown
