SPECIFICATION FairSpec
CONSTANTS
    Router = {r1, r2}
    Conn = {c1, c2}
    NoConn = none
    Failures = 0
INVARIANTS TypeOK OnePeerEach PeersAreMapped
PROPERTIES Rediscovery TerminatingIsRemoved
