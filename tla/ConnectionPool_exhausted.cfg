SPECIFICATION FairSpec
CONSTANTS
    k1 = k1  k2 = k2  i1 = i1  i2 = i2  Nobody = Nobody  NoConn = NoConn
    Conns <- TwoConns  Ingests <- TwoIngests  Plain <- NoPlain
PROPERTIES IngestNotHeldUp
CHECK_DEADLOCK FALSE
