SPECIFICATION IngestSpec
CONSTANTS
    k1 = k1  k2 = k2  k3 = k3  k4 = k4  i1 = i1  i2 = i2  g1 = g1
    Nobody = Nobody  NoConn = NoConn  NoRow = NoRow
    Conns <- FourConns  Ingests <- TwoIngests  Plain <- OnePlain
    Burst = 3  Cost = 2  MaxTime = 2
INVARIANTS OverdraftIsWaiting NeverTooStrict Accounted SomebodyCanGoOn
PROPERTIES EveryRequestEnds AdmissionKept
