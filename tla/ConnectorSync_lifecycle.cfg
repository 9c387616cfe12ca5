SPECIFICATION Spec
CONSTANTS
    c1 = c1  c2 = c2  s1 = s1  s2 = s2  f1 = f1  o1 = o1
    NoFile = NoFile  NoConfig = NoConfig
    Connectors <- OneConnector  Syncs <- TwoSyncs  Files <- OneFile
    OrderIds <- OneOrder  Kind <- UploadOnly  Content <- Single
    MaxCrashes = 1  Reuse = FALSE
SYMMETRY SyncSymmetry
CONSTRAINT UploadsBeforeCrash
INVARIANTS TypeOK SuccessMeansLanded NoRunLeftRunning NothingOfDeleted OrdersIdempotent
PROPERTIES YoungVerdictFinal
CHECK_DEADLOCK FALSE
