SPECIFICATION QuietFromStart
CONSTANTS
    c1 = c1  c2 = c2  s1 = s1  s2 = s2  f1 = f1  o1 = o1
    NoFile = NoFile  NoConfig = NoConfig
    Connectors <- TwoConnectors  Syncs <- TwoSyncs  Files <- OneFile
    OrderIds <- OneOrder  Kind <- MixedKinds  Content <- Single
    MaxCrashes = 1  Reuse = TRUE
PROPERTIES QuietConnectorUntouched EverySyncEnds OrphansSettled
CHECK_DEADLOCK FALSE
