SPECIFICATION ClientsSpec
CONSTANTS
    e1 = e1  e2 = e2  u1 = u1  c1 = c1  c2 = c2  t1 = t1  t2 = t2
    NoUser = NoUser  Unknown = Unknown
    JsEvents <- TwoEvents  JsUsers <- OneUser  BatchSize = 2  MaxRetries = 2
    NodeCalls <- TwoCalls  Timeout = 2
    RnEvents <- TwoEvents  RnUsers <- OneUser  MaxStarts = 3
    Pages <- PageTable  MaxClicks = 2  MaxRefresh = 1
    MaxPicks = 3  MaxAsks = 2
    Tabs <- TwoTabs  MaxSignIns = 2  MaxSends = 2
    History = 1  MaxShown = 2  MaxIds = 2  MaxStreams = 3
INVARIANTS
    JsNoNeedlessCopy RnOneVisitor ScreenTrue SaidDone AskedFirst FlagsFreed SelectionShown SessionWhole
    OneReader
PROPERTIES JsSettled NodeTold
CHECK_DEADLOCK FALSE
