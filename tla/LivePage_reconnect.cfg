SPECIFICATION LiveSpec
CONSTANTS History = 1  MaxShown = 3  MaxIds = 3  MaxStreams = 3
INVARIANTS ListedOnce
CHECK_DEADLOCK FALSE
