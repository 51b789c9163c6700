SPECIFICATION Spec
CONSTANTS
    Loads = {l1, l2}
    k1 = k1
    k2 = k2
    Keys <- MCKeys
    None = None
    Files <- MCFiles
    ChunkSize = 2
    MaxRows = 4
    MaxErrors = 1
INVARIANTS
    
    FirstOfKeyWins
PROPERTIES
    EveryLoadAnswered
CHECK_DEADLOCK FALSE
