SPECIFICATION Spec
CONSTANTS
    j1 = j1 j2 = j2
    Jobs = {j1, j2}
    Batch <- MCBatch
    MaxRuns = 3
    None = None
 
PROPERTIES JobsSettle
CHECK_DEADLOCK FALSE
