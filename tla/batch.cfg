CONSTANTS
    w1 = w1
    w2 = w2
    w3 = w3
    w4 = w4
    k1 = k1
    k2 = k2
    None = None
    Writes <- Rows
    SyncWrites = {w4}
    Keys = {k1, k2}
    Key <- RowKey
    Version <- RowVersion
    Tables = {"Event", "Versioned"}
    BatchSizes = {1, 2, 3}
    MaxRetry = 2
    Faults = {"refuse", "break", "crash"}
SPECIFICATION MCSpec
INVARIANT RowsAccounted
INVARIANT AtMostMaxRetry
INVARIANT StateLastWriteWins
 
 
CHECK_DEADLOCK FALSE
