CONSTANTS
    NWorkers = 2
    Capacity = 2
    KBatch = 2
    Requests <- BusyAndQuiet
    WriteFails = TRUE
SPECIFICATION FairSpec
INVARIANT NothingLeftBehind
PROPERTY IsBoundedQueue
 
