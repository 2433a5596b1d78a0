CONSTANTS
    Recs = {r1, r2, r3}
    r1 = r1
    r2 = r2
    r3 = r3
    NoRec = NoRec
    Modes = {"FdatasyncInterval"}
    Faults = {}
    MaxCompact = 1
    MaxCrash = 1
SPECIFICATION MCSpec
INVARIANT AckedRecoverable
CHECK_DEADLOCK FALSE
