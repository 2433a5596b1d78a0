CONSTANTS
    Recs = {r1, r2, r3}
    r1 = r1
    r2 = r2
    r3 = r3
    NoRec = NoRec
    Modes = {"OsBuffered", "FdatasyncInterval", "FdatasyncAlways"}
    Faults = {"torn", "reject"}
    MaxCompact = 1
    MaxCrash = 2
SPECIFICATION MCSpec
 
INVARIANT SoundRecovery
PROPERTY SoundCompaction
PROPERTY SoundDurable
CHECK_DEADLOCK FALSE
