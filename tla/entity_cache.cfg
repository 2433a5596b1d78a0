CONSTANTS
    r1 = r1
    r2 = r2
    own = own
    own2 = own2
    other = other
    None = None
    Readers = {r1, r2}
    Keys = {own, own2, other}
    Local = {own, own2}
    Home <- HomeOf
    NSlots = 2
    ProbeLength = 2
    Quota = 1
    MaxCalls = 4
    MaxSessions = 2
SPECIFICATION MCSpec
SYMMETRY Sym
INVARIANT SlotsExact
 
INVARIANT ReadsSubscribed
INVARIANT StopWakesReader
CHECK_DEADLOCK FALSE
