CONSTANTS
    w1 = w1
    w2 = w2
    n = n
    a = a
    b = b
    k1 = k1
    k2 = k2
    k3 = k3
    None = None
    Workers = {w1, w2}
    Listener = n
    Tables = {a, b}
    Keys = {k1, k2, k3}
    Tag <- TagOf
    Home <- HomeOf
    NSlots = 2
    ProbeRange = 2
    Quota = 1
    L1Cap = 1
    MaxCalls = 5
SPECIFICATION MCSpec
 
INVARIANT Indexed
INVARIANT InvalidationComplete
 
CHECK_DEADLOCK FALSE
