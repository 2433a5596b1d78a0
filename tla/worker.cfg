CONSTANTS
    k1 = k1
    k2 = k2
    None = None
    Clients = {k1, k2}
    Script <- Dialogues
    NSlots = 1
    NBufs = 1
    Fixed = {TRUE, FALSE}
    Timeouts = TRUE
    Pipelining = FALSE
SPECIFICATION Spec
INVARIANT ResourcesConserved
 
 
INVARIANT CloseOnTheWay
INVARIANT StopWaitsForLate
