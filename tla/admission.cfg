SPECIFICATION MCSpec
CONSTANTS
    c1 = c1
    c2 = c2
    Clients = {c1, c2}
    Endpoints = {1, 2}
    Prio <- MCPrio
    Budget <- MCBudget
    NormalPrio = "normal"
    Cost = 2
    MaxTries = 2
    MaxConns = 2
    Word = 65536
    Latencies = {1, 20}
    MaxTime = 2
    MaxEvents = 2
    MaxAcquires = 3
INVARIANT LevelSound
INVARIANT WithinBudget
PROPERTY PressureFades
CHECK_DEADLOCK FALSE
