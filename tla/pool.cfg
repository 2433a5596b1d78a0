CONSTANTS
    Clients = {t1, t2, t3, t4}
    t1 = t1
    t2 = t2
    t3 = t3
    t4 = t4
    Fds = {f1, f2, f3, f4}
    f1 = f1
    f2 = f2
    f3 = f3
    f4 = f4
    Stmts = {s1}
    s1 = s1
    NoFd = NoFd
    MinConns = 1
    MaxConns = 2
    Health = {TRUE, FALSE}
    Faults = {"fail", "refuse"}
SPECIFICATION MCSpec
INVARIANT LiveIsOwned
INVARIANT OvershootAtMostOne
 
 
