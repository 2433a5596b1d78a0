------------------------------- MODULE PgPool -------------------------------
(***************************************************************************)
(* The connection pool of spido-pg: PgPool (src/spido-pg/src/pool.cpp),    *)
(* its borrowers, its health thread, its condition variable and its cache  *)
(* of prepared statements.                                                 *)
(*                                                                         *)
(* A connection is known by its file descriptor.  Every PgConnection the   *)
(* pool creates has epoch 2 (the constructor's 1 and the close() at the    *)
(* head of connect()), so prep_cache_'s map from descriptor to epoch is    *)
(* the set of the pairs it holds.  A step is one critical section of mtx_  *)
(* or one piece of work outside it.                                        *)
(***************************************************************************)
EXTENDS Integers, Sequences, FiniteSets

CONSTANTS
    Clients,     \* threads that borrow connections
    Fds,         \* descriptors the kernel may hand out
    NoFd,
    Stmts,       \* SQL texts run through exec_prepared()
    MinConns, MaxConns,   \* cfg_ after the constructor's normalisation
    Health,      \* the values that `health` may have
    Faults       \* what may go wrong, see `faults`

ASSUME PoolAssumption ==
    /\ NoFd \notin Fds
    /\ IsFiniteSet(Clients)
    /\ MinConns \in Nat \ {0} /\ MaxConns \in Nat /\ MinConns <= MaxConns
    /\ Health \subseteq BOOLEAN /\ Faults \subseteq {"fail", "refuse"}

VARIABLES
    idle,        \* idle_, in queue order
    live,        \* live_
    pc, held,    \* each client: where it is, the connection it holds
    hpc,         \* the health thread: "wait", "ping" or "create"
    drained, survivors,   \* its local queues
    open,        \* descriptors of existing connections
    ready,       \* those whose is_ready() is true
    session,     \* statements the server session of a descriptor knows
    prepared,    \* prep_cache_: pairs <<sql, fd>>
    health,      \* health_check_s > 0: the health thread runs
    faults       \* chosen at the start: "fail" when connects fail and connections
                 \* break, "refuse" when the server refuses a PREPARE and keeps
                 \* the session

clientVars == <<pc, held>>
healthVars == <<hpc, drained, survivors>>
connVars   == <<open, ready, session, prepared>>
envVars    == <<health, faults>>
vars == <<idle, live, clientVars, healthVars, connVars, envVars>>

Goto(t, l) == pc' = [pc EXCEPT ![t] = l]

-----------------------------------------------------------------------------
(* create_one() and the end of a connection *)

Connect(f) ==
    /\ f \in Fds \ open
    /\ open' = open \cup {f}
    /\ ready' = ready \cup {f}
    /\ session' = [session EXCEPT ![f] = {}]
    /\ UNCHANGED prepared

Destroy(f) ==
    /\ open' = open \ {f}
    /\ ready' = ready \ {f}
    /\ UNCHANGED <<session, prepared>>

\* The constructor fills up to MinConns and stops at the first failure.
Init ==
    /\ health \in Health /\ faults \in SUBSET Faults
    /\ \E q \in UNION {[1..n -> Fds] : n \in 0..MinConns} :
        /\ \A i, j \in DOMAIN q : i # j => q[i] # q[j]
        /\ "fail" \in faults \/ Len(q) = MinConns
        /\ idle = q /\ live = Len(q)
        /\ open = {q[i] : i \in DOMAIN q} /\ ready = {q[i] : i \in DOMAIN q}
    /\ pc = [t \in Clients |-> "out"] /\ held = [t \in Clients |-> NoFd]
    /\ hpc = "wait" /\ drained = <<>> /\ survivors = <<>>
    /\ session = [f \in Fds |-> {}] /\ prepared = {}

-----------------------------------------------------------------------------
(* checkout() *)

Checkout(t) ==
    /\ pc[t] = "out" /\ Goto(t, "loop")
    /\ UNCHANGED <<idle, live, held, healthVars, connVars, envVars>>

TakeIdle(t) ==
    /\ pc[t] = "loop" /\ idle # <<>>
    /\ held' = [held EXCEPT ![t] = Head(idle)]
    /\ idle' = Tail(idle)
    /\ Goto(t, "has")
    /\ UNCHANGED <<live, healthVars, connVars, envVars>>

\* The compare-exchange on live_, then create_one() without the lock.
Reserve(t) ==
    /\ pc[t] = "loop" /\ idle = <<>> /\ live < MaxConns
    /\ live' = live + 1
    /\ Goto(t, "creating")
    /\ UNCHANGED <<idle, held, healthVars, connVars, envVars>>

Created(t) ==
    /\ pc[t] = "creating"
    /\ \E f \in Fds : Connect(f) /\ held' = [held EXCEPT ![t] = f]
    /\ Goto(t, "has")
    /\ UNCHANGED <<idle, live, healthVars, envVars>>

CreateFailedKeepsSlot(t) ==
    /\ "fail" \in faults /\ pc[t] = "creating"
    /\ Goto(t, "pause")
    /\ UNCHANGED <<idle, live, held, healthVars, connVars, envVars>>

CreateFailed(t) ==
    /\ "fail" \in faults /\ pc[t] = "creating"
    /\ live' = live - 1
    /\ Goto(t, "pause")
    /\ UNCHANGED <<idle, held, healthVars, connVars, envVars>>

\* After the 50 ms pause: past the deadline, or round the loop again.
AfterPause(t) ==
    /\ pc[t] = "pause"
    /\ Goto(t, "out") \/ Goto(t, "loop")
    /\ UNCHANGED <<idle, live, held, healthVars, connVars, envVars>>

Block(t) ==
    /\ pc[t] = "loop" /\ idle = <<>> /\ live >= MaxConns
    /\ Goto(t, "wait")
    /\ UNCHANGED <<idle, live, held, healthVars, connVars, envVars>>

Wake(t) ==
    /\ pc[t] = "woken" /\ Goto(t, "loop")
    /\ UNCHANGED <<idle, live, held, healthVars, connVars, envVars>>

Timeout(t) ==
    /\ pc[t] = "wait" /\ Goto(t, "out")
    /\ UNCHANGED <<idle, live, held, healthVars, connVars, envVars>>

-----------------------------------------------------------------------------
(* What a borrower does with its connection *)

ExecPreparedBySql(t, s) ==
    LET f == held[t] IN
    /\ pc[t] = "has" /\ f \in ready
    /\ prepared' = prepared \cup {<<s, g>> : g \in Fds}
    /\ \/ /\ session' = IF <<s, f>> \in prepared THEN session
                        ELSE [session EXCEPT ![f] = @ \cup {s}]
          /\ UNCHANGED ready
       \/ "refuse" \in faults /\ <<s, f>> \notin prepared /\ UNCHANGED <<ready, session>>
       \/ "fail" \in faults /\ ready' = ready \ {f} /\ UNCHANGED session
    /\ UNCHANGED <<idle, live, clientVars, healthVars, open, envVars>>

\* exec_prepared(): PREPARE unless prep_cache_ knows the descriptor, which it
\* learns before the answer, then execute.  Either round trip may break the
\* connection, and nobody looks at the answer to the PREPARE.
ExecPrepared(t, s) ==
    LET f == held[t] IN
    /\ pc[t] = "has" /\ f \in ready
    /\ prepared' = prepared \cup {<<s, f>>}
    /\ \/ /\ session' = IF <<s, f>> \in prepared THEN session
                        ELSE [session EXCEPT ![f] = @ \cup {s}]
          /\ UNCHANGED ready
       \/ "refuse" \in faults /\ <<s, f>> \notin prepared /\ UNCHANGED <<ready, session>>
       \/ "fail" \in faults /\ ready' = ready \ {f} /\ UNCHANGED session
    /\ UNCHANGED <<idle, live, clientVars, healthVars, open, envVars>>

Checkin(t) ==
    LET f == held[t] IN
    /\ pc[t] = "has"
    /\ held' = [held EXCEPT ![t] = NoFd]
    /\ \/ f \in ready /\ idle' = Append(idle, f) /\ UNCHANGED <<live, connVars>>
       \/ f \notin ready /\ live' = live - 1 /\ Destroy(f) /\ UNCHANGED idle
    /\ Goto(t, "notify")
    /\ UNCHANGED <<healthVars, envVars>>

NotifyIfIdle(t) ==
    /\ pc[t] = "notify"
    /\ \/ \E u \in Clients :
            /\ idle # <<>> /\ pc[u] = "wait"
            /\ pc' = [pc EXCEPT ![u] = "woken", ![t] = "out"]
       \/ (idle = <<>> \/ \A u \in Clients : pc[u] # "wait") /\ Goto(t, "out")
    /\ UNCHANGED <<idle, live, held, healthVars, connVars, envVars>>

\* notify_one() wakes any one thread blocked on cv_.  The health thread waits
\* on it too, finds its predicate false and goes on waiting.
Notify(t) ==
    /\ pc[t] = "notify"
    /\ \/ \E u \in Clients :
            pc[u] = "wait" /\ pc' = [pc EXCEPT ![u] = "woken", ![t] = "out"]
       \/ /\ \/ health /\ hpc = "wait"
             \/ \A u \in Clients : pc[u] # "wait"
          /\ Goto(t, "out")
    /\ UNCHANGED <<idle, live, held, healthVars, connVars, envVars>>

-----------------------------------------------------------------------------
(* health_loop() *)

HealthDrain ==
    /\ health /\ hpc = "wait"
    /\ drained' = idle /\ idle' = <<>>
    /\ hpc' = "ping"
    /\ UNCHANGED <<live, survivors, clientVars, connVars, envVars>>

\* SELECT 1 on the next drained connection.
HealthPing ==
    /\ hpc = "ping" /\ drained # <<>>
    /\ drained' = Tail(drained)
    /\ \/ survivors' = Append(survivors, Head(drained)) /\ UNCHANGED <<live, connVars>>
       \/ /\ "fail" \in faults
          /\ live' = live - 1 /\ Destroy(Head(drained)) /\ UNCHANGED survivors
    /\ UNCHANGED <<idle, hpc, clientVars, envVars>>

TopUpForIdle(n) == hpc' = IF Len(idle') < MinConns THEN "create" ELSE "wait"

TopUpOrWait(n) == hpc' = IF n < MinConns THEN "create" ELSE "wait"

HealthReturn ==
    /\ hpc = "ping" /\ drained = <<>>
    /\ idle' = idle \o survivors /\ survivors' = <<>>
    /\ TopUpOrWait(live)
    /\ UNCHANGED <<live, drained, clientVars, connVars, envVars>>

\* The slot is not reserved while the connection is made, and nobody is told.
HealthCreated ==
    /\ hpc = "create"
    /\ \E f \in Fds : Connect(f) /\ idle' = Append(idle, f)
    /\ live' = live + 1
    /\ TopUpOrWait(live + 1)
    /\ UNCHANGED <<drained, survivors, clientVars, envVars>>

HealthCreateFailed ==
    /\ "fail" \in faults /\ hpc = "create" /\ hpc' = "wait"
    /\ UNCHANGED <<idle, live, drained, survivors, clientVars, connVars, envVars>>

-----------------------------------------------------------------------------
ClientStep(t) ==
    \/ Checkout(t) \/ TakeIdle(t) \/ Reserve(t) \/ Created(t) \/ CreateFailed(t)
    \/ AfterPause(t) \/ Block(t) \/ Wake(t) \/ Timeout(t)
    \/ \E s \in Stmts : ExecPrepared(t, s)
    \/ Checkin(t) \/ Notify(t)

HealthStep ==
    HealthDrain \/ HealthPing \/ HealthReturn \/ HealthCreated \/ HealthCreateFailed

Next == HealthStep \/ \E t \in Clients : ClientStep(t)

Spec == Init /\ [][Next]_vars

\* A thread that can run does, and a borrower returns its connection: PgConn's
\* destructor does it.  Nothing is assumed about deadlines.
Fairness ==
    \A t \in Clients :
        /\ WF_vars(TakeIdle(t) \/ Reserve(t) \/ Block(t) \/ Wake(t))
        /\ WF_vars(Created(t)) /\ WF_vars(Checkin(t)) /\ WF_vars(Notify(t))

-----------------------------------------------------------------------------
(* Properties *)

Places == {"out", "loop", "creating", "pause", "has", "wait", "woken", "notify"}

\* Every variable has its type, and a client holds a connection exactly when it
\* has been given one.
TypeOK ==
    /\ idle \in Seq(Fds) /\ drained \in Seq(Fds) /\ survivors \in Seq(Fds)
    /\ live \in Int
    /\ pc \in [Clients -> Places]
    /\ held \in [Clients -> Fds \cup {NoFd}]
    /\ \A t \in Clients : pc[t] = "has" <=> held[t] # NoFd
    /\ hpc \in {"wait", "ping", "create"}
    /\ open \subseteq Fds /\ ready \subseteq open
    /\ session \in [Fds -> SUBSET Stmts]
    /\ prepared \subseteq Stmts \X Fds
    /\ health \in Health /\ faults \subseteq Faults

Owners == {t \in Clients : pc[t] \in {"has", "creating"}}
Owned == Len(idle) + Len(drained) + Len(survivors) + Cardinality(Owners)

\* live_ counts exactly the connections that are idle, borrowed, being pinged
\* or being created with a reserved slot: no path leaks a slot or gives one
\* back twice, so live_ never wraps below zero.
LiveIsOwned == live = Owned

At(q) == {q[i] : i \in DOMAIN q}
Distinct(q) == \A i, j \in DOMAIN q : q[i] = q[j] => i = j

\* A connection is in one place: borrowed by one client, idle, or in the hands
\* of the health thread.  checkout() never hands out, and the health thread
\* never returns, one whose is_ready() is false: nothing can break it while it
\* is idle, so the retry at pool.cpp:82-87 is never taken.
OneOwner ==
    /\ \A t, u \in Clients : held[t] = held[u] /\ held[t] # NoFd => t = u
    /\ \A t \in Clients : held[t] \notin At(idle) \cup At(drained) \cup At(survivors)
    /\ Distinct(idle) /\ Distinct(drained) /\ Distinct(survivors)
    /\ At(idle) \cap At(drained) = {} /\ At(idle) \cap At(survivors) = {}
    /\ At(drained) \cap At(survivors) = {}
    /\ At(idle) \cup At(drained) \cup At(survivors) \subseteq ready

\* Without the health thread the pool never has more than max_conns connections.
LiveBound == ~health => live <= MaxConns

\* The health thread tops up without a reservation, so the pool may overshoot,
\* but by no more than the one connection it is making.
OvershootAtMostOne == live <= MaxConns + 1

\* While no connection breaks and the server refuses no PREPARE, exec_prepared()
\* leaves one out only on a connection whose session has the statement, though
\* prep_cache_ knows connections by descriptor.
CalmSkipsOnlyPrepared ==
    faults = {} =>
        \A t \in Clients, s \in Stmts :
            pc[t] = "has" /\ held[t] \in ready /\ <<s, held[t]>> \in prepared
                => s \in session[held[t]]

\* Then no borrowed connection breaks, so none is closed and no descriptor used
\* twice, and what prep_cache_ knows is known to the session.
CalmInv ==
    faults = {} =>
        /\ \A t \in Clients : held[t] \in ready \cup {NoFd}
        /\ \A c \in prepared : c[2] \in open /\ c[1] \in session[c[2]]

=============================================================================
