---------------------------- MODULE PgPoolProofs ----------------------------
(***************************************************************************)
(* Proofs about the connection pool, for any number of clients and         *)
(* descriptors and any bounds MinConns <= MaxConns.                        *)
(***************************************************************************)
EXTENDS PgPool, FiniteSetTheorems, TLAPS

\* A step is first-order unless it names the SMT solver.
USE ZenonT(30)

USE DEF Places

LEMMA QueueFacts ==
    ASSUME NEW q \in Seq(Fds), NEW f \in Fds
    PROVE  /\ Append(q, f) \in Seq(Fds) /\ Len(Append(q, f)) = Len(q) + 1
           /\ Len(q) \in Nat
           /\ q # <<>> => /\ Head(q) \in Fds /\ Tail(q) \in Seq(Fds)
                          /\ Len(Tail(q)) = Len(q) - 1
BY SMTT(60)

LEMMA ConcatFacts ==
    ASSUME NEW p \in Seq(Fds), NEW q \in Seq(Fds)
    PROVE  p \o q \in Seq(Fds) /\ Len(p \o q) = Len(p) + Len(q)
BY SMTT(60)

-----------------------------------------------------------------------------
(* Type correctness *)

LEMMA TypeInit == Init => TypeOK
<1> SUFFICES ASSUME Init PROVE TypeOK
  OBVIOUS
<1>1. PICK q \in UNION {[1..n -> Fds] : n \in 0..MinConns} :
        /\ idle = q /\ live = Len(q)
        /\ open = {q[i] : i \in DOMAIN q} /\ ready = {q[i] : i \in DOMAIN q}
  BY DEF Init
<1>2. PICK n \in 0..MinConns : q \in [1..n -> Fds]
  BY <1>1
<1>3. n \in Nat
  BY PoolAssumption, <1>2, SMTT(60)
<1>4. q \in Seq(Fds) /\ Len(q) \in Nat
  BY <1>2, <1>3, SMTT(60)
<1>5. {q[i] : i \in DOMAIN q} \subseteq Fds
  BY <1>2
<1>6. idle \in Seq(Fds) /\ live \in Int /\ open \subseteq Fds /\ ready \subseteq open
  BY <1>1, <1>4, <1>5, SMTT(60)
<1> QED BY <1>6, PoolAssumption, SMTT(60) DEF Init, TypeOK

\* The health thread runs or not, and what may go wrong stays the same.
LEMMA EnvKept == [Next]_vars => health' = health /\ faults' = faults
<1> USE DEF envVars
<1>1. HealthStep => health' = health /\ faults' = faults
  BY DEF HealthStep, HealthDrain, HealthPing, HealthReturn, HealthCreated, HealthCreateFailed
<1>2. ASSUME NEW t \in Clients, ClientStep(t) PROVE health' = health /\ faults' = faults
  <2>1. CASE Checkin(t)
    BY <2>1 DEF Checkin
  <2>2. CASE ~Checkin(t)
    BY <1>2, <2>2 DEF ClientStep, Checkout, TakeIdle, Reserve, Created, CreateFailed,
           AfterPause, Block, Wake, Timeout, ExecPrepared, Notify
  <2> QED BY <2>1, <2>2
<1> QED BY <1>1, <1>2 DEF Next, vars

LEMMA TypeStep == TypeOK /\ [Next]_vars => TypeOK'
<1> SUFFICES ASSUME TypeOK, [Next]_vars PROVE TypeOK'
  OBVIOUS
<1> USE PoolAssumption
<1>0. health' = health /\ faults' = faults
  BY EnvKept
<1> USE <1>0
<1>1. ASSUME NEW t \in Clients,
             \/ Checkout(t) \/ Reserve(t) \/ CreateFailed(t) \/ AfterPause(t)
             \/ Block(t) \/ Wake(t) \/ Timeout(t)
      PROVE  TypeOK'
  <2>0. pc \in [Clients -> Places] /\ live \in Int
    BY DEF TypeOK
  <2>a. PICK l \in Places \ {"has"} :
          pc[t] # "has" /\ pc' = [pc EXCEPT ![t] = l] /\ held' = held
    BY <1>1 DEF Checkout, Reserve, CreateFailed, AfterPause, Block, Wake, Timeout, Goto
  <2>b. live' = live \/ live' = live + 1 \/ live' = live - 1
    BY <1>1 DEF Checkout, Reserve, CreateFailed, AfterPause, Block, Wake, Timeout
  <2>1. /\ pc' \in [Clients -> Places] /\ live' \in Int /\ held' = held
        /\ \A u \in Clients : pc'[u] = "has" <=> pc[u] = "has"
    BY <2>0, <2>a, <2>b, SMTT(60)
  <2>2. UNCHANGED <<idle, healthVars, connVars>>
    BY <1>1 DEF Checkout, Reserve, CreateFailed, AfterPause, Block, Wake, Timeout
  <2> QED BY <2>1, <2>2 DEF TypeOK, healthVars, connVars
<1>2. ASSUME NEW t \in Clients, TakeIdle(t) PROVE TypeOK'
  <2>1. Head(idle) \in Fds /\ Tail(idle) \in Seq(Fds)
    BY <1>2, SMTT(60) DEF TakeIdle, TypeOK
  <2> QED BY <1>2, <2>1 DEF TypeOK, TakeIdle, Goto, healthVars, connVars
<1>3. ASSUME NEW t \in Clients, Created(t) PROVE TypeOK'
  BY <1>3, SMTT(60) DEF TypeOK, Created, Connect, Goto, healthVars
<1>4. ASSUME NEW t \in Clients, NEW s \in Stmts, ExecPrepared(t, s) PROVE TypeOK'
  <2>1. held[t] \in Fds
    BY <1>4 DEF TypeOK, ExecPrepared
  <2>2. /\ session' \in {session, [session EXCEPT ![held[t]] = @ \cup {s}]}
        /\ ready' \in {ready, ready \ {held[t]}}
        /\ prepared' = prepared \cup {<<s, held[t]>>}
    BY <1>4 DEF ExecPrepared
  <2>3. session' \in [Fds -> SUBSET Stmts]
    BY <2>1, <2>2, SMTT(60) DEF TypeOK
  <2>4. ready' \subseteq open /\ prepared' \subseteq Stmts \X Fds
    BY <2>1, <2>2, SMTT(60) DEF TypeOK
  <2>5. UNCHANGED <<idle, live, clientVars, healthVars, open>>
    BY <1>4 DEF ExecPrepared
  <2> QED BY <2>3, <2>4, <2>5 DEF TypeOK, clientVars, healthVars
<1>5. ASSUME NEW t \in Clients, Checkin(t) PROVE TypeOK'
  <2>1. held[t] \in Fds
    BY <1>5 DEF TypeOK, Checkin
  <2>2. idle' \in Seq(Fds) /\ live' \in Int
    <3>1. Append(idle, held[t]) \in Seq(Fds)
      BY <2>1, SMTT(60) DEF TypeOK
    <3>2. \/ idle' = Append(idle, held[t]) /\ live' = live
          \/ idle' = idle /\ live' = live - 1
      BY <1>5 DEF Checkin
    <3>3. idle \in Seq(Fds) /\ live \in Int
      BY DEF TypeOK
    <3>4. CASE idle' = Append(idle, held[t]) /\ live' = live
      BY <3>1, <3>3, <3>4
    <3>5. CASE idle' = idle /\ live' = live - 1
      BY <3>3, <3>5, SMTT(60)
    <3> QED BY <3>2, <3>4, <3>5
  <2>3. /\ open' \subseteq open /\ ready' \subseteq open'
        /\ session' = session /\ prepared' = prepared
    BY <1>5 DEF TypeOK, Checkin, Destroy, connVars
  <2>4. /\ pc' \in [Clients -> Places] /\ held' \in [Clients -> Fds \cup {NoFd}]
        /\ \A u \in Clients : pc'[u] = "has" <=> held'[u] # NoFd
    BY <1>5 DEF TypeOK, Checkin, Goto
  <2>5. UNCHANGED healthVars
    BY <1>5 DEF Checkin
  <2> QED BY <2>2, <2>3, <2>4, <2>5 DEF TypeOK, healthVars
<1>6. ASSUME NEW t \in Clients, Notify(t) PROVE TypeOK'
  <2>1. /\ pc' \in [Clients -> Places]
        /\ \A u \in Clients : pc'[u] = "has" <=> pc[u] = "has"
    BY <1>6 DEF TypeOK, Notify, Goto
  <2> QED BY <1>6, <2>1 DEF TypeOK, Notify, healthVars, connVars
<1>7. CASE HealthDrain
  <2>1. idle' = <<>> /\ drained' = idle /\ hpc' = "ping" /\ UNCHANGED <<live, survivors, clientVars, connVars>>
    BY <1>7 DEF HealthDrain
  <2>2. idle' \in Seq(Fds)
    BY <2>1, SMTT(60)
  <2> QED BY <2>1, <2>2 DEF TypeOK, clientVars, connVars
<1>8. CASE HealthPing
  <2>1. Head(drained) \in Fds /\ drained' \in Seq(Fds) /\ survivors' \in Seq(Fds)
    <3>1. /\ drained \in Seq(Fds) /\ survivors \in Seq(Fds) /\ drained # <<>>
          /\ drained' = Tail(drained)
      BY <1>8 DEF TypeOK, HealthPing
    <3>2. Head(drained) \in Fds /\ Tail(drained) \in Seq(Fds)
      BY <3>1, SMTT(60)
    <3>3. Append(survivors, Head(drained)) \in Seq(Fds)
      BY <3>1, <3>2, SMTT(60)
    <3>4. survivors' = survivors \/ survivors' = Append(survivors, Head(drained))
      BY <1>8 DEF HealthPing
    <3> QED BY <3>1, <3>2, <3>3, <3>4
  <2>2. /\ open' \subseteq open /\ ready' \subseteq open' /\ live' \in Int
        /\ session' = session /\ prepared' = prepared
    BY <1>8, SMTT(60) DEF TypeOK, HealthPing, Destroy, connVars
  <2>3. UNCHANGED <<idle, hpc, clientVars>>
    BY <1>8 DEF HealthPing
  <2> QED BY <2>1, <2>2, <2>3 DEF TypeOK, clientVars
<1>9. CASE HealthReturn
  BY <1>9, SMTT(60) DEF TypeOK, HealthReturn, TopUpOrWait, clientVars, connVars
<1>10. CASE HealthCreated
  <2>1. PICK f \in Fds : Connect(f) /\ idle' = Append(idle, f)
    BY <1>10 DEF HealthCreated
  <2>2. idle' \in Seq(Fds)
    BY <2>1, SMTT(60) DEF TypeOK
  <2> QED BY <1>10, <2>1, <2>2, SMTT(60) DEF TypeOK, HealthCreated, Connect, TopUpOrWait, clientVars
<1>11. CASE HealthCreateFailed
  BY <1>11 DEF TypeOK, HealthCreateFailed, clientVars, connVars
<1>12. CASE UNCHANGED vars
  BY <1>12 DEF TypeOK, vars, clientVars, healthVars, connVars
<1> QED
  BY <1>1, <1>2, <1>3, <1>4, <1>5, <1>6, <1>7, <1>8, <1>9, <1>10, <1>11, <1>12
  DEF Next, ClientStep, HealthStep

\* The pool's variables keep their types, and a client holds a connection
\* exactly while it has one (checkout, checkin, health_loop).
THEOREM TypeCorrect == Spec => []TypeOK
BY TypeInit, TypeStep, PTL DEF Spec

-----------------------------------------------------------------------------
(* The pool overshoots by at most one *)

\* A borrower's step adds to live_ only by reserving a slot below max_conns.
LEMMA ClientMoves ==
    ASSUME NEW t \in Clients, ClientStep(t)
    PROVE  /\ hpc' = hpc
           /\ live' = live \/ live' = live - 1 \/ (live < MaxConns /\ live' = live + 1)
<1>1. CASE Checkin(t)
  BY <1>1 DEF Checkin, healthVars
<1>2. CASE ~Checkin(t)
  BY <1>2 DEF ClientStep, Checkout, TakeIdle, Reserve, Created, CreateFailed,
         AfterPause, Block, Wake, Timeout, ExecPrepared, Notify, healthVars
<1> QED BY <1>1, <1>2

\* The constructor creates at most min_conns connections.
LEMMA InitWithinMax == Init => live \in Nat /\ live <= MaxConns /\ hpc = "wait"
<1> SUFFICES ASSUME Init PROVE live \in Nat /\ live <= MaxConns /\ hpc = "wait"
  OBVIOUS
<1>1. PICK q \in UNION {[1..n -> Fds] : n \in 0..MinConns} : live = Len(q)
  BY DEF Init
<1>2. PICK n \in 0..MinConns : q \in [1..n -> Fds]
  BY <1>1
<1>3. Len(q) = n
  BY <1>2, SMTT(60)
<1> QED BY <1>1, <1>2, <1>3, PoolAssumption, SMTT(60) DEF Init

BoundInv == OvershootAtMostOne /\ (hpc = "create" => live <= MaxConns)

\* However many clients reserve slots while the health thread tops up, live_
\* exceeds max_conns by at most the connection it is making (pool.cpp:219-226).
THEOREM OvershootBounded == Spec => []OvershootAtMostOne
<1> USE PoolAssumption DEF BoundInv, OvershootAtMostOne
<1>1. Init => BoundInv
  BY InitWithinMax, SMTT(60)
<1>2. TypeOK /\ BoundInv /\ [Next]_vars => BoundInv'
  <2> SUFFICES ASSUME TypeOK, BoundInv, [Next]_vars PROVE BoundInv'
    OBVIOUS
  <2>0. live \in Int
    BY DEF TypeOK
  <2>1. CASE HealthStep
    BY <2>0, <2>1, SMTT(60) DEF HealthStep, HealthDrain, HealthPing, HealthReturn, HealthCreated,
                 HealthCreateFailed, TopUpOrWait
  <2>2. ASSUME NEW t \in Clients, ClientStep(t) PROVE BoundInv'
    BY <2>0, <2>2, ClientMoves, SMTT(60)
  <2>3. CASE UNCHANGED vars
    BY <2>3 DEF vars, healthVars
  <2> QED BY <2>1, <2>2, <2>3 DEF Next
<1>3. BoundInv => OvershootAtMostOne
  OBVIOUS
<1> QED BY <1>1, <1>2, <1>3, TypeInit, TypeStep, PTL DEF Spec

\* Without the health thread the compare-exchange of checkout() alone keeps the
\* pool within max_conns, through failed connects and broken connections.
THEOREM ReservationSuffices == Spec => []LiveBound
<1> DEFINE Quiet == ~health => live <= MaxConns /\ hpc = "wait"
<1> USE PoolAssumption
<1>1. Init => Quiet
  BY InitWithinMax
<1>2. TypeOK /\ Quiet /\ [Next]_vars => Quiet'
  <2> SUFFICES ASSUME TypeOK, ~health, live <= MaxConns, hpc = "wait", [Next]_vars
               PROVE  live' <= MaxConns /\ hpc' = "wait"
    BY EnvKept
  <2>0. live \in Int
    BY DEF TypeOK
  <2>1. ~HealthStep
    BY DEF HealthStep, HealthDrain, HealthPing, HealthReturn, HealthCreated,
           HealthCreateFailed
  <2>2. ASSUME NEW t \in Clients, ClientStep(t) PROVE live' <= MaxConns /\ hpc' = "wait"
    BY <2>0, <2>2, ClientMoves, SMTT(60)
  <2>3. CASE UNCHANGED vars
    BY <2>3 DEF vars, healthVars
  <2> QED BY <2>1, <2>2, <2>3 DEF Next
<1>3. Quiet => LiveBound
  BY DEF LiveBound
<1> QED BY <1>1, <1>2, <1>3, TypeInit, TypeStep, PTL DEF Spec

-----------------------------------------------------------------------------
(* live_ is exact *)

\* Clients that join or leave the owners one at a time.
LEMMA OwnersCount ==
    ASSUME NEW S, IsFiniteSet(S), NEW t
    PROVE  /\ Cardinality(S) \in Nat
           /\ t \notin S => Cardinality(S \cup {t}) = Cardinality(S) + 1
           /\ t \in S => Cardinality(S \ {t}) = Cardinality(S) - 1
           /\ IsFiniteSet(S \cup {t}) /\ IsFiniteSet(S \ {t})
BY FS_CardinalityType, FS_AddElement, FS_RemoveElement

LEMMA OwnersFinite == IsFiniteSet(Owners)
BY PoolAssumption, FS_Subset DEF Owners

\* Between two rounds the health thread holds no connection.
RestEmpty == hpc # "ping" => drained = <<>> /\ survivors = <<>>
OwnedInv == LiveIsOwned /\ RestEmpty

LEMMA RestStep == TypeOK /\ RestEmpty /\ [Next]_vars => RestEmpty'
<1> SUFFICES ASSUME TypeOK, RestEmpty, [Next]_vars PROVE RestEmpty'
  OBVIOUS
<1>1. CASE HealthStep
  BY <1>1 DEF RestEmpty, TypeOK, HealthStep, HealthDrain, HealthPing, HealthReturn,
             HealthCreated, HealthCreateFailed, TopUpOrWait
<1>2. ASSUME NEW t \in Clients, ClientStep(t) PROVE UNCHANGED healthVars
  <2>1. CASE Checkin(t)
    BY <2>1 DEF Checkin
  <2> QED BY <1>2, <2>1 DEF ClientStep, Checkout, TakeIdle, Reserve, Created, CreateFailed,
           AfterPause, Block, Wake, Timeout, ExecPrepared, Notify
<1>3. CASE UNCHANGED healthVars
  BY <1>3 DEF RestEmpty, healthVars
<1> QED BY <1>1, <1>2, <1>3 DEF Next, vars

LEMMA OwnedStep == TypeOK /\ TypeOK' /\ OwnedInv /\ [Next]_vars => OwnedInv'
<1> SUFFICES ASSUME TypeOK, TypeOK', OwnedInv, [Next]_vars PROVE LiveIsOwned'
  BY RestStep DEF OwnedInv
<1> DEFINE C == Cardinality(Owners)
           Q == Len(idle) + Len(drained) + Len(survivors)
<1>a. /\ C \in Nat /\ live = Q + C /\ Q \in Nat
      /\ Len(idle) \in Nat /\ Len(drained) \in Nat /\ Len(survivors) \in Nat
  <2>1. Len(idle) \in Nat /\ Len(drained) \in Nat /\ Len(survivors) \in Nat
    BY SMTT(60) DEF TypeOK
  <2>2. C \in Nat
    BY OwnersFinite, OwnersCount
  <2>3. live = Q + C
    BY DEF OwnedInv, LiveIsOwned, Owned
  <2> QED BY <2>1, <2>2, <2>3, SMTT(60)
<1>b. LiveIsOwned' <=> live' = Q' + C'
  BY DEF LiveIsOwned, Owned
<1>c. ASSUME Owners' = Owners, live' = live, Q' = Q PROVE LiveIsOwned'
  BY <1>a, <1>b, <1>c
<1>1. ASSUME NEW t \in Clients,
             \/ Checkout(t) \/ AfterPause(t) \/ Block(t) \/ Wake(t) \/ Timeout(t)
             \/ Created(t) \/ Notify(t) \/ \E s \in Stmts : ExecPrepared(t, s)
      PROVE  LiveIsOwned'
  <2>1. Owners' = Owners
    BY <1>1 DEF TypeOK, Owners, Checkout, AfterPause, Block, Wake, Timeout, Created,
               Notify, ExecPrepared, Goto, clientVars
  <2>2. live' = live /\ Q' = Q
    BY <1>1 DEF Checkout, AfterPause, Block, Wake, Timeout, Created, Notify,
               ExecPrepared, healthVars
  <2> QED BY <1>c, <2>1, <2>2
<1>2. ASSUME NEW t \in Clients, TakeIdle(t) \/ Reserve(t) PROVE LiveIsOwned'
  <2>1. t \notin Owners /\ Owners' = Owners \cup {t}
    BY <1>2, SMTT(60) DEF TypeOK, Owners, TakeIdle, Reserve, Goto
  <2>2. C' = C + 1
    BY <2>1, OwnersFinite, OwnersCount
  <2>3. \/ live' = live + 1 /\ Q' = Q
        \/ live' = live /\ Q' = Q - 1
    <3>1. CASE Reserve(t)
      BY <3>1 DEF Reserve, healthVars
    <3>2. CASE TakeIdle(t)
      <4>1. Len(idle') = Len(idle) - 1
        BY <3>2, SMTT(60) DEF TypeOK, TakeIdle
      <4>2. UNCHANGED <<live, drained, survivors>>
        BY <3>2 DEF TakeIdle, healthVars
      <4> QED BY <1>a, <4>1, <4>2, SMTT(60)
    <3> QED BY <1>2, <3>1, <3>2
  <2> HIDE DEF C, Q
  <2> QED BY <1>a, <1>b, <2>2, <2>3, SMTT(60)
<1>3. ASSUME NEW t \in Clients, CreateFailed(t) \/ Checkin(t) PROVE LiveIsOwned'
  <2>1. t \in Owners /\ Owners' = Owners \ {t}
    BY <1>3 DEF TypeOK, Owners, CreateFailed, Checkin, Goto
  <2>2. C' = C - 1
    BY <2>1, OwnersFinite, OwnersCount
  <2>3. \/ live' = live - 1 /\ Q' = Q
        \/ live' = live /\ Q' = Q + 1
    <3>1. CASE CreateFailed(t)
      BY <3>1 DEF CreateFailed, healthVars
    <3>2. CASE Checkin(t)
      <4>1. \/ idle' = Append(idle, held[t]) /\ live' = live
            \/ idle' = idle /\ live' = live - 1
        BY <3>2 DEF Checkin
      <4>2. Len(Append(idle, held[t])) = Len(idle) + 1
        BY SMTT(60) DEF TypeOK
      <4>3. UNCHANGED <<drained, survivors>>
        BY <3>2 DEF Checkin, healthVars
      <4>4. CASE idle' = Append(idle, held[t]) /\ live' = live
        BY <1>a, <4>2, <4>3, <4>4, SMTT(60)
      <4>5. CASE idle' = idle /\ live' = live - 1
        BY <4>3, <4>5
      <4> QED BY <4>1, <4>4, <4>5
    <3> QED BY <1>3, <3>1, <3>2
  <2> HIDE DEF C, Q
  <2> QED BY <1>a, <1>b, <2>2, <2>3, SMTT(60)
<1>4. CASE HealthStep
  <2>1. Owners' = Owners
    BY <1>4 DEF HealthStep, HealthDrain, HealthPing, HealthReturn, HealthCreated,
               HealthCreateFailed, Owners, clientVars
  <2>2. \/ live' = live /\ Q' = Q
        \/ live' = live - 1 /\ Q' = Q - 1
        \/ live' = live + 1 /\ Q' = Q + 1
    <3>1. CASE HealthPing
      <4>1. Len(drained') = Len(drained) - 1
        BY <3>1, SMTT(60) DEF TypeOK, HealthPing
      <4>2. \/ survivors' = Append(survivors, Head(drained)) /\ live' = live
            \/ survivors' = survivors /\ live' = live - 1
        BY <3>1 DEF HealthPing
      <4>3. Len(Append(survivors, Head(drained))) = Len(survivors) + 1
        BY <3>1, SMTT(60) DEF TypeOK, HealthPing
      <4>4. idle' = idle
        BY <3>1 DEF HealthPing
      <4>5. CASE survivors' = Append(survivors, Head(drained)) /\ live' = live
        BY <1>a, <4>1, <4>3, <4>4, <4>5, SMTT(60)
      <4>6. CASE survivors' = survivors /\ live' = live - 1
        BY <1>a, <4>1, <4>4, <4>6, SMTT(60)
      <4> QED BY <4>2, <4>5, <4>6
    <3>2. CASE HealthReturn
      <4>1. Len(idle') = Len(idle) + Len(survivors)
        BY <3>2, ConcatFacts DEF TypeOK, HealthReturn
      <4>2. Len(survivors') = 0 /\ UNCHANGED <<live, drained>>
        BY <3>2 DEF HealthReturn
      <4> QED BY <1>a, <4>1, <4>2, SMTT(60)
    <3>3. CASE HealthCreated
      <4>1. PICK f \in Fds : idle' = Append(idle, f)
        BY <3>3 DEF HealthCreated
      <4>2. Len(idle') = Len(idle) + 1
        BY <4>1, SMTT(60) DEF TypeOK
      <4>3. live' = live + 1 /\ UNCHANGED <<drained, survivors>>
        BY <3>3 DEF HealthCreated
      <4> QED BY <1>a, <4>2, <4>3, SMTT(60)
    <3>4. CASE HealthDrain
      <4>1. hpc = "wait" /\ drained' = idle /\ Len(idle') = 0
            /\ UNCHANGED <<live, survivors>>
        BY <3>4 DEF HealthDrain
      <4>2. Len(drained) = 0 /\ Len(survivors) = 0
        BY <4>1 DEF OwnedInv, RestEmpty
      <4> QED BY <1>a, <4>1, <4>2, SMTT(60)
    <3>5. CASE HealthCreateFailed
      BY <3>5 DEF HealthCreateFailed
    <3> QED BY <1>4, <3>1, <3>2, <3>3, <3>4, <3>5 DEF HealthStep
  <2>3. C' = C
    BY <2>1
  <2> HIDE DEF C, Q
  <2> QED BY <1>a, <1>b, <2>2, <2>3, SMTT(60)
<1>5. CASE UNCHANGED vars
  BY <1>c, <1>5 DEF vars, Owners, clientVars, healthVars
<1> QED BY <1>1, <1>2, <1>3, <1>4, <1>5 DEF Next, ClientStep

\* live_ is the number of connections idle, borrowed, under a health check or
\* being created in a reserved slot: no interleaving of checkouts, checkins,
\* failed connects and health checks leaks a slot or frees one twice.
THEOREM LiveExact == Spec => []LiveIsOwned
<1>1. Init => OwnedInv
  <2> SUFFICES ASSUME Init PROVE OwnedInv
    OBVIOUS
  <2>1. Owners = {}
    BY DEF Init, Owners
  <2>2. Cardinality(Owners) = 0
    BY <2>1, FS_EmptySet
  <2>3. Len(idle) \in Nat /\ live = Len(idle)
    BY TypeInit, SMTT(60) DEF Init, TypeOK
  <2>4. drained = <<>> /\ survivors = <<>>
    BY DEF Init
  <2> QED BY <2>2, <2>3, <2>4, SMTT(60) DEF OwnedInv, LiveIsOwned, Owned, RestEmpty
<1>2. OwnedInv => LiveIsOwned
  BY DEF OwnedInv
<1> QED BY <1>1, <1>2, TypeInit, TypeStep, OwnedStep, PTL DEF Spec

-----------------------------------------------------------------------------
(* A connection has one owner *)

LEMMA AtAppend ==
    ASSUME NEW q \in Seq(Fds), NEW f \in Fds
    PROVE  /\ At(Append(q, f)) = At(q) \cup {f}
           /\ Distinct(q) /\ f \notin At(q) => Distinct(Append(q, f))
<1> DEFINE r == Append(q, f)
<1>1. /\ Len(q) \in Nat /\ DOMAIN q = 1 .. Len(q) /\ DOMAIN r = 1 .. Len(q) + 1
      /\ r[Len(q) + 1] = f /\ \A i \in 1 .. Len(q) : r[i] = q[i]
  BY SMTT(60)
<1> HIDE DEF r
<1>2. At(r) = At(q) \cup {f}
  <2>1. ASSUME NEW x \in At(r) PROVE x \in At(q) \cup {f}
    BY <1>1, SMTT(60) DEF At
  <2>2. ASSUME NEW x \in At(q) \cup {f} PROVE x \in At(r)
    <3>1. CASE x = f
      BY <1>1, <3>1, SMTT(60) DEF At
    <3>2. CASE x \in At(q)
      BY <1>1, <3>2, SMTT(60) DEF At
    <3> QED BY <3>1, <3>2
  <2> QED BY <2>1, <2>2
<1>3. ASSUME Distinct(q), f \notin At(q) PROVE Distinct(r)
  BY <1>1, <1>3, SMTT(60) DEF At, Distinct
<1> QED BY <1>2, <1>3 DEF r

LEMMA AtTail ==
    ASSUME NEW q \in Seq(Fds), q # <<>>, Distinct(q)
    PROVE  At(Tail(q)) = At(q) \ {Head(q)} /\ Head(q) \in At(q) /\ Distinct(Tail(q))
<1> DEFINE r == Tail(q)
<1>1. /\ Len(q) \in Nat \ {0} /\ DOMAIN q = 1 .. Len(q) /\ DOMAIN r = 1 .. Len(q) - 1
      /\ Head(q) = q[1] /\ \A i \in 1 .. Len(q) - 1 : r[i] = q[i + 1]
  BY SMTT(60)
<1> HIDE DEF r
<1>2. At(r) = At(q) \ {q[1]}
  <2>1. ASSUME NEW i \in DOMAIN r PROVE r[i] \in At(q) \ {q[1]}
    BY <1>1, SMTT(60) DEF At, Distinct
  <2>2. ASSUME NEW i \in DOMAIN q, q[i] # q[1] PROVE q[i] \in At(r)
    <3>1. i - 1 \in DOMAIN r /\ r[i - 1] = q[i]
      BY <1>1, <2>2, SMTT(60)
    <3> QED BY <3>1 DEF At
  <2> QED BY <2>1, <2>2 DEF At
<1>3. Distinct(r)
  BY <1>1, SMTT(60) DEF Distinct
<1>4. q[1] \in At(q)
  BY <1>1, SMTT(60) DEF At
<1> QED BY <1>1, <1>2, <1>3, <1>4 DEF r

LEMMA AtConcat ==
    ASSUME NEW p \in Seq(Fds), NEW q \in Seq(Fds)
    PROVE  /\ At(p \o q) = At(p) \cup At(q)
           /\ Distinct(p) /\ Distinct(q) /\ At(p) \cap At(q) = {} => Distinct(p \o q)
<1> DEFINE r == p \o q
<1>1. /\ Len(p) \in Nat /\ Len(q) \in Nat
      /\ DOMAIN p = 1 .. Len(p) /\ DOMAIN q = 1 .. Len(q) /\ DOMAIN r = 1 .. Len(p) + Len(q)
      /\ \A i \in 1 .. Len(p) + Len(q) : r[i] = IF i <= Len(p) THEN p[i] ELSE q[i - Len(p)]
  BY SMTT(60)
<1> HIDE DEF r
<1>2. At(r) = At(p) \cup At(q)
  <2>1. ASSUME NEW i \in DOMAIN r PROVE r[i] \in At(p) \cup At(q)
    BY <1>1, SMTT(60) DEF At
  <2>2. ASSUME NEW i \in DOMAIN p PROVE p[i] \in At(r)
    BY <1>1, SMTT(60) DEF At
  <2>3. ASSUME NEW i \in DOMAIN q PROVE q[i] \in At(r)
    <3>1. i + Len(p) \in DOMAIN r /\ r[i + Len(p)] = q[i]
      BY <1>1, SMTT(60)
    <3> QED BY <3>1 DEF At
  <2> QED BY <2>1, <2>2, <2>3 DEF At
<1>3. ASSUME Distinct(p), Distinct(q), At(p) \cap At(q) = {} PROVE Distinct(r)
  <2> SUFFICES ASSUME NEW i \in DOMAIN r, NEW j \in DOMAIN r, r[i] = r[j] PROVE i = j
    BY DEF Distinct
  <2>1. \A k \in DOMAIN r : /\ k <= Len(p) => k \in DOMAIN p /\ r[k] = p[k] /\ p[k] \in At(p)
                           /\ k > Len(p) => /\ k - Len(p) \in DOMAIN q /\ r[k] = q[k - Len(p)]
                                            /\ q[k - Len(p)] \in At(q)
    BY <1>1, SMTT(60) DEF At
  <2>2. CASE i <= Len(p) /\ j <= Len(p)
    BY <1>1, <1>3, <2>1, <2>2, SMTT(60) DEF Distinct
  <2>3. CASE i > Len(p) /\ j > Len(p)
    <3>1. i - Len(p) = j - Len(p)
      BY <1>3, <2>1, <2>3, SMTT(60) DEF Distinct
    <3> QED BY <1>1, <3>1, SMTT(60)
  <2>4. CASE i <= Len(p) /\ j > Len(p)
    <3>1. i \in DOMAIN p /\ r[i] = p[i]
      BY <1>1, <2>4, SMTT(60)
    <3>2. j - Len(p) \in DOMAIN q /\ r[j] = q[j - Len(p)]
      BY <1>1, <2>4, SMTT(60)
    <3>3. r[i] \in At(p) /\ r[j] \in At(q)
      BY <3>1, <3>2 DEF At
    <3> QED BY <1>3, <3>3
  <2>5. CASE i > Len(p) /\ j <= Len(p)
    <3>1. j \in DOMAIN p /\ r[j] = p[j]
      BY <1>1, <2>5, SMTT(60)
    <3>2. i - Len(p) \in DOMAIN q /\ r[i] = q[i - Len(p)]
      BY <1>1, <2>5, SMTT(60)
    <3>3. r[j] \in At(p) /\ r[i] \in At(q)
      BY <3>1, <3>2 DEF At
    <3> QED BY <1>3, <3>3
  <2>6. i \in Nat /\ j \in Nat
    BY <1>1, SMTT(60)
  <2> QED BY <1>1, <2>2, <2>3, <2>4, <2>5, <2>6, SMTT(60)
<1> QED BY <1>2, <1>3 DEF r

\* A borrowed connection is open, so that a new one is another.
HeldOpen == \A t \in Clients : held[t] \in open \cup {NoFd}
OwnerInv == OneOwner /\ HeldOpen

LEMMA OwnerStep == TypeOK /\ OwnerInv /\ [Next]_vars => OwnerInv'
<1> SUFFICES ASSUME TypeOK, OwnerInv, [Next]_vars PROVE OwnerInv'
  OBVIOUS
<1> USE PoolAssumption
<1>0. /\ At(idle) \subseteq open /\ At(drained) \subseteq open /\ At(survivors) \subseteq open
      /\ idle \in Seq(Fds) /\ drained \in Seq(Fds) /\ survivors \in Seq(Fds)
      /\ held \in [Clients -> Fds \cup {NoFd}] /\ ready \subseteq open /\ open \subseteq Fds
  BY DEF TypeOK, OwnerInv, OneOwner
<1>1. ASSUME UNCHANGED <<idle, drained, survivors, held, open>>,
             \/ ready' = ready
             \/ \E t \in Clients : ready' = ready \ {held[t]}
      PROVE  OwnerInv'
  BY <1>1, SMTT(60) DEF OwnerInv, OneOwner, HeldOpen
<1>2. ASSUME NEW t \in Clients, TakeIdle(t) PROVE OwnerInv'
  <2>1. /\ held' = [held EXCEPT ![t] = Head(idle)] /\ At(idle') = At(idle) \ {Head(idle)}
        /\ Head(idle) \in At(idle) /\ Distinct(idle') /\ held[t] = NoFd
        /\ UNCHANGED <<drained, survivors, open, ready>>
    BY <1>0, <1>2, AtTail DEF TakeIdle, OwnerInv, OneOwner, TypeOK, healthVars, connVars
  <2> QED BY <1>0, <2>1, SMTT(60) DEF OwnerInv, OneOwner, HeldOpen
<1>3. ASSUME NEW t \in Clients, Created(t) PROVE OwnerInv'
  <2>1. PICK f \in Fds : Connect(f) /\ held' = [held EXCEPT ![t] = f]
    BY <1>3 DEF Created
  <2>2. /\ f \notin open /\ open' = open \cup {f} /\ ready' = ready \cup {f}
        /\ UNCHANGED <<idle, drained, survivors>>
    BY <1>3, <2>1 DEF Created, Connect, healthVars
  <2> QED BY <1>0, <2>1, <2>2 DEF OwnerInv, OneOwner, HeldOpen
<1>4. ASSUME NEW t \in Clients, Checkin(t) PROVE OwnerInv'
  <2>1. /\ held' = [held EXCEPT ![t] = NoFd] /\ held[t] \in Fds /\ held[t] # NoFd
        /\ UNCHANGED <<drained, survivors>>
    BY <1>4 DEF Checkin, TypeOK, healthVars
  <2>2. /\ At(Append(idle, held[t])) = At(idle) \cup {held[t]}
        /\ Distinct(Append(idle, held[t]))
    BY <1>0, <2>1, AtAppend DEF OwnerInv, OneOwner
  <2>3. \/ held[t] \in ready /\ idle' = Append(idle, held[t]) /\ UNCHANGED <<open, ready>>
        \/ idle' = idle /\ open' = open \ {held[t]} /\ ready' = ready \ {held[t]}
    BY <1>4 DEF Checkin, Destroy, connVars
  <2>4. NoFd \notin At(idle) \cup At(drained) \cup At(survivors)
    BY <1>0
  <2>5. CASE held[t] \in ready /\ idle' = Append(idle, held[t]) /\ UNCHANGED <<open, ready>>
    BY <1>0, <2>1, <2>2, <2>4, <2>5, SMTT(60) DEF OwnerInv, OneOwner, HeldOpen
  <2>6. CASE idle' = idle /\ open' = open \ {held[t]} /\ ready' = ready \ {held[t]}
    BY <1>0, <2>1, <2>4, <2>6 DEF OwnerInv, OneOwner, HeldOpen
  <2> QED BY <2>3, <2>5, <2>6
<1>5. ASSUME NEW t \in Clients,
             \/ Checkout(t) \/ Reserve(t) \/ CreateFailed(t) \/ AfterPause(t) \/ Block(t)
             \/ Wake(t) \/ Timeout(t) \/ Notify(t) \/ \E s \in Stmts : ExecPrepared(t, s)
      PROVE  OwnerInv'
  BY <1>1, <1>5 DEF Checkout, Reserve, CreateFailed, AfterPause, Block, Wake, Timeout, Notify,
                    ExecPrepared, clientVars, healthVars, connVars
<1>6. CASE HealthDrain
  <2>1. /\ drained' = idle /\ idle' = <<>> /\ UNCHANGED <<survivors, held, open, ready>>
        /\ At(<<>>) = {} /\ Distinct(<<>>)
    BY <1>6, SMTT(60) DEF HealthDrain, clientVars, connVars, At, Distinct
  <2> QED BY <2>1 DEF OwnerInv, OneOwner, HeldOpen
<1>7. CASE HealthPing
  <2> DEFINE f == Head(drained)
  <2>1. /\ At(drained') = At(drained) \ {f} /\ f \in At(drained) /\ Distinct(drained')
        /\ UNCHANGED <<idle, held>> /\ f \in Fds
    BY <1>0, <1>7, AtTail DEF HealthPing, OwnerInv, OneOwner, clientVars
  <2>2. At(Append(survivors, f)) = At(survivors) \cup {f} /\ Distinct(Append(survivors, f))
    BY <1>0, <2>1, AtAppend DEF OwnerInv, OneOwner
  <2>3. \/ survivors' = Append(survivors, f) /\ UNCHANGED <<open, ready>>
        \/ survivors' = survivors /\ open' = open \ {f} /\ ready' = ready \ {f}
    BY <1>7 DEF HealthPing, Destroy, connVars
  <2> HIDE DEF f
  <2>4. CASE survivors' = Append(survivors, f) /\ UNCHANGED <<open, ready>>
    BY <1>0, <2>1, <2>2, <2>4, SMTT(60) DEF OwnerInv, OneOwner, HeldOpen
  <2>5. CASE survivors' = survivors /\ open' = open \ {f} /\ ready' = ready \ {f}
    BY SMTT(30), <1>0, <2>1, <2>5 DEF OwnerInv, OneOwner, HeldOpen
  <2> QED BY <2>3, <2>4, <2>5
<1>8. CASE HealthReturn
  <2>1. At(idle') = At(idle) \cup At(survivors) /\ Distinct(idle')
    BY <1>0, <1>8, AtConcat DEF HealthReturn, OwnerInv, OneOwner
  <2>2. survivors' = <<>> /\ UNCHANGED <<drained, held, open, ready>>
    BY <1>8 DEF HealthReturn, clientVars, connVars
  <2>3. At(<<>>) = {} /\ Distinct(<<>>)
    BY SMTT(60) DEF At, Distinct
  <2> QED BY <2>1, <2>2, <2>3 DEF OwnerInv, OneOwner, HeldOpen
<1>9. CASE HealthCreated
  <2>1. PICK f \in Fds : Connect(f) /\ idle' = Append(idle, f)
    BY <1>9 DEF HealthCreated
  <2>2. /\ f \notin open /\ open' = open \cup {f} /\ ready' = ready \cup {f}
        /\ UNCHANGED <<drained, survivors, held>>
    BY <1>9, <2>1 DEF HealthCreated, Connect, clientVars
  <2>3. At(idle') = At(idle) \cup {f} /\ Distinct(idle')
    BY <1>0, <2>1, <2>2, AtAppend DEF OwnerInv, OneOwner
  <2> QED BY <1>0, <2>2, <2>3, SMTT(60) DEF OwnerInv, OneOwner, HeldOpen
<1>10. CASE HealthCreateFailed \/ UNCHANGED vars
  BY <1>1, <1>10 DEF HealthCreateFailed, vars, clientVars, healthVars, connVars
<1> QED
  BY <1>2, <1>3, <1>4, <1>5, <1>6, <1>7, <1>8, <1>9, <1>10 DEF Next, ClientStep, HealthStep

LEMMA OwnerInit == Init => OwnerInv
<1> SUFFICES ASSUME Init PROVE OwnerInv
  OBVIOUS
<1>1. /\ Distinct(idle) /\ At(idle) = ready /\ drained = <<>> /\ survivors = <<>>
      /\ At(<<>>) = {} /\ Distinct(<<>>)
      /\ \A t \in Clients : held[t] = NoFd
  BY SMTT(60) DEF Init, At, Distinct
<1>2. NoFd \notin ready
  BY TypeInit, PoolAssumption DEF TypeOK
<1> QED BY <1>1, <1>2 DEF OwnerInv, OneOwner, HeldOpen

\* No two borrowers share a connection and none is idle and borrowed at once,
\* and what is idle is ready, however checkouts, checkins, broken connections
\* and the health thread interleave (checkout, checkin, health_loop).
THEOREM OwnersExclusive == Spec => []OneOwner
<1>1. OwnerInv => OneOwner
  BY DEF OwnerInv
<1> QED BY <1>1, OwnerInit, TypeInit, TypeStep, OwnerStep, PTL DEF Spec

-----------------------------------------------------------------------------
(* What prep_cache_ says of a connection is true while nothing breaks *)

LEMMA CalmStep == TypeOK /\ OwnerInv /\ CalmInv /\ [Next]_vars => CalmInv'
<1> SUFFICES ASSUME TypeOK, OwnerInv, [Next]_vars, faults = {},
                    \A t \in Clients : held[t] \in ready \cup {NoFd},
                    \A c \in prepared : c[2] \in open /\ c[1] \in session[c[2]]
             PROVE  /\ \A t \in Clients : held'[t] \in ready' \cup {NoFd}
                    /\ \A c \in prepared' : c[2] \in open' /\ c[1] \in session'[c[2]]
  BY EnvKept DEF CalmInv
<1> DEFINE Kept == /\ \A t \in Clients : held'[t] \in ready' \cup {NoFd}
                   /\ \A c \in prepared' : c[2] \in open' /\ c[1] \in session'[c[2]]
<1>0. /\ held \in [Clients -> Fds \cup {NoFd}] /\ session \in [Fds -> SUBSET Stmts]
      /\ open \subseteq Fds /\ ready \subseteq open /\ NoFd \notin Fds
  BY PoolAssumption DEF TypeOK
<1>1. ASSUME NEW t \in Clients, TakeIdle(t) PROVE Kept
  <2>1. held' = [held EXCEPT ![t] = Head(idle)] /\ UNCHANGED connVars
    BY <1>1 DEF TakeIdle
  <2>2. Head(idle) \in ready
    BY <1>1, AtTail DEF TakeIdle, TypeOK, OwnerInv, OneOwner
  <2> QED BY <1>0, <2>1, <2>2 DEF connVars
<1>2. ASSUME NEW f \in Fds, Connect(f),
             held' = held \/ \E t \in Clients : held' = [held EXCEPT ![t] = f]
      PROVE  Kept
  <2>1. f \notin open /\ open' = open \cup {f} /\ ready' = ready \cup {f}
        /\ session' = [session EXCEPT ![f] = {}] /\ prepared' = prepared
    BY <1>2 DEF Connect
  <2>2. \A c \in prepared : c[2] # f /\ session'[c[2]] = session[c[2]]
    BY <1>0, <2>1
  <2> QED BY <1>0, <1>2, <2>1, <2>2
<1>3. ASSUME NEW t \in Clients, NEW s \in Stmts, ExecPrepared(t, s) PROVE Kept
  <2> DEFINE f == held[t]
  <2>1. /\ f \in ready /\ prepared' = prepared \cup {<<s, f>>}
        /\ session' = IF <<s, f>> \in prepared THEN session ELSE [session EXCEPT ![f] = @ \cup {s}]
        /\ UNCHANGED <<held, ready, open>>
    BY <1>3 DEF ExecPrepared, clientVars
  <2> HIDE DEF f
  <2>2. \A g \in Fds : session[g] \subseteq session'[g]
    BY <1>0, <2>1
  <2>3. s \in session'[f]
    <3>1. CASE <<s, f>> \in prepared
      BY <2>1, <3>1
    <3>2. CASE <<s, f>> \notin prepared
      BY <1>0, <2>1, <3>2
    <3> QED BY <3>1, <3>2
  <2>4. \A c \in prepared' : c[2] \in open /\ c[1] \in session'[c[2]]
    BY <1>0, <2>1, <2>2, <2>3, SMTT(60)
  <2> QED BY <2>1, <2>4
<1>4. ASSUME NEW t \in Clients, Checkin(t) PROVE Kept
  <2>1. held' = [held EXCEPT ![t] = NoFd] /\ held[t] \in ready
    BY <1>4 DEF Checkin, TypeOK
  <2>2. UNCHANGED connVars
    BY <1>4, <2>1 DEF Checkin
  <2> QED BY <1>0, <2>1, <2>2 DEF connVars
<1>5. ASSUME held' = held, UNCHANGED connVars PROVE Kept
  BY <1>5 DEF connVars
<1>6. ASSUME NEW t \in Clients,
             \/ Checkout(t) \/ Reserve(t) \/ CreateFailed(t) \/ AfterPause(t) \/ Block(t)
             \/ Wake(t) \/ Timeout(t) \/ Notify(t)
      PROVE  Kept
  BY <1>5, <1>6 DEF Checkout, Reserve, CreateFailed, AfterPause, Block, Wake, Timeout, Notify
<1>7. ASSUME NEW t \in Clients, Created(t) PROVE Kept
  BY <1>2, <1>7 DEF Created
<1>8. CASE HealthCreated
  BY <1>2, <1>8 DEF HealthCreated, clientVars
<1>9. CASE HealthDrain \/ HealthPing \/ HealthReturn \/ HealthCreateFailed \/ UNCHANGED vars
  BY <1>5, <1>9 DEF HealthDrain, HealthPing, HealthReturn, HealthCreateFailed, vars, clientVars
<1> QED
  BY <1>1, <1>3, <1>4, <1>6, <1>7, <1>8, <1>9 DEF Next, ClientStep, HealthStep

\* However many borrowers and statements there are, while nothing breaks and no
\* PREPARE is refused exec_prepared() leaves a PREPARE out only on a connection
\* whose session has the statement, with or without the health thread.
THEOREM PreparedOnce == Spec => []CalmSkipsOnlyPrepared
<1>1. Init => CalmInv
  BY DEF Init, CalmInv
<1>2. CalmInv => CalmSkipsOnlyPrepared
  BY DEF CalmInv, CalmSkipsOnlyPrepared
<1> QED BY <1>1, <1>2, OwnerInit, OwnerStep, TypeInit, TypeStep, CalmStep, PTL DEF Spec

=============================================================================
