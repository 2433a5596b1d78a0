----------------------------- MODULE Admission -----------------------------
(***************************************************************************)
(* Admission of writes under load: the token bucket of an endpoint         *)
(* (src/spido-pg/src/token_bucket.cpp), the pressure controller that       *)
(* retunes the buckets (pressure_controller.cpp) and the registry of       *)
(* endpoints it reads (endpoint_registry.cpp).                             *)
(*                                                                         *)
(* Nothing here takes a lock on the way to a bucket: a step is one access  *)
(* to an atomic variable, or several that no other thread can tell apart.  *)
(* Time and tokens are integers: `now` counts decision intervals, a rate   *)
(* is what a bucket earns in one of them, a request costs Cost, and the    *)
(* capacity, a second's worth, is Cost intervals of the rate.  Latencies   *)
(* are in milliseconds, error rates in basis points.                       *)
(***************************************************************************)
EXTENDS Naturals, Sequences, FiniteSets, FiniteSetsExt

CONSTANTS
    Clients,       \* threads that handle writes
    Endpoints,     \* 1 .. n
    Prio,          \* Prio[id]: the priority its policy gives it
    Budget,        \* Budget[level][priority]: budgets_per_state, as rates
    NormalPrio,
    Cost, MaxTries,
    MaxConns,      \* pool_.config().max_conns
    Word,          \* 2^32 in the code; any word far above MaxConns gives the same levels
    Latencies,     \* latencies that are recorded
    MaxTime, MaxEvents, MaxAcquires   \* bounds

Levels == 0 .. 4    \* Healthy, Warm, Pressured, Overloaded, Critical
NoBucket == [tokens |-> 0, last |-> 0, rate |-> 0, cap |-> 0, made |-> FALSE]

VARIABLES
    now,
    buckets,       \* buckets_
    occupied, policy, registered,     \* the registry
    window,        \* writes_in_window
    cpc, loc,      \* clients
    tpc, id, ids, live, errs, tune,   \* the controller, and its locals
    max_ms, sticky_ms, errors, ops, sticky_err, level, scale, stop,
    pool,          \* live and idle connections of the pool
    acquires, events,
    admitted, earned, credited, raced,    \* history: see WithinBudget
    bad                                   \* history: see OverloadHasCause

bucketVars == <<buckets, now>>
registry   == <<occupied, policy, registered, window>>
clientVars == <<cpc, loc, acquires, admitted>>
control    == <<tpc, id, ids, live, errs, tune>>
signals    == <<max_ms, sticky_ms, errors, ops, sticky_err, level, scale>>
history    == <<earned, credited, raced, bad>>
vars == <<bucketVars, registry, clientVars, control, signals, stop, pool, events, history>>

NoLoc == [id |-> 0, now |-> 0, seen |-> 0, from |-> 0, cur |-> 0, tries |-> 0]

Init ==
    /\ now = 0 /\ buckets = [e \in Endpoints |-> NoBucket]
    /\ occupied = [e \in Endpoints |-> FALSE] /\ policy = [e \in Endpoints |-> FALSE]
    /\ registered = 0 /\ window = [e \in Endpoints |-> 0]
    /\ cpc = [c \in Clients |-> "idle"] /\ loc = [c \in Clients |-> NoLoc]
    /\ tpc = "sleep" /\ id = 0 /\ ids = {} /\ live = 0 /\ errs = 0
    /\ tune = [old |-> 0, seen |-> 0]
    /\ max_ms = 0 /\ sticky_ms = 0 /\ errors = 0 /\ ops = 0 /\ sticky_err = 0
    /\ level = 0 /\ scale = 0 /\ stop = FALSE
    /\ pool = [live |-> 0, idle |-> 0]
    /\ acquires = 0 /\ events = 0 /\ raced = FALSE /\ bad = {}
    /\ admitted = [e \in Endpoints |-> 0] /\ earned = [e \in Endpoints |-> 0]
    /\ credited = [e \in Endpoints |-> 0]

-----------------------------------------------------------------------------
(* TokenBucket::try_acquire(), as the write handlers call it *)

Full(rate) == [tokens |-> Cost * rate, last |-> now, rate |-> rate, cap |-> Cost * rate, made |-> TRUE]

Resetting(e) == tpc \in {"load", "store", "stamp"} /\ id = e

\* token_bucket_for(), which makes the bucket; then a first look at the
\* capacity, which turns the request away when there is no budget at all.
Acquire(c, e) ==
    LET b == IF buckets[e].made THEN buckets[e] ELSE Full(Budget[0][NormalPrio])
    IN  /\ cpc[c] = "idle" /\ acquires < MaxAcquires /\ acquires' = acquires + 1
        /\ buckets' = [buckets EXCEPT ![e] = b]
        /\ earned' = IF buckets[e].made THEN earned ELSE [earned EXCEPT ![e] = @ + b.cap]
        /\ raced' = (raced \/ Resetting(e))
        /\ IF b.cap = 0 THEN UNCHANGED <<cpc, loc>>
           ELSE /\ cpc' = [cpc EXCEPT ![c] = "read"]
                /\ loc' = [loc EXCEPT ![c] = [NoLoc EXCEPT !.id = e]]
        /\ UNCHANGED <<now, registry, admitted, control, signals, stop, pool, events, credited, bad>>

clientFrame == <<now, registry, acquires, control, signals, stop, pool, events, earned, bad>>

\* The clock, then the tokens.
Read(c) ==
    /\ cpc[c] = "read"
    /\ loc' = [loc EXCEPT ![c].now = now, ![c].seen = buckets[loc[c].id].tokens]
    /\ cpc' = [cpc EXCEPT ![c] = "refill"]
    /\ UNCHANGED <<buckets, admitted, credited, raced, clientFrame>>

\* refill_inplace()
Refill(b, tokens, t) ==
    IF t <= b.last \/ b.rate = 0 THEN tokens ELSE Min({b.cap, tokens + (t - b.last) * b.rate})

DoRefill(c) ==
    LET l == loc[c]
        b == buckets[l.id]
    IN  /\ cpc[c] = "refill"
        /\ loc' = [loc EXCEPT ![c].cur = Refill(b, l.seen, l.now), ![c].from = b.last]
        /\ cpc' = [cpc EXCEPT ![c] = "cas"]
        /\ UNCHANGED <<buckets, admitted, credited, raced, clientFrame>>

\* The level of the bucket is replaced; history: the time that it has been
\* credited for, and whether some of it had been credited before.
Replace(l, tokens) ==
    /\ buckets' = [buckets EXCEPT ![l.id].tokens = tokens]
    /\ credited' = [credited EXCEPT ![l.id] = Max({@, l.now})]
    /\ raced' = (raced \/ l.from < Min({credited[l.id], l.now}))

\* Enough tokens: take them, or try again if the level has changed meanwhile.
Cas(c) ==
    LET l == loc[c]
        same == buckets[l.id].tokens = l.seen
    IN  /\ cpc[c] = "cas" /\ l.cur >= Cost
        /\ \/ /\ same /\ Replace(l, l.cur - Cost)
              /\ admitted' = [admitted EXCEPT ![l.id] = @ + 1]
              /\ cpc' = [cpc EXCEPT ![c] = "stamp"] /\ UNCHANGED loc
           \/ /\ ~same /\ l.tries + 1 < MaxTries
              /\ loc' = [loc EXCEPT ![c].tries = @ + 1]
              /\ cpc' = [cpc EXCEPT ![c] = "read"] /\ UNCHANGED <<buckets, admitted, credited, raced>>
           \/ /\ ~same /\ l.tries + 1 = MaxTries
              /\ loc' = [loc EXCEPT ![c] = NoLoc]
              /\ cpc' = [cpc EXCEPT ![c] = "idle"] /\ UNCHANGED <<buckets, admitted, credited, raced>>
        /\ UNCHANGED clientFrame

\* Too few: leave what the refill has made of them, if nobody was faster.
CasRefused(c) ==
    LET l == loc[c]
    IN  /\ cpc[c] = "cas" /\ l.cur < Cost
        /\ \/ buckets[l.id].tokens = l.seen /\ Replace(l, l.cur)
           \/ buckets[l.id].tokens # l.seen /\ UNCHANGED <<buckets, credited, raced>>
        /\ cpc' = [cpc EXCEPT ![c] = "stamp"]
        /\ UNCHANGED <<loc, admitted, clientFrame>>

Stamp(c) ==
    /\ cpc[c] = "stamp"
    /\ buckets' = [buckets EXCEPT ![loc[c].id].last = loc[c].now]
    /\ cpc' = [cpc EXCEPT ![c] = "idle"] /\ loc' = [loc EXCEPT ![c] = NoLoc]
    /\ UNCHANGED <<admitted, credited, raced, clientFrame>>

-----------------------------------------------------------------------------
(* What the controller is told *)

eventFrame == <<bucketVars, clientVars, control, sticky_ms, sticky_err, level, scale, stop, earned,
                credited, raced>>
OneMoreEvent == events < MaxEvents /\ events' = events + 1

RecordLatency(ms) ==
    /\ OneMoreEvent /\ max_ms' = Max({max_ms, ms}) /\ ops' = ops + 1
    /\ bad' = IF ms >= 5 THEN bad \cup {"latency"} ELSE bad
    /\ UNCHANGED <<eventFrame, registry, errors, pool>>

RecordError ==
    /\ OneMoreEvent /\ errors' = errors + 1 /\ bad' = bad \cup {"error"}
    /\ UNCHANGED <<eventFrame, registry, max_ms, ops, pool>>

Occupy(e) ==
    /\ occupied' = [occupied EXCEPT ![e] = TRUE]
    /\ registered' = IF occupied[e] THEN registered ELSE registered + 1

\* At start, or later for an endpoint that already has a state.
RegisterPolicy(e) ==
    /\ ~policy[e] /\ policy' = [policy EXCEPT ![e] = TRUE] /\ Occupy(e)
    /\ UNCHANGED <<eventFrame, window, max_ms, ops, errors, pool, events, bad>>

\* state(), which makes a state for an endpoint without a policy as well, and
\* record_write() on it.
RecordWrite(e) ==
    /\ OneMoreEvent /\ window' = [window EXCEPT ![e] = @ + 1] /\ Occupy(e)
    /\ UNCHANGED <<eventFrame, policy, max_ms, ops, errors, pool, bad>>

\* The pool hands connections out and takes them back, opens and closes them.
PoolMoves ==
    /\ OneMoreEvent
    /\ \E l \in 0 .. MaxConns : \E i \in 0 .. l :
           /\ pool' = [live |-> l, idle |-> i] /\ pool' # pool
           /\ bad' = IF 2 * (l - i) >= MaxConns THEN bad \cup {"busy"} ELSE bad
    /\ UNCHANGED <<eventFrame, registry, max_ms, errors, ops>>

-----------------------------------------------------------------------------
(* tick_loop() *)

tickFrame == <<bucketVars, registry, clientVars, pool, events, stop, tune, scale, earned, credited, raced>>

\* The worst latency since the last tick, with a memory that fades; the
\* connections of the pool.
Observe ==
    /\ tpc = "sleep" /\ ~stop /\ tpc' = "idle"
    /\ max_ms' = 0 /\ sticky_ms' = Max({max_ms, (sticky_ms * 7) \div 10})
    /\ live' = pool.live
    /\ UNCHANGED <<tickFrame, id, ids, errs, errors, ops, sticky_err, level, bad>>

\* A bug: the connections that are idle are taken for those in use.
ObserveIdleSwapped ==
    /\ tpc = "idle" /\ tpc' = "errors" /\ live' = pool.idle
    /\ bad' = IF pool.live # live THEN bad \cup {"resized"} ELSE bad
    /\ UNCHANGED <<tickFrame, id, ids, errs, signals>>

\* The connections in use: the difference is taken in uint32_t.
ObserveIdle ==
    /\ tpc = "idle" /\ tpc' = "errors"
    /\ live' = (Word + live - pool.idle) % Word
    /\ bad' = IF pool.live # live THEN bad \cup {"resized"} ELSE bad
    /\ UNCHANGED <<tickFrame, id, ids, errs, signals>>

ObserveErrors ==
    /\ tpc = "errors" /\ tpc' = "ops" /\ errs' = errors /\ errors' = 0
    /\ UNCHANGED <<tickFrame, id, ids, live, max_ms, sticky_ms, ops, sticky_err, level, bad>>

\* A bug: an error rate never fades.
ErrorMemory(rate, before) == Max({rate, before})

StickyError(rate, before) == Max({rate, (before * 7) \div 10})

\* The most pessimistic of the three signals.
Classify(ms, used, err) ==
    Max({0} \cup {l \in 1 .. 4 : ms >= <<5, 15, 30, 100>>[l]}
            \cup {l \in 1 .. 3 : 100 * used >= <<50, 75, 90>>[l] * MaxConns}
            \cup {l \in 2 .. 4 : err >= <<0, 100, 500, 2000>>[l]})

\* The share of errors, if there were any operations at all; then the state,
\* and the endpoints that apply() will go through.
ObserveOps ==
    LET rate == IF ops > 0 THEN (10000 * errs) \div ops ELSE 0
    IN  /\ tpc = "ops" /\ tpc' = "apply" /\ ops' = 0
        /\ id' = 1 /\ ids' = {e \in Endpoints : occupied[e]}
        /\ sticky_err' = StickyError(rate, sticky_err)
        /\ level' = Classify(sticky_ms, live, sticky_err')
        /\ live' = 0 /\ errs' = 0
        /\ UNCHANGED <<tickFrame, max_ms, sticky_ms, errors, bad>>

-----------------------------------------------------------------------------
(* apply(): in turn every endpoint that was there when it began *)

applyFrame == <<now, occupied, policy, registered, clientVars, live, errs, pool, events, stop, max_ms,
                sticky_ms, errors, ops, sticky_err, level, credited, bad>>

\* An endpoint that has no policy is passed over.
Skip ==
    /\ tpc = "apply" /\ id \in Endpoints /\ ~(id \in ids /\ policy[id]) /\ id' = id + 1
    /\ UNCHANGED <<applyFrame, ids, buckets, window, tpc, tune, scale, earned, raced>>

Rate(e) == Budget[level][Prio[e]]

\* reset(): the old capacity is kept, the new rate and capacity are stored.
Reset ==
    LET b == IF buckets[id].made THEN buckets[id] ELSE Full(Budget[0][NormalPrio])
    IN  /\ tpc = "apply" /\ id \in ids /\ policy[id] /\ tpc' = "load"
        /\ tune' = [old |-> b.cap, seen |-> 0]
        /\ buckets' = [buckets EXCEPT ![id] = [b EXCEPT !.rate = Rate(id), !.cap = Cost * Rate(id)]]
        /\ earned' = IF buckets[id].made THEN earned ELSE [earned EXCEPT ![id] = @ + b.cap]
        /\ raced' = (raced \/ \E c \in Clients : cpc[c] # "idle" /\ loc[c].id = id)
        /\ UNCHANGED <<applyFrame, ids, window, id, scale>>

ResetLoad ==
    /\ tpc = "load" /\ tpc' = "store" /\ tune' = [tune EXCEPT !.seen = buckets[id].tokens]
    /\ UNCHANGED <<applyFrame, ids, buckets, window, id, scale, earned, raced>>

\* A bug: a bucket is filled whenever it is retuned.
ResetLevelFull(cap, old, seen) == cap

\* A bucket that had no capacity starts full, another keeps what it had.
ResetLevel(cap, old, seen) == IF old = 0 THEN cap ELSE Min({seen, cap})

ResetStore ==
    LET cap == buckets[id].cap
    IN  /\ tpc = "store" /\ tpc' = "stamp"
        /\ buckets' = [buckets EXCEPT ![id].tokens = ResetLevel(cap, tune.old, tune.seen)]
        /\ earned' = IF tune.old = 0 THEN [earned EXCEPT ![id] = @ + cap] ELSE earned
        /\ UNCHANGED <<applyFrame, ids, window, id, tune, scale, raced>>

\* The time of the last refill, and the window of the endpoint.
ResetStamp ==
    /\ tpc = "stamp" /\ tpc' = "apply" /\ id' = id + 1
    /\ buckets' = [buckets EXCEPT ![id].last = now]
    /\ window' = [window EXCEPT ![id] = 0] /\ tune' = [old |-> 0, seen |-> 0]
    /\ UNCHANGED <<applyFrame, ids, scale, earned, raced>>

\* The batch writer's scale, a step of it for each level.
Scale ==
    /\ tpc = "apply" /\ id \notin Endpoints /\ tpc' = "sleep" /\ id' = 0 /\ ids' = {}
    /\ scale' = level
    /\ UNCHANGED <<applyFrame, buckets, window, tune, earned, raced>>

-----------------------------------------------------------------------------
\* Time passes: every bucket has earned its rate.
Tick ==
    /\ now < MaxTime /\ now' = now + 1
    /\ earned' = [e \in Endpoints |-> earned[e] + buckets[e].rate]
    /\ UNCHANGED <<buckets, registry, clientVars, control, signals, stop, pool, events, credited, raced, bad>>

Stop ==
    /\ ~stop /\ stop' = TRUE
    /\ UNCHANGED <<bucketVars, registry, clientVars, control, signals, pool, events, history>>

Client(c) ==
    \/ \E e \in Endpoints : Acquire(c, e)
    \/ Read(c) \/ DoRefill(c) \/ Cas(c) \/ CasRefused(c) \/ Stamp(c)

Event ==
    \/ \E ms \in Latencies : RecordLatency(ms)
    \/ RecordError \/ PoolMoves
    \/ \E e \in Endpoints : RegisterPolicy(e) \/ RecordWrite(e)

Controller ==
    \/ Observe \/ ObserveIdle \/ ObserveErrors \/ ObserveOps
    \/ Skip \/ Reset \/ ResetLoad \/ ResetStore \/ ResetStamp \/ Scale

Next == (\E c \in Clients : Client(c)) \/ Event \/ Controller \/ Tick \/ Stop

Spec == Init /\ [][Next]_vars

-----------------------------------------------------------------------------
(* Properties *)

MaxRate == Max({Budget[l][p] : l \in Levels, p \in DOMAIN Budget[0]})

\* The state's type.  No interleaving of refills, of compare-and-swaps and of
\* the controller's stores leaves a bucket above the largest capacity in the
\* table of budgets (token_bucket.cpp:51).
TypeOK ==
    /\ \A e \in Endpoints : buckets[e].tokens \in 0 .. Cost * MaxRate /\ buckets[e].last \in 0 .. MaxTime
    /\ tpc \in {"sleep", "idle", "errors", "ops", "apply", "load", "store", "stamp"}
    /\ \A c \in Clients : cpc[c] \in {"idle", "read", "refill", "cas", "stamp"} /\ loc[c].tries < MaxTries
    /\ level \in Levels /\ scale \in Levels /\ live < Word
    /\ registered = Cardinality({e \in Endpoints : occupied[e]})
    /\ \A e \in Endpoints : policy[e] => occupied[e]

\* However many threads take tokens from a bucket at once, it admits no more
\* than it has earned: its capacity when it is new or leaves a budget of zero,
\* and its rate for every interval.  Two races escape this, and `raced` records
\* them: a retune that meets a request on its way (token_bucket.cpp:41), and a
\* refill for time that another request has been credited for but has not
\* stamped yet, or has stamped over (token_bucket.cpp:91).
WithinBudget == raced \/ \A e \in Endpoints : Cost * admitted[e] <= earned[e]

\* The system leaves Healthy only for a reason: a slow or failed operation, half
\* of the connections in use, or a pool resized between the two reads of its
\* state, when the difference means nothing or wraps (pressure_controller.cpp:109).
OverloadHasCause == level > 0 => bad # {}

\* Between two ticks every bucket has the budget of the level and of its
\* endpoint's priority, or still the one it was made with because its endpoint
\* had no policy when the controller passed (pressure_controller.cpp apply()).
BudgetsFollowLevel ==
    tpc = "sleep" =>
        \A e \in Endpoints : buckets[e].made =>
            buckets[e].rate \in {Budget[level][Prio[e]], Budget[0][NormalPrio]}

\* The level is justified, and it is what the buckets have been tuned to.
LevelSound == TypeOK /\ OverloadHasCause /\ BudgetsFollowLevel

InUseHalf == 2 * (pool.live - pool.idle) >= MaxConns

BackToNormal == level = 0 /\ scale = 0

\* Once nothing bad happens any more and the pool is not busy, the memory of
\* latencies and errors fades and the system is Healthy again, with the batch
\* writer at its normal scale (pressure_controller.cpp tick_loop()).
Faded == stop \/ InUseHalf \/ BackToNormal
PressureFades == <>[]Faded
=============================================================================
