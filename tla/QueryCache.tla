----------------------------- MODULE QueryCache -----------------------------
(***************************************************************************)
(* The two-level cache of query results (src/spido-pg/src/cache.cpp) as    *)
(* Db::query_cached(), Db::write() and the handlers that change a table    *)
(* use it (db.cpp), one shard of it.                                       *)
(*                                                                         *)
(* A result is the number of commits its table had when it was read.  A    *)
(* slot is changed only under its lock, so a change of one slot is a step; *)
(* so is a probe, which finds what it finds in one slot.  Entries have one *)
(* size.  With at most kProbe entries the L1 of a thread is a list in the  *)
(* order of use.  `lru` is the order of last_used of the shard's slots.    *)
(***************************************************************************)
EXTENDS Naturals, Sequences, FiniteSets, FiniteSetsExt

CONSTANTS
    Workers,      \* threads that handle requests
    Listener,     \* the thread of PgNotify
    Tables, Keys, None,
    Tag,          \* Tag[k]: the table a query reads
    Home,         \* Home[k]: slot_for(key_hash(k))
    NSlots, ProbeRange, Quota, L1Cap,
    MaxCalls      \* bound on queries, commits and writes

Threads == Workers \cup {Listener}
Slots == 1 .. NSlots
Entry == [key : Keys, table : Tables, val : Nat]

ASSUME QueryAssumption ==
    /\ IsFiniteSet(Workers) /\ Tag \in [Keys -> Tables] /\ Home \in [Keys -> Slots]
    /\ NSlots \in Nat \ {0} /\ ProbeRange \in Nat \ {0} /\ L1Cap \in Nat \ {0}
    /\ None \notin Keys \cup Tables \cup Entry

VARIABLES
    pg,           \* pg[tb]: commits of table tb
    slots, lru, bytes,
    tags,         \* tags[k]: how often k is in the list of its table in tags_
    dirty,        \* dirty_
    l1,           \* t_l1 of each thread
    queue,        \* rows in the batch writer, per table
    flushing,     \* rows the flush observer has yet to be told of
    notes,        \* notifications on their way, per table
    pc, loc,      \* per thread: where it is, and its locals
    calls,
    floor,        \* history: the newest change a handler has answered for
    late          \* history: results an invalidation missed: of puts it overtook,
                  \* and in a second slot of a key

shared == <<slots, lru, bytes, tags>>
db     == <<pg, dirty, queue, flushing, notes, calls>>
vars   == <<shared, db, l1, pc, loc, floor, late>>

Local == [key |-> None, table |-> None, val |-> 0, at |-> 0,
          todo |-> [k \in Keys |-> 0]]

Init ==
    /\ pg = [tb \in Tables |-> 0] /\ slots = [i \in Slots |-> None]
    /\ lru = [i \in Slots |-> i] /\ bytes = 0
    /\ tags = [k \in Keys |-> 0] /\ dirty = [tb \in Tables |-> 0]
    /\ l1 = [t \in Threads |-> << >>]
    /\ queue = [tb \in Tables |-> 0] /\ flushing = [tb \in Tables |-> 0]
    /\ notes = [tb \in Tables |-> 0]
    /\ pc = [t \in Threads |-> "idle"] /\ loc = [t \in Threads |-> Local]
    /\ calls = 0 /\ floor = [tb \in Tables |-> 0] /\ late = {}

OneMoreCall == calls < MaxCalls /\ calls' = calls + 1
Goto(t, l) == pc' = [pc EXCEPT ![t] = l]
Done(t) == Goto(t, "idle") /\ loc' = [loc EXCEPT ![t] = Local]

-----------------------------------------------------------------------------
(* The table of slots and the L1 list *)

Probe(k) == [i \in 1 .. ProbeRange |-> ((Home[k] + i - 2) % NSlots) + 1]

Empty == {i \in Slots : slots[i] = None}
Holding(k) == {i \in Slots : slots[i] # None /\ slots[i].key = k}
Dirty == {i \in Slots : slots[i] # None /\ dirty[slots[i].table] > 0}

\* The first slot of the probe that is in S.
First(k, S) ==
    LET found == {n \in 1 .. ProbeRange : Probe(k)[n] \in S}
    IN  IF found = {} THEN 0 ELSE Probe(k)[Min(found)]

\* lru: the slots, the one used longest ago first.
Oldest(S) == lru[Min({n \in Slots : lru[n] \in S})]
Touch(i) ==
    LET before == CHOOSE n \in Slots : lru[n] = i
    IN  lru' = [n \in Slots |-> IF n < before THEN lru[n] ELSE IF n < NSlots THEN lru[n + 1] ELSE i]

\* get(): the probe ends at an empty slot.
Find(k) ==
    LET i == First(k, Empty \cup Holding(k))
    IN  IF i # 0 /\ slots[i] # None THEN i ELSE 0

\* put(): the entry of the key, or the first empty slot, or the one used
\* longest ago; if that is dirty, one that is not, if there is one.
Target(k) ==
    LET same  == First(k, Holding(k))
        empty == First(k, Empty)
        old   == Oldest(Range(Probe(k)))
        clean == First(k, Slots \ Dirty)
    IN  IF same # 0 THEN same ELSE IF empty # 0 THEN empty
        ELSE IF old \in Dirty /\ clean # 0 THEN clean ELSE old

Clear(i) == slots' = [slots EXCEPT ![i] = None] /\ bytes' = bytes - 1

InL1(t, k) == {n \in DOMAIN l1[t] : l1[t][n].key = k}

\* The entry of the key gives way, or a free place, or the entry used longest ago.
PutL1(t, k, v) ==
    LET s    == l1[t]
        way  == IF InL1(t, k) # {} THEN Min(InL1(t, k)) ELSE IF Len(s) < L1Cap THEN Len(s) + 1 ELSE 1
        last == IF way > Len(s) THEN way ELSE Len(s)
    IN  l1' = [l1 EXCEPT ![t] = [n \in 1 .. last |->
                  IF n = last THEN [key |-> k, val |-> v] ELSE IF n < way THEN s[n] ELSE s[n + 1]]]

-----------------------------------------------------------------------------
(* Db::query_cached() *)

\* A hit in the L1 does not look at the clock.
ReadL1(t, k) ==
    /\ pc[t] = "idle" /\ InL1(t, k) # {}
    /\ PutL1(t, k, l1[t][Min(InL1(t, k))].val)
    /\ UNCHANGED <<shared, db, pc, loc, floor, late>>

ReadL2(t, k) ==
    /\ pc[t] = "idle" /\ InL1(t, k) = {} /\ Find(k) # 0
    /\ PutL1(t, k, slots[Find(k)].val)
    /\ Touch(Find(k))
    /\ UNCHANGED <<slots, bytes, tags, db, pc, loc, floor, late>>

\* A miss: the query, which sees the commits so far.
Query(t, k) ==
    /\ pc[t] = "idle" /\ InL1(t, k) = {} /\ Find(k) = 0
    /\ OneMoreCall
    /\ loc' = [loc EXCEPT ![t] = [@ EXCEPT !.key = k, !.table = Tag[k], !.val = pg[Tag[k]]]]
    /\ Goto(t, "scan")
    /\ UNCHANGED <<shared, pg, dirty, queue, flushing, notes, l1, floor, late>>

PutScan(t) ==
    /\ pc[t] = "scan"
    /\ loc' = [loc EXCEPT ![t].at = Target(loc[t].key)]
    /\ Goto(t, "write")
    /\ UNCHANGED <<shared, db, l1, floor, late>>

\* Whatever is in the slot by now is replaced.
PutWrite(t) ==
    LET l == loc[t]
    IN  /\ pc[t] = "write"
        /\ slots' = [slots EXCEPT ![l.at] = [key |-> l.key, table |-> l.table, val |-> l.val]]
        /\ bytes' = IF slots[l.at] = None THEN bytes + 1 ELSE bytes
        /\ Touch(l.at) /\ Goto(t, "tag")
        /\ UNCHANGED <<tags, db, l1, loc, floor, late>>

\* A bug: a key that is in the list is not entered again.
PutTagOnce(t) ==
    /\ pc[t] = "tag"
    /\ tags' = [tags EXCEPT ![loc[t].key] = 1]
    /\ Goto(t, "quota")
    /\ UNCHANGED <<slots, lru, bytes, db, l1, loc, floor, late>>

PutTag(t) ==
    /\ pc[t] = "tag"
    /\ tags' = [tags EXCEPT ![loc[t].key] = @ + 1]
    /\ Goto(t, "quota")
    /\ UNCHANGED <<slots, lru, bytes, db, l1, loc, floor, late>>

\* The byte quota of the shard: choose a victim, or be done.
PutQuota(t) ==
    LET S == Slots \ (Empty \cup Dirty)
    IN  /\ pc[t] = "quota"
        /\ \/ /\ bytes > Quota /\ S # {}
              /\ loc' = [loc EXCEPT ![t].at = Oldest(S)] /\ Goto(t, "evict")
           \/ (bytes <= Quota \/ S = {}) /\ Done(t)
        /\ UNCHANGED <<shared, db, l1, floor, late>>

PutEvict(t) ==
    /\ pc[t] = "evict" /\ Goto(t, "quota")
    /\ IF slots[loc[t].at] = None THEN UNCHANGED <<slots, bytes>> ELSE Clear(loc[t].at)
    /\ UNCHANGED <<lru, tags, db, l1, loc, floor, late>>

-----------------------------------------------------------------------------
(* invalidate_table() *)

\* A bug: the handler answers without an invalidation.
CommitOnly(t, tb) ==
    /\ pc[t] = "idle" /\ OneMoreCall
    /\ pg' = [pg EXCEPT ![tb] = @ + 1] /\ floor' = [floor EXCEPT ![tb] = pg[tb] + 1]
    /\ UNCHANGED <<shared, dirty, queue, flushing, notes, l1, pc, loc, late>>

\* A handler commits a change itself; another instance does and the trigger
\* notifies this one.
Commit(t, tb) ==
    /\ pc[t] = "idle" /\ OneMoreCall
    /\ pg' = [pg EXCEPT ![tb] = @ + 1]
    /\ loc' = [loc EXCEPT ![t] = [@ EXCEPT !.table = tb, !.val = pg[tb] + 1]]
    /\ Goto(t, "pop")
    /\ UNCHANGED <<shared, dirty, queue, flushing, notes, l1, floor, late>>

RemoteCommit(tb) ==
    /\ OneMoreCall
    /\ pg' = [pg EXCEPT ![tb] = @ + 1] /\ notes' = [notes EXCEPT ![tb] = @ + 1]
    /\ UNCHANGED <<shared, dirty, queue, flushing, l1, pc, loc, floor, late>>

Notified(tb) ==
    /\ pc[Listener] = "idle" /\ notes[tb] > 0
    /\ notes' = [notes EXCEPT ![tb] = @ - 1]
    /\ loc' = [loc EXCEPT ![Listener] = [@ EXCEPT !.table = tb]]
    /\ Goto(Listener, "pop")
    /\ UNCHANGED <<shared, pg, dirty, queue, flushing, calls, l1, floor, late>>

\* The puts of the table that are under way, and not in the list yet.
Putting(tb) == {t \in Threads : pc[t] \in {"scan", "write", "tag"} /\ loc[t].table = tb}

InvPop(t) ==
    LET tb == loc[t].table
        Of(k) == IF Tag[k] = tb THEN tags[k] ELSE 0
    IN  /\ pc[t] = "pop"
        /\ loc' = [loc EXCEPT ![t].todo = [k \in Keys |-> Of(k)]]
        /\ tags' = [k \in Keys |-> tags[k] - Of(k)]
        /\ late' = late \cup {<<loc[u].key, loc[u].val>> : u \in Putting(tb)}
        /\ Goto(t, "inv")
        /\ UNCHANGED <<slots, lru, bytes, db, l1, floor>>

InvKey(t, k) ==
    LET i == First(k, Holding(k))
        left == IF loc[t].todo[k] = 1 THEN Holding(k) \ {i} ELSE {}
    IN  /\ pc[t] = "inv" /\ loc[t].todo[k] > 0
        /\ loc' = [loc EXCEPT ![t].todo[k] = @ - 1]
        /\ IF i = 0 THEN UNCHANGED <<slots, bytes>> ELSE Clear(i)
        /\ late' = late \cup {<<k, slots[j].val>> : j \in left}
        /\ UNCHANGED <<lru, tags, db, l1, pc, floor>>

\* The thread's own L1 is all it can clear.  A handler answers.
InvL1(t) ==
    LET tb == loc[t].table
    IN  /\ pc[t] = "inv" /\ \A k \in Keys : loc[t].todo[k] = 0
        /\ l1' = [l1 EXCEPT ![t] = << >>]
        /\ floor' = [floor EXCEPT ![tb] = IF loc[t].val > @ THEN loc[t].val ELSE @]
        /\ Done(t)
        /\ UNCHANGED <<shared, db, late>>

-----------------------------------------------------------------------------
(* Db::write() and the flush observer; the sweeper *)

Write(t, tb) ==
    /\ pc[t] = "idle" /\ OneMoreCall
    /\ dirty' = [dirty EXCEPT ![tb] = @ + 1]
    /\ loc' = [loc EXCEPT ![t].table = tb]
    /\ Goto(t, "enqueue")
    /\ UNCHANGED <<shared, pg, queue, flushing, notes, l1, floor, late>>

Enqueue(t) ==
    /\ pc[t] = "enqueue" /\ Done(t)
    /\ queue' = [queue EXCEPT ![loc[t].table] = @ + 1]
    /\ UNCHANGED <<shared, pg, dirty, flushing, notes, calls, l1, floor, late>>

\* The batch writer flushes what it has, or gives it up.
Flush(tb) ==
    /\ queue[tb] > 0 /\ flushing[tb] = 0 /\ queue' = [queue EXCEPT ![tb] = 0]
    /\ pg' \in {pg, [pg EXCEPT ![tb] = @ + 1]}
    /\ flushing' = [flushing EXCEPT ![tb] = queue[tb]]
    /\ UNCHANGED <<shared, dirty, notes, calls, l1, pc, loc, floor, late>>

\* A bug: the observer takes a flush for one row.
FlushedOneRow(tb) ==
    /\ flushing[tb] > 0 /\ flushing' = [flushing EXCEPT ![tb] = 0]
    /\ dirty' = [dirty EXCEPT ![tb] = @ - 1]
    /\ UNCHANGED <<shared, pg, queue, notes, calls, l1, pc, loc, floor, late>>

\* The observer: mark_clean() for every row, in the database or not.
Flushed(tb) ==
    /\ flushing[tb] > 0 /\ flushing' = [flushing EXCEPT ![tb] = 0]
    /\ dirty' = [dirty EXCEPT ![tb] = IF @ > flushing[tb] THEN @ - flushing[tb] ELSE 0]
    /\ UNCHANGED <<shared, pg, queue, notes, calls, l1, pc, loc, floor, late>>

\* A bug: entries are pinned by any write.
SweepNoneDirty(i) ==
    /\ slots[i] # None /\ \A tb \in Tables : dirty[tb] = 0 /\ pg[tb] = 0
    /\ Clear(i)
    /\ UNCHANGED <<lru, tags, db, l1, pc, loc, floor, late>>

\* An entry that has expired goes unless its table is dirty.  Any entry may
\* be one.
Sweep(i) ==
    /\ i \notin Empty \cup Dirty
    /\ Clear(i)
    /\ UNCHANGED <<lru, tags, db, l1, pc, loc, floor, late>>

-----------------------------------------------------------------------------
Step(t) ==
    \/ PutScan(t) \/ PutWrite(t) \/ PutTag(t) \/ PutQuota(t) \/ PutEvict(t)
    \/ InvPop(t) \/ (\E k \in Keys : InvKey(t, k)) \/ InvL1(t) \/ Enqueue(t)

Call(t) ==
    \/ \E k \in Keys : ReadL1(t, k) \/ ReadL2(t, k) \/ Query(t, k)
    \/ \E tb \in Tables : Commit(t, tb) \/ Write(t, tb)

Next ==
    \/ \E t \in Workers : Call(t)
    \/ \E t \in Threads : Step(t)
    \/ \E tb \in Tables : RemoteCommit(tb) \/ Notified(tb) \/ Flush(tb) \/ Flushed(tb)
    \/ \E i \in Slots : Sweep(i)

Spec == Init /\ [][Next]_vars

\* Threads run, the batch writer flushes, and entries expire and are swept.
Fairness ==
    /\ \A t \in Threads : WF_vars(Step(t))
    /\ \A tb \in Tables : WF_vars(Flush(tb)) /\ WF_vars(Flushed(tb))
    /\ \A i \in Slots : WF_vars(Sweep(i))

FairSpec == Spec /\ Fairness

-----------------------------------------------------------------------------
Labels == {"idle", "scan", "write", "tag", "quota", "evict", "pop", "inv", "enqueue"}
Locals == [key : Keys \cup {None}, table : Tables \cup {None}, val : Nat, at : 0 .. NSlots,
           todo : [Keys -> Nat]]

Result == [key : Keys, val : Nat]

(* Every variable has its type; an entry carries the table of its query, and *)
(* the order of use has every slot.                                          *)
TypeOK ==
    /\ slots \in [Slots -> Entry \cup {None}]
    /\ \A i \in Slots \ Empty : slots[i].table = Tag[slots[i].key]
    /\ lru \in [Slots -> Slots] /\ \A i \in Slots : \E n \in Slots : lru[n] = i
    /\ bytes \in Nat /\ calls \in Nat /\ tags \in [Keys -> Nat]
    /\ {pg, floor, dirty, queue, flushing, notes} \subseteq [Tables -> Nat]
    /\ pc \in [Threads -> Labels] /\ loc \in [Threads -> Locals]
    /\ l1 \in [Threads -> Seq(Result)] /\ \A t \in Threads : Len(l1[t]) <= L1Cap

(* What invalidations have taken from the lists for k and not yet got to.    *)
Popped(k) == UNION {{t} \X (1 .. loc[t].todo[k]) : t \in Threads}

Entering(k) == {t \in Threads : pc[t] = "tag" /\ loc[t].key = k}

(* The index is complete (cache.cpp:364): a key fills no more slots than the *)
(* times it is in tags_, about to be entered by a put, or popped by an       *)
(* invalidation that has yet to look for it.  Puts that race may leave the   *)
(* same key in two slots.                                                    *)
Indexed ==
    \A k \in Keys :
        Cardinality(Holding(k)) <= tags[k] + Cardinality(Entering(k)) + Cardinality(Popped(k))

(* The bytes the quota goes by are those of the entries (cache.cpp:344).     *)
BytesExact == bytes = Cardinality(Slots \ Empty)

(* When a handler has answered for a change, every result older than it is   *)
(* gone from all the slots, with three exceptions: a result whose put was    *)
(* under way when the list of keys was taken (db.cpp:168), one in a second   *)
(* slot of its key, when a put that was overtaken has filled the first       *)
(* (cache.cpp:341), and one that a concurrent invalidation has taken over    *)
(* and not yet got to (cache.cpp:413).                                       *)
InvalidationComplete ==
    \A i \in Slots : slots[i] # None /\ slots[i].val < floor[slots[i].table]
                        => \/ <<slots[i].key, slots[i].val>> \in late
                           \/ \E t \in Threads : loc[t].todo[slots[i].key] > 0

(* A table is dirty for as long as a row written to it is in the batch       *)
(* writer or on its way there, and for every row once.                       *)
DirtyPerRow ==
    \A tb \in Tables :
        dirty[tb] = queue[tb] + flushing[tb]
                        + Cardinality({t \in Threads : pc[t] = "enqueue" /\ loc[t].table = tb})

(* The counters that evictions and sweeps go by are exact, whatever the      *)
(* threads interleave: the bytes, and the rows that keep a table dirty.      *)
CountersExact == TypeOK /\ BytesExact /\ DirtyPerRow

(* Once commits have ceased the shared level is up to date for good: what an *)
(* invalidation has missed is swept, whether flushes fail or not.            *)
L2Converges ==
    <>[](\A i \in Slots : slots[i] # None => slots[i].val = pg[slots[i].table])
=============================================================================
