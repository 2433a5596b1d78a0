---------------------------- MODULE EntityCache ----------------------------
(***************************************************************************)
(* The cache of rows (src/spido-pg/src/entity_cache.cpp), one shard of it, *)
(* with Db::get_entity() that fills it, the writer and the flush observer  *)
(* its interface is made for, and the listener that tells it of commits of *)
(* other instances (PgNotify).                                             *)
(*                                                                         *)
(* A row is the version the database had when it was read, or will have    *)
(* when it is flushed.  A key is written by this instance or by others,    *)
(* not by both.  A slot is changed only under its lock, so a change of one *)
(* slot is a step.  Entries have one size.                                 *)
(***************************************************************************)
EXTENDS PgNotify, FiniteSets, FiniteSetsExt

CONSTANTS
    Readers, Keys, Local,   \* Local: the keys this instance writes
    Home,                   \* Home[k]: the slot the probe starts at
    NSlots, ProbeLength, Quota, None,
    MaxCalls                \* bound on queries, puts, commits and pins

Slots == 1 .. NSlots

Entries == [key : Keys, version : 1 .. MaxCalls + 1, data : 1 .. MaxCalls + 1,
            state : {"Clean", "Dirty", "Tombstone"}, ttl : BOOLEAN]

ASSUME EntityAssumption ==
    /\ NSlots \in Nat \ {0} /\ ProbeLength \in Nat /\ Home \in [Keys -> Slots] /\ MaxCalls \in Nat
    /\ None \notin Keys \cup Entries

VARIABLES
    pgver,       \* pgver[k]: the version the database has
    issued,      \* issued[k]: the newest version the writer has put
    slots, pinned, lru, bytes,
    rpc, key, row, at,      \* readers: where they are, and their locals
    victim,      \* the sweeper's, in the pass for the byte quota
    calls,
    late,        \* history: rows whose put a notification has overtaken
    twice        \* history: keys that were in two slots

cacheVars  == <<slots, pinned, lru, bytes, twice>>
readerVars == <<rpc, key, row, at>>
rest == <<pgver, issued, victim, calls, late>>
vars == <<notifyVars, cacheVars, readerVars, rest>>

Init ==
    /\ NotifyInit
    /\ pgver = [k \in Keys |-> 1] /\ issued = [k \in Keys |-> 1]
    /\ slots = [i \in Slots |-> None] /\ pinned = [i \in Slots |-> FALSE]
    /\ lru = [i \in Slots |-> i] /\ bytes = 0 /\ twice = {}
    /\ rpc = [r \in Readers |-> "idle"] /\ key = [r \in Readers |-> None]
    /\ row = [r \in Readers |-> 0] /\ at = [r \in Readers |-> 0]
    /\ victim = 0 /\ calls = 0 /\ late = {}

-----------------------------------------------------------------------------
(* The slots *)

OneMoreCall == calls < MaxCalls /\ calls' = calls + 1

Probe(k) == [i \in 1 .. ProbeLength |-> ((Home[k] + i - 2) % NSlots) + 1]
Empty == {i \in Slots : slots[i] = None}
Holding(k) == {i \in Slots : slots[i] # None /\ slots[i].key = k}

\* The first slot of the probe that is in S.
First(k, S) ==
    LET found == {n \in 1 .. ProbeLength : Probe(k)[n] \in S}
    IN  IF found = {} THEN 0 ELSE Probe(k)[Min(found)]

\* lru: the slots, the one used longest ago first.
Oldest(S) == lru[Min({n \in Slots : lru[n] \in S})]
Touch(i) ==
    LET at_ == CHOOSE n \in Slots : lru[n] = i
    IN  lru' = [n \in Slots |-> IF n < at_ THEN lru[n] ELSE IF n < NSlots THEN lru[n + 1] ELSE i]

Entry(k, version, data, state, ttl) ==
    [key |-> k, version |-> version, data |-> data, state |-> state, ttl |-> ttl]

\* get(): the probe ends at an empty slot; a tombstone is a miss.
Find(k) ==
    LET i == First(k, Empty \cup Holding(k))
    IN  IF i = 0 \/ slots[i] = None \/ slots[i].state = "Tombstone" THEN 0 ELSE i

\* put(): the entry of the key, or an empty slot, or the unpinned one used
\* longest ago if it is clean, or none.
Target(k) ==
    LET same  == First(k, Holding(k))
        empty == First(k, Empty)
        free  == {i \in Range(Probe(k)) : ~pinned[i]}
    IN  IF same # 0 THEN same ELSE IF empty # 0 THEN empty
        ELSE IF free # {} /\ slots[Oldest(free)].state = "Clean" THEN Oldest(free) ELSE 0

\* The slot put() has chosen is overwritten, whatever is in it by now.
Store(i, e) ==
    /\ slots' = [slots EXCEPT ![i] = e]
    /\ bytes' = IF slots[i] = None THEN bytes + 1 ELSE bytes
    /\ Touch(i)
    /\ twice' = IF Holding(e.key) \subseteq {i} THEN twice ELSE twice \cup {e.key}
    /\ UNCHANGED pinned

\* Emptied: the slot stays pinned if it was.
Clear(i) == slots' = [slots EXCEPT ![i] = None] /\ bytes' = bytes - 1 /\ UNCHANGED <<lru, pinned, twice>>

-----------------------------------------------------------------------------
(* Db::get_entity() *)

Hit(r, k) ==
    /\ rpc[r] = "idle" /\ Find(k) # 0 /\ Touch(Find(k))
    /\ UNCHANGED <<slots, pinned, bytes, twice, readerVars, rest, notifyVars>>

Query(r, k) ==
    /\ rpc[r] = "idle" /\ Find(k) = 0 /\ OneMoreCall
    /\ key' = [key EXCEPT ![r] = k] /\ row' = [row EXCEPT ![r] = pgver[k]]
    /\ rpc' = [rpc EXCEPT ![r] = "scan"]
    /\ UNCHANGED <<at, cacheVars, pgver, issued, victim, late, notifyVars>>

ReaderDone(r) ==
    /\ rpc' = [rpc EXCEPT ![r] = "idle"] /\ key' = [key EXCEPT ![r] = None]
    /\ row' = [row EXCEPT ![r] = 0] /\ at' = [at EXCEPT ![r] = 0]

Scan(r) ==
    LET i == Target(key[r])
    IN  /\ rpc[r] = "scan"
        /\ \/ i = 0 /\ ReaderDone(r)
           \/ i # 0 /\ at' = [at EXCEPT ![r] = i] /\ rpc' = [rpc EXCEPT ![r] = "write"] /\ UNCHANGED <<key, row>>
        /\ UNCHANGED <<cacheVars, rest, notifyVars>>

\* Version 1 whatever the row's, clean, no TTL.
PutRow(r) ==
    /\ rpc[r] = "write" /\ ReaderDone(r)
    /\ Store(at[r], Entry(key[r], 1, row[r], "Clean", FALSE))
    /\ UNCHANGED <<rest, notifyVars>>

-----------------------------------------------------------------------------
(* The writer: put(..., dirty) or erase(), and the flush observer *)

\* A put without a slot drops its row; the flush goes on all the same.  The
\* writer of a key is one thread, and its put() and the second half of erase(),
\* which makes the entry a tombstone, are one step.
Put(k, state) ==
    /\ k \in Local /\ OneMoreCall
    /\ issued' = [issued EXCEPT ![k] = @ + 1]
    /\ IF Target(k) = 0 THEN UNCHANGED cacheVars
       ELSE Store(Target(k), Entry(k, issued[k] + 1, issued[k] + 1, state, TRUE))
    /\ UNCHANGED <<readerVars, pgver, victim, late, notifyVars>>

\* The flush reaches the database; the trigger notifies.
Flush(k) ==
    /\ k \in Local /\ pgver[k] < issued[k]
    /\ \E v \in pgver[k] + 1 .. issued[k] : pgver' = [pgver EXCEPT ![k] = v] /\ Notify(k, v)
    /\ UNCHANGED <<cacheVars, readerVars, issued, victim, calls, late>>

\* A bug: the flush of an older version cleans the entry too.
MarkFlushedAny(k, version) ==
    LET i == First(k, Holding(k))
    IN  /\ k \in Local /\ i # 0
        /\ IF slots[i].state = "Tombstone" THEN Clear(i)
           ELSE slots' = [slots EXCEPT ![i].state = "Clean"] /\ UNCHANGED <<bytes, lru, pinned, twice>>
        /\ UNCHANGED <<readerVars, rest, notifyVars>>

\* mark_flushed(), of a version that is in the database.
MarkFlushed(k, version) ==
    LET i == First(k, Holding(k))
    IN  /\ k \in Local /\ i # 0 /\ slots[i].version <= version
        /\ IF slots[i].state = "Tombstone" THEN Clear(i)
           ELSE slots' = [slots EXCEPT ![i].state = "Clean"] /\ UNCHANGED <<bytes, lru, pinned, twice>>
        /\ UNCHANGED <<readerVars, rest, notifyVars>>

-----------------------------------------------------------------------------
(* The listener's handler: notify_remote_version() *)

Overtaken(k) == {<<k, row[r]>> : r \in {x \in Readers : key[x] = k}}

\* A bug: off by one.
OlderByTwo(e, version) == e.version + 1 < version

Older(e, version) == e.version < version

Handle ==
    LET m == handling[1]
        i == First(m.key, Holding(m.key))
    IN  /\ npc = "handle" /\ NHandled
        /\ IF i # 0 /\ slots[i].state # "Dirty" /\ Older(slots[i], m.version)
           THEN Clear(i) ELSE UNCHANGED cacheVars
        /\ late' = late \cup Overtaken(m.key)
        /\ UNCHANGED <<readerVars, pgver, issued, victim, calls>>

\* A commit of another instance.
RemoteCommit(k) ==
    /\ k \notin Local /\ OneMoreCall
    /\ pgver' = [pgver EXCEPT ![k] = @ + 1] /\ Notify(k, pgver[k] + 1)
    /\ UNCHANGED <<cacheVars, readerVars, issued, victim, late>>

-----------------------------------------------------------------------------
(* pin(), unpin() and the sweeper *)

Pin(k) ==
    LET i == First(k, Holding(k))
    IN  /\ i # 0 /\ OneMoreCall
        /\ pinned' = [pinned EXCEPT ![i] = TRUE]
        /\ UNCHANGED <<slots, lru, bytes, twice, readerVars, pgver, issued, victim, late, notifyVars>>

Unpin(k) ==
    LET i == First(k, Holding(k))
    IN  /\ i # 0 /\ pinned[i] /\ pinned' = [pinned EXCEPT ![i] = FALSE]
        /\ UNCHANGED <<slots, lru, bytes, twice, readerVars, rest, notifyVars>>

SweepExpired(i) ==
    /\ slots[i] # None /\ slots[i].ttl /\ slots[i].state = "Clean" /\ ~pinned[i]
    /\ Clear(i)
    /\ UNCHANGED <<readerVars, rest, notifyVars>>

\* The pass for the quota chooses without the lock and looks again under it,
\* at the state and not at the pin.
SweepChoose ==
    LET S == {i \in Slots : slots[i] # None /\ slots[i].state = "Clean" /\ ~pinned[i]}
    IN  /\ victim = 0 /\ bytes > Quota /\ S # {} /\ victim' = Oldest(S)
        /\ UNCHANGED <<cacheVars, readerVars, pgver, issued, calls, late, notifyVars>>

SweepVictim ==
    /\ victim # 0 /\ victim' = 0
    /\ IF slots[victim] # None /\ slots[victim].state = "Clean" THEN Clear(victim) ELSE UNCHANGED cacheVars
    /\ UNCHANGED <<readerVars, pgver, issued, calls, late, notifyVars>>

-----------------------------------------------------------------------------
Cache ==
    \/ \E r \in Readers : Scan(r) \/ PutRow(r) \/ \E k \in Keys : Hit(r, k) \/ Query(r, k)
    \/ \E k \in Keys : Put(k, "Dirty") \/ Put(k, "Tombstone") \/ Flush(k) \/ RemoteCommit(k) \/ Pin(k) \/ Unpin(k)
    \/ \E k \in Keys : \E v \in 2 .. pgver[k] : MarkFlushed(k, v)
    \/ \E i \in Slots : SweepExpired(i)
    \/ SweepChoose \/ SweepVictim

Next ==
    \/ Cache \/ Handle
    \/ NotifyNext /\ UNCHANGED <<cacheVars, readerVars, rest>>

Spec == Init /\ [][Next]_vars

-----------------------------------------------------------------------------
(* Every variable has its type, and what erase() leaves is a tombstone.      *)
TypeOK ==
    /\ \A i \in Slots : slots[i] # None =>
            /\ slots[i] \in Entries
            /\ slots[i].key \notin Local => slots[i].state = "Clean"
    /\ Range(lru) = Slots /\ Len(lru) = NSlots
    /\ \A r \in Readers : rpc[r] = "idle" <=> key[r] = None
    /\ handling # << >> <=> npc = "handle"

(* The bytes the quota goes by are those of the entries.                     *)
BytesExact == bytes = Cardinality({i \in Slots : slots[i] # None})

(* A row marked clean is in the database, which may have a newer one: only   *)
(* the flush of that version or of a later one makes it clean                *)
(* (entity_cache.cpp:214), so it may be evicted without loss.                *)
CleanIsFlushed ==
    \A i \in Slots : slots[i] # None /\ slots[i].state = "Clean" => slots[i].data <= pgver[slots[i].key]

(* The slots are what the quota and the evictions take them for: the bytes   *)
(* are exact, and only a row of another instance's key or a flushed one is   *)
(* clean.                                                                    *)
SlotsExact == TypeOK /\ BytesExact /\ CleanIsFlushed

OnItsWay(k, v) ==
    \E m \in Range(inbox) \cup Range(handling) : m.key = k /\ m.version > v

(* A row of another instance's key that is older than the database's has a   *)
(* notification coming that will evict it, unless one was lost with the      *)
(* session (notify.cpp:109) or overtook the put of get_entity() (db.cpp:133),*)
(* or two puts that raced have left two copies, of which a notification      *)
(* evicts one (entity_cache.cpp:255).                                        *)
StaleIsNotified ==
    \A i \in Slots :
        slots[i] # None /\ slots[i].key \notin Local /\ slots[i].data < pgver[slots[i].key]
            => \/ OnItsWay(slots[i].key, slots[i].data)
               \/ slots[i].key \in lost \cup twice
               \/ <<slots[i].key, slots[i].data>> \in late
=============================================================================
