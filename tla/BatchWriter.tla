---------------------------- MODULE BatchWriter ----------------------------
(***************************************************************************)
(* The batch writer of spido-pg for one table                              *)
(* (src/spido-pg/src/batch_writer.cpp), with the two calls of Db that feed *)
(* it and the dirty counter of the query cache that follows it             *)
(* (src/spido-pg/src/db.cpp).                                              *)
(*                                                                         *)
(* A write is one row.  A step is one critical section of the table's      *)
(* mutex, one round trip to PostgreSQL or one change of the counter.  The  *)
(* flusher's wait is timed, so it may take a batch at any time:            *)
(* flush_request and the size test only bring that forward.  Rows of one   *)
(* INSERT have different keys once coalesced, so a batch is a set.         *)
(***************************************************************************)
EXTENDS Integers, Sequences, FiniteSets

CONSTANTS
    Writes,         \* rows, each written once
    SyncWrites,     \* those written by write_sync()
    Keys, Key, Version,   \* primary key and version of a row
    None,
    Tables,         \* the values that `table` may have
    BatchSizes,     \* values rebalance() may give dyn_batch_size
    MaxRetry,       \* max_retry
    Faults          \* what may go wrong, see `faults`

ASSUME BatchAssumption ==
    /\ IsFiniteSet(Writes) /\ SyncWrites \subseteq Writes
    /\ Key \in [Writes -> Keys] /\ Version \in [Writes -> Nat]
    /\ None \notin Writes
    /\ Tables \subseteq {"Event", "State", "Versioned"}
    /\ BatchSizes \subseteq Nat \ {0} /\ BatchSizes # {}
    /\ MaxRetry \in Nat
    /\ Faults \subseteq {"refuse", "break", "crash"}

VARIABLES
    call,       \* where the call that writes a row is
    queue,      \* s->queue
    log,        \* history: every row enqueued, in order
    size,       \* s->dyn_batch_size
    fpc,        \* the flusher: "wait", "send", "end", "exit", or "dead"
    batch,      \* the rows it is sending
    attempt,    \* send_batch()'s attempts so far
    stop,       \* s->stop
    dirty,      \* dirty_[table] of the query cache
    flushed, failed,   \* rows counted in s->flushed, in s->failed
    dlq,        \* rows of the batches recorded in the dead-letter table
    stored,     \* the row PostgreSQL holds for a key (State)
    applied,    \* how often PostgreSQL has executed a row
    orphans,    \* statements whose connection broke and that may still run
    table,      \* data_model and version_index: an "Event" table, a "State" table,
                \* or one with a version column
    faults      \* chosen at the start: statements fail without effect ("refuse"),
                \* connections break under one, the process is killed ("crash")

callVars  == <<call, queue, log>>
flushVars == <<fpc, batch, attempt>>
pgVars    == <<stored, applied, orphans>>
countVars == <<dirty, flushed, failed, dlq>>
envVars   == <<table, faults>>
vars == <<callVars, size, flushVars, stop, countVars, pgVars, envVars>>

Alive == fpc # "dead"

-----------------------------------------------------------------------------
(* PostgreSQL *)

ApplyUnguarded(rows) ==
    /\ applied' = [w \in Writes |-> applied[w] + (IF w \in rows THEN 1 ELSE 0)]
    /\ stored' = [k \in Keys |->
         IF \E w \in rows : Key[w] = k /\ table # "Event"
         THEN CHOOSE w \in rows : Key[w] = k
         ELSE stored[k]]

\* ON CONFLICT DO UPDATE ... WHERE table.version <= EXCLUDED.version.
Overwrites(w) ==
    \/ stored[Key[w]] = None
    \/ table # "Versioned"
    \/ Version[stored[Key[w]]] <= Version[w]

\* One INSERT statement: all rows or none, an upsert for a State table.
Apply(rows) ==
    /\ applied' = [w \in Writes |-> applied[w] + (IF w \in rows THEN 1 ELSE 0)]
    /\ stored' = [k \in Keys |->
         IF \E w \in rows : Key[w] = k /\ table # "Event" /\ Overwrites(w)
         THEN CHOOSE w \in rows : Key[w] = k /\ Overwrites(w)
         ELSE stored[k]]

-----------------------------------------------------------------------------
Init ==
    /\ table \in Tables /\ faults \in SUBSET Faults
    /\ call = [w \in Writes |-> "no"]
    /\ queue = <<>> /\ log = <<>>
    /\ size \in BatchSizes
    /\ fpc = "wait" /\ batch = {} /\ attempt = 0 /\ stop = FALSE
    /\ dirty = 0 /\ flushed = {} /\ failed = {} /\ dlq = {}
    /\ stored = [k \in Keys |-> None]
    /\ applied = [w \in Writes |-> 0] /\ orphans = {}

(* Db::write() and Db::write_sync() *)

MarkDirty(w) ==
    /\ Alive /\ ~stop /\ call[w] = "no"
    /\ call' = [call EXCEPT ![w] = "dirty"]
    /\ dirty' = dirty + 1
    /\ UNCHANGED <<queue, log, size, flushVars, stop, flushed, failed, dlq, pgVars, envVars>>

Enqueue(w) ==
    /\ Alive /\ call[w] = "dirty"
    /\ call' = [call EXCEPT ![w] = IF w \in SyncWrites THEN "flush" ELSE "done"]
    /\ queue' = Append(queue, w) /\ log' = Append(log, w)
    /\ UNCHANGED <<size, flushVars, stop, countVars, pgVars, envVars>>

\* flush_now(): the predicate of drain_cv.wait, on entry and after a wake-up.
FlushNow(w) ==
    /\ Alive /\ call[w] = "flush"
    /\ call' = [call EXCEPT ![w] = IF queue = <<>> \/ stop THEN "done" ELSE "drain"]
    /\ UNCHANGED <<queue, log, size, flushVars, stop, countVars, pgVars, envVars>>

-----------------------------------------------------------------------------
(* flusher_loop() and send_batch() *)

Take(n) == {queue[i] : i \in 1..n}

CoalesceFirst(n) ==
    IF table = "Event" THEN Take(n)
    ELSE {queue[i] : i \in {i \in 1..n : \A j \in 1..n : j < i => Key[queue[j]] # Key[queue[i]]}}

CoalesceAlways(n) ==
    {queue[i] : i \in {i \in 1..n : \A j \in 1..n : j > i => Key[queue[j]] # Key[queue[i]]}}

\* The rows kept of the first n: for a State table the last one of each key.
Coalesce(n) ==
    IF table = "Event" THEN Take(n)
    ELSE {queue[i] : i \in {i \in 1..n : \A j \in 1..n : j > i => Key[queue[j]] # Key[queue[i]]}}

Drain ==
    /\ fpc = "wait" /\ ~(stop /\ queue = <<>>)
    /\ LET n == IF Len(queue) <= size THEN Len(queue) ELSE size IN
        /\ batch' = Coalesce(n)
        /\ queue' = SubSeq(queue, n + 1, Len(queue))
        /\ fpc' = IF n = 0 THEN "end" ELSE "send"
    /\ attempt' = 0
    /\ UNCHANGED <<call, log, size, stop, countVars, pgVars, envVars>>

\* The flush observer: mark_clean() once per row sent.
Observe ==
    dirty' = IF Cardinality(batch) <= dirty THEN dirty - Cardinality(batch) ELSE 0

SendOk ==
    /\ fpc = "send" /\ Apply(batch)
    /\ flushed' = flushed \cup batch
    /\ Observe
    /\ batch' = {} /\ fpc' = "end"
    /\ UNCHANGED <<callVars, size, attempt, stop, failed, dlq, orphans, envVars>>

RetryOnceMore ==
    /\ attempt' = attempt + 1
    /\ IF attempt + 1 > MaxRetry
       THEN /\ failed' = failed \cup batch
            /\ dlq' \in {dlq \cup batch, dlq}
            /\ Observe
            /\ batch' = {} /\ fpc' = "end"
       ELSE UNCHANGED <<failed, dlq, dirty, batch, fpc>>

\* Another attempt, or the dead-letter insert, whose result nobody reads.
RetryOrGiveUp ==
    /\ attempt' = attempt + 1
    /\ IF attempt + 1 >= MaxRetry
       THEN /\ failed' = failed \cup batch
            /\ dlq' \in {dlq \cup batch, dlq}
            /\ Observe
            /\ batch' = {} /\ fpc' = "end"
       ELSE UNCHANGED <<failed, dlq, dirty, batch, fpc>>

SendRefusedPlain ==
    /\ "refuse" \in faults /\ fpc = "send"
    /\ ApplyUnguarded(batch)
    /\ RetryOrGiveUp
    /\ UNCHANGED <<callVars, size, stop, flushed, orphans, envVars>>

SendRefused ==
    /\ "refuse" \in faults /\ fpc = "send"
    /\ RetryOrGiveUp
    /\ UNCHANGED <<callVars, size, stop, flushed, pgVars, envVars>>

\* The server may have executed the statement, may do so later, or never.
SendBroken ==
    /\ "break" \in faults /\ fpc = "send"
    /\ orphans' = orphans \cup {[rows |-> batch, n |-> attempt]}
    /\ RetryOrGiveUp
    /\ UNCHANGED <<callVars, size, stop, flushed, stored, applied, envVars>>

EndBatchSilent ==
    /\ fpc = "end" /\ fpc' = "wait"
    /\ UNCHANGED <<callVars, size, batch, attempt, stop, countVars, pgVars, envVars>>

\* drain_cv.notify_all() if the queue is empty by now.
EndBatch ==
    /\ fpc = "end" /\ fpc' = "wait"
    /\ call' = [w \in Writes |->
         IF queue = <<>> /\ call[w] = "drain" THEN "flush" ELSE call[w]]
    /\ UNCHANGED <<queue, log, size, batch, attempt, stop, countVars, pgVars, envVars>>

Exit ==
    /\ fpc = "wait" /\ stop /\ queue = <<>>
    /\ fpc' = "exit"
    /\ UNCHANGED <<callVars, size, batch, attempt, stop, countVars, pgVars, envVars>>

-----------------------------------------------------------------------------
(* The controller, the destructor, the server and the process *)

\* dyn_batch_size is scaled with the load, and is at least 1.
Rebalance ==
    /\ Alive /\ ~stop
    /\ size' \in BatchSizes
    /\ UNCHANGED <<callVars, flushVars, stop, countVars, pgVars, envVars>>

\* ~BatchWriter(): nobody is inside a call by then.
Stop ==
    /\ Alive /\ ~stop
    /\ \A w \in Writes : call[w] \in {"no", "done"}
    /\ stop' = TRUE
    /\ UNCHANGED <<callVars, size, flushVars, countVars, pgVars, envVars>>

OrphanRuns(o) ==
    /\ Apply(o.rows)
    /\ orphans' = orphans \ {o}
    /\ UNCHANGED <<callVars, size, flushVars, stop, countVars, envVars>>

OrphanDies(o) ==
    /\ orphans' = orphans \ {o}
    /\ UNCHANGED <<callVars, size, flushVars, stop, countVars, stored, applied, envVars>>

\* A statement on its way may still run.
Kill ==
    /\ "crash" \in faults /\ fpc \notin {"exit", "dead"}
    /\ fpc' = "dead" /\ queue' = <<>> /\ batch' = {}
    /\ \/ UNCHANGED orphans
       \/ fpc = "send" /\ orphans' = orphans \cup {[rows |-> batch, n |-> attempt]}
    /\ UNCHANGED <<call, log, size, attempt, stop, countVars, stored, applied, envVars>>

Caller(w) == MarkDirty(w) \/ Enqueue(w) \/ FlushNow(w)
Flusher == Drain \/ SendOk \/ SendRefused \/ SendBroken \/ EndBatch \/ Exit
Orphan(o) == OrphanRuns(o) \/ OrphanDies(o)

Next ==
    \/ \E w \in Writes : Caller(w)
    \/ Flusher
    \/ \E o \in orphans : Orphan(o)
    \/ Rebalance \/ Stop \/ Kill

Spec == Init /\ [][Next]_vars

-----------------------------------------------------------------------------
(* Properties *)

InQueue == {queue[i] : i \in DOMAIN queue}
Enqueued == {log[i] : i \in DOMAIN log}

\* Every variable has its type.
TypeOK ==
    /\ call \in [Writes -> {"no", "dirty", "flush", "drain", "done"}]
    /\ queue \in Seq(Writes) /\ log \in Seq(Writes)
    /\ size \in BatchSizes
    /\ fpc \in {"wait", "send", "end", "exit", "dead"}
    /\ batch \subseteq Writes /\ attempt \in Nat /\ stop \in BOOLEAN
    /\ dirty \in Nat
    /\ flushed \subseteq Writes /\ failed \subseteq Writes /\ dlq \subseteq failed
    /\ stored \in [Keys -> Writes \cup {None}]
    /\ applied \in [Writes -> Nat]
    /\ orphans \subseteq [rows : SUBSET Writes, n : Nat]
    /\ table \in Tables /\ faults \subseteq Faults

\* A row of an Event table is, while the process lives, in the queue, in the
\* batch being sent, or counted as flushed or failed: none is dropped.
EveryRowKept ==
    table = "Event" /\ Alive => Enqueued \subseteq InQueue \cup batch \cup flushed \cup failed

\* Rows that db.cpp has counted as dirty and that are not settled.
OnTheWay == {w \in Writes : call[w] = "dirty"} \cup InQueue \cup batch

\* Every row is accounted for.  The table counts as dirty at least until the last
\* row on its way is settled (mark_dirty() and mark_clean(), db.cpp), and an
\* Event table no longer than that; a row of an Event table is in the queue, in
\* the batch being sent, or counted as flushed or failed (flusher_loop); and the
\* destructor leaves none behind in memory.
RowsAccounted ==
    /\ Alive => dirty >= Cardinality(OnTheWay)
    /\ Alive /\ table = "Event" => dirty = Cardinality(OnTheWay)
    /\ EveryRowKept
    /\ fpc = "exit" => queue = <<>> /\ batch = {}

\* However often connections break under it, a row is executed at most once
\* per attempt that max_retry allows: statements that may still run included.
AtMostMaxRetry ==
    \A w \in Writes :
        applied[w] + Cardinality({o \in orphans : w \in o.rows})
            <= IF MaxRetry = 0 THEN 1 ELSE MaxRetry

\* With a version column the stored version of a key never goes down, whatever
\* is retried or executed late (the guard of batch_writer.cpp:227-229).
VersionNeverDrops ==
    [][table = "Versioned" => \A k \in Keys :
        stored[k] # None => stored'[k] # None /\ Version[stored[k]] <= Version[stored'[k]]]_vars

Settled == queue = <<>> /\ batch = {} /\ orphans = {} /\ failed = {} /\ Alive

\* Row j of the log goes over row i of the same key.
Beats(j, i) ==
    /\ Key[log[j]] = Key[log[i]] /\ applied[log[j]] > 0
    /\ \/ j > i /\ (table # "Versioned" \/ Version[log[j]] = Version[log[i]])
       \/ table = "Versioned" /\ Version[log[j]] > Version[log[i]]

\* Once everything is flushed, and no connection has broken under a statement,
\* the row enqueued last for a key of a State table has been sent, and PostgreSQL
\* holds of the rows sent the last one, on a table with versions the last one of
\* the highest version (coalescing, ON CONFLICT, the version guard).
StateLastWriteWins ==
    Settled /\ table # "Event" /\ "break" \notin faults =>
        \A i \in DOMAIN log :
            /\ (\A j \in DOMAIN log : j > i => Key[log[j]] # Key[log[i]])
                  => applied[log[i]] > 0
            /\ applied[log[i]] > 0 /\ (\A j \in DOMAIN log : ~Beats(j, i))
                  => stored[Key[log[i]]] = log[i]

\* A write_sync() that has returned has left nothing of its row in the queue.
SyncLeavesQueue ==
    \A w \in SyncWrites : call[w] = "done" => w \notin InQueue

\* flush_now() returns: the flusher empties the queue and says so.
FlushNowReturns == \A w \in SyncWrites : call[w] = "flush" ~> call[w] = "done"
=============================================================================
