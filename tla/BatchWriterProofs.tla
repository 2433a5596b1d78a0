------------------------- MODULE BatchWriterProofs -------------------------
(***************************************************************************)
(* Theorems about BatchWriter, for any set of rows, any batch sizes, any   *)
(* number of retries and every failure the model has.                      *)
(***************************************************************************)
EXTENDS BatchWriter, FiniteSetTheorems, TLAPS

\* A step is first-order unless it names the SMT solver.
USE ZenonT(30)

Calls == {"no", "dirty", "flush", "drain", "done"}
Places == {"wait", "send", "end", "exit", "dead"}
Statements == [rows : SUBSET Writes, n : Nat]

-----------------------------------------------------------------------------
(* Lemmas about queues *)

LEMMA AppendFacts ==
    ASSUME NEW q \in Seq(Writes), NEW w \in Writes
    PROVE  /\ Append(q, w) \in Seq(Writes)
           /\ {Append(q, w)[i] : i \in DOMAIN Append(q, w)} = {q[i] : i \in DOMAIN q} \cup {w}
<1>1. Append(q, w) \in Seq(Writes) /\ DOMAIN Append(q, w) = 1..(Len(q) + 1)
  BY SMTT(60)
<1>2. /\ \A i \in 1..Len(q) : Append(q, w)[i] = q[i]
      /\ Append(q, w)[Len(q) + 1] = w
      /\ DOMAIN q = 1..Len(q) /\ Len(q) \in Nat
  BY SMTT(60)
<1>3. 1..(Len(q) + 1) = 1..Len(q) \cup {Len(q) + 1}
  BY <1>2, SMTT(60)
<1> QED BY <1>1, <1>2, <1>3, SMTT(60)

\* What the flusher leaves, by position.
LEMMA RestFacts ==
    ASSUME NEW q \in Seq(Writes), NEW n \in 0..Len(q)
    PROVE  LET r == SubSeq(q, n + 1, Len(q)) IN
           /\ r \in Seq(Writes) /\ Len(r) = Len(q) - n /\ DOMAIN r = 1..(Len(q) - n)
           /\ \A i \in 1..(Len(q) - n) : r[i] = q[n + i]
<1> DEFINE r == SubSeq(q, n + 1, Len(q))
<1>1. Len(q) \in Nat /\ n \in Nat /\ n <= Len(q)
  BY SMTT(60)
<1>2. n + 1 \in Int /\ Len(q) \in Int /\ \A i \in (n + 1)..Len(q) : q[i] \in Writes
  BY <1>1, SMTT(60)
<1>3. r \in Seq(Writes) /\ Len(r) = IF n + 1 <= Len(q) THEN Len(q) - (n + 1) + 1 ELSE 0
  BY <1>1, <1>2, SMTT(60)
<1>4. \A i \in 1..(Len(q) - n) : r[i] = q[n + i]
  BY <1>1, SMTT(60)
<1> HIDE DEF r
<1>5. \A a, b \in Nat : b <= a => (IF b + 1 <= a THEN a - (b + 1) + 1 ELSE 0) = a - b
  BY SMTT(60)
<1>6. Len(r) = Len(q) - n
  BY <1>1, <1>3, <1>5
<1> QED BY <1>3, <1>4, <1>6, SMTT(60) DEF r

\* What the flusher takes and what it leaves are the whole queue.
LEMMA SplitFacts ==
    ASSUME NEW q \in Seq(Writes), NEW n \in 0..Len(q)
    PROVE  LET r == SubSeq(q, n + 1, Len(q)) IN
           /\ r \in Seq(Writes)
           /\ {q[i] : i \in 1..n} \subseteq {q[i] : i \in DOMAIN q}
           /\ {q[i] : i \in DOMAIN q} = {q[i] : i \in 1..n} \cup {r[i] : i \in DOMAIN r}
           /\ {q[i] : i \in DOMAIN q} \subseteq Writes
<1> DEFINE r == SubSeq(q, n + 1, Len(q))
<1>1. Len(q) \in Nat /\ n \in Nat /\ n <= Len(q) /\ DOMAIN q = 1..Len(q)
  BY SMTT(60)
<1>2. /\ r \in Seq(Writes) /\ Len(r) = Len(q) - n /\ DOMAIN r = 1..(Len(q) - n)
      /\ \A i \in 1..(Len(q) - n) : r[i] = q[n + i]
  BY RestFacts
<1> HIDE DEF r
<1>4. ASSUME NEW j \in 1..Len(q), j \notin 1..n
      PROVE  j - n \in 1..(Len(q) - n) /\ n + (j - n) = j
  BY <1>1, <1>4, SMTT(60)
<1>5. \A i \in 1..(Len(q) - n) : n + i \in 1..Len(q)
  BY <1>1, SMTT(60)
<1>6. 1..n \subseteq 1..Len(q)
  BY <1>1, SMTT(60)
<1>7. \A j \in 1..Len(q) : q[j] \in Writes
  BY SMTT(60)
<1>8. \A j \in 1..Len(q) : j \notin 1..n => \E i \in DOMAIN r : r[i] = q[j]
  BY <1>2, <1>4
<1>9. \A i \in DOMAIN r : \E j \in DOMAIN q : r[i] = q[j]
  BY <1>1, <1>2, <1>5
<1>10. {q[i] : i \in DOMAIN q} = {q[i] : i \in 1..n} \cup {r[i] : i \in DOMAIN r}
  BY <1>1, <1>6, <1>8, <1>9, SMTT(60)
<1> QED BY <1>1, <1>2, <1>6, <1>7, <1>10 DEF r

-----------------------------------------------------------------------------
(* What each action does, for the proofs below *)

\* One statement keeps the stored rows and the counts of their type.
LEMMA ApplyType ==
    ASSUME TypeOK, NEW rows \in SUBSET Writes, Apply(rows)
    PROVE  stored' \in [Keys -> Writes \cup {None}] /\ applied' \in [Writes -> Nat]
<1>1. \A w \in Writes : applied[w] \in Nat
  BY DEF TypeOK
<1>2. applied' \in [Writes -> Nat]
  BY <1>1, SMTT(60) DEF Apply
<1>3. ASSUME NEW k \in Keys
      PROVE  (IF \E w \in rows : Key[w] = k /\ table # "Event" /\ Overwrites(w)
              THEN CHOOSE w \in rows : Key[w] = k /\ Overwrites(w)
              ELSE stored[k]) \in Writes \cup {None}
  BY DEF TypeOK
<1> QED BY <1>2, <1>3 DEF Apply

\* The flush observer keeps the counter a natural number.
LEMMA ObserveType == TypeOK /\ Observe => dirty' \in Nat
<1> SUFFICES ASSUME TypeOK, Observe PROVE dirty' \in Nat
  OBVIOUS
<1>1. IsFiniteSet(batch)
  BY BatchAssumption, FS_Subset DEF TypeOK
<1>2. Cardinality(batch) \in Nat /\ dirty \in Nat
  BY <1>1, FS_CardinalityType DEF TypeOK
<1> QED BY <1>2, SMTT(60) DEF Observe
-----------------------------------------------------------------------------
(* Type correctness *)

LEMMA TypeInit == Init => TypeOK
<1> SUFFICES ASSUME Init PROVE TypeOK
  OBVIOUS
<1>1. call \in [Writes -> Calls] /\ queue \in Seq(Writes) /\ log \in Seq(Writes)
  BY SMTT(60) DEF Init, Calls
<1>2. stored \in [Keys -> Writes \cup {None}] /\ applied \in [Writes -> Nat]
  BY DEF Init
<1> QED BY <1>1, <1>2 DEF Init, TypeOK, Calls

\* Another attempt, or the end of the batch.
LEMMA RetryType ==
    ASSUME TypeOK, RetryOrGiveUp
    PROVE  /\ attempt' \in Nat /\ batch' \subseteq Writes
           /\ fpc' \in {fpc, "end"} /\ dirty' \in Nat
           /\ failed' \subseteq Writes /\ dlq' \subseteq failed'
<1>1. CASE attempt + 1 >= MaxRetry
  <2>1. /\ attempt' = attempt + 1 /\ batch' = {} /\ fpc' = "end" /\ Observe
        /\ failed' = failed \cup batch /\ dlq' \in {dlq \cup batch, dlq}
    BY <1>1 DEF RetryOrGiveUp
  <2> QED BY <2>1, ObserveType, SMTT(60) DEF TypeOK
<1>2. CASE ~(attempt + 1 >= MaxRetry)
  <2>1. attempt' = attempt + 1 /\ UNCHANGED <<failed, dlq, dirty, batch, fpc>>
    BY <1>2 DEF RetryOrGiveUp
  <2> QED BY <2>1, SMTT(60) DEF TypeOK
<1> QED BY <1>1, <1>2

\* What the flusher takes from the queue.
LEMMA DrainFacts ==
    ASSUME TypeOK, Drain
    PROVE  /\ queue' \in Seq(Writes) /\ batch' \subseteq Writes
           /\ InQueue' \subseteq InQueue
           /\ table = "Event" => InQueue = batch' \cup InQueue'
<1> DEFINE n == IF Len(queue) <= size THEN Len(queue) ELSE size
<1>1. queue \in Seq(Writes) /\ Len(queue) \in Nat /\ size \in Nat
  BY BatchAssumption, SMTT(60) DEF TypeOK
<1>2. n \in 0..Len(queue)
  BY <1>1, SMTT(60)
<1>3. batch' = Coalesce(n) /\ queue' = SubSeq(queue, n + 1, Len(queue))
  BY DEF Drain
<1> HIDE DEF n
<1>4. Coalesce(n) \subseteq {queue[i] : i \in 1..n}
      /\ (table = "Event" => Coalesce(n) = {queue[i] : i \in 1..n})
  BY DEF Coalesce, Take
<1>5. /\ queue' \in Seq(Writes)
      /\ {queue[i] : i \in 1..n} \subseteq InQueue
      /\ InQueue = {queue[i] : i \in 1..n} \cup {queue'[i] : i \in DOMAIN queue'}
      /\ InQueue \subseteq Writes
  <2> DEFINE r == SubSeq(queue, n + 1, Len(queue))
  <2>1. /\ r \in Seq(Writes)
        /\ {queue[i] : i \in 1..n} \subseteq {queue[i] : i \in DOMAIN queue}
        /\ {queue[i] : i \in DOMAIN queue} = {queue[i] : i \in 1..n} \cup {r[i] : i \in DOMAIN r}
        /\ {queue[i] : i \in DOMAIN queue} \subseteq Writes
    BY <1>1, <1>2, SplitFacts
  <2>2. queue' = r
    BY <1>3
  <2> HIDE DEF r
  <2> QED BY <2>1, <2>2 DEF InQueue
<1>6. InQueue' = {queue'[i] : i \in DOMAIN queue'}
  BY DEF InQueue
<1> QED BY <1>3, <1>4, <1>5, <1>6

\* The same by position.
LEMMA DrainParts ==
    ASSUME TypeOK, Drain
    PROVE  \E n \in 0..Len(queue) :
             /\ batch' = Coalesce(n) /\ fpc' = (IF n = 0 THEN "end" ELSE "send")
             /\ Len(queue') = Len(queue) - n
             /\ \A i \in 1..Len(queue') : queue'[i] = queue[n + i]
<1> DEFINE n == IF Len(queue) <= size THEN Len(queue) ELSE size
<1>1. Len(queue) \in Nat /\ size \in Nat /\ queue \in Seq(Writes)
  BY BatchAssumption, SMTT(60) DEF TypeOK
<1>2. n \in 0..Len(queue) /\ n \in Nat
  BY <1>1, SMTT(60)
<1>3. /\ batch' = Coalesce(n) /\ queue' = SubSeq(queue, n + 1, Len(queue))
      /\ fpc' = IF n = 0 THEN "end" ELSE "send"
  BY DEF Drain
<1> HIDE DEF n
<1>4. Len(queue') = Len(queue) - n /\ \A i \in 1..Len(queue') : queue'[i] = queue[n + i]
  BY <1>1, <1>2, <1>3, RestFacts
<1> QED BY <1>2, <1>3, <1>4

\* What a call adds to the queue.
LEMMA EnqueueFacts ==
    ASSUME TypeOK, NEW w \in Writes, Enqueue(w)
    PROVE  Enqueued' = Enqueued \cup {w} /\ InQueue' = InQueue \cup {w}
<1>1. queue \in Seq(Writes) /\ log \in Seq(Writes)
  BY DEF TypeOK
<1> DEFINE E(q) == {q[i] : i \in DOMAIN q}
<1>2. \A q \in Seq(Writes) : E(Append(q, w)) = E(q) \cup {w}
  BY AppendFacts
<1>3. queue' = Append(queue, w) /\ log' = Append(log, w)
  BY DEF Enqueue
<1>4. InQueue = E(queue) /\ InQueue' = E(queue') /\ Enqueued = E(log) /\ Enqueued' = E(log')
  BY DEF InQueue, Enqueued
<1> HIDE DEF E
<1> QED BY <1>1, <1>2, <1>3, <1>4

\* The kind of the table and what may go wrong stay the same.
LEMMA EnvKept == [Next]_vars => table' = table /\ faults' = faults
<1> USE DEF envVars
<1>1. ASSUME NEW w \in Writes, Caller(w) PROVE table' = table /\ faults' = faults
  BY <1>1 DEF Caller, MarkDirty, Enqueue, FlushNow
<1>2. Flusher => table' = table /\ faults' = faults
  BY DEF Flusher, Drain, SendOk, SendRefused, SendBroken, EndBatch, Exit
<1>3. ASSUME NEW o \in orphans, Orphan(o) PROVE table' = table /\ faults' = faults
  BY <1>3 DEF Orphan, OrphanRuns, OrphanDies
<1>4. Rebalance \/ Stop \/ Kill => table' = table /\ faults' = faults
  BY DEF Rebalance, Stop, Kill
<1> QED BY <1>1, <1>2, <1>3, <1>4 DEF Next, vars

LEMMA TypeStep == TypeOK /\ [Next]_vars => TypeOK'
<1> SUFFICES ASSUME TypeOK, [Next]_vars PROVE TypeOK'
  OBVIOUS
<1>0. table' = table /\ faults' = faults
  BY EnvKept
<1> USE <1>0
<1>1. ASSUME NEW w \in Writes, MarkDirty(w) PROVE TypeOK'
  BY <1>1, SMTT(60) DEF TypeOK, MarkDirty, flushVars, pgVars
<1>2. ASSUME NEW w \in Writes, Enqueue(w) PROVE TypeOK'
  <2>1. queue' \in Seq(Writes) /\ log' \in Seq(Writes)
    BY <1>2, AppendFacts DEF TypeOK, Enqueue
  <2>2. call' \in [Writes -> Calls]
    BY <1>2 DEF TypeOK, Enqueue, Calls
  <2>3. UNCHANGED <<size, flushVars, stop, countVars, pgVars>>
    BY <1>2 DEF Enqueue
  <2> QED BY <2>1, <2>2, <2>3 DEF TypeOK, Calls, flushVars, countVars, pgVars
<1>3. ASSUME NEW w \in Writes, FlushNow(w) PROVE TypeOK'
  BY <1>3 DEF TypeOK, FlushNow, flushVars, countVars, pgVars
<1>4. CASE Drain
  <2>1. fpc' \in Places /\ attempt' = 0
    BY <1>4 DEF Drain, Places
  <2>2. UNCHANGED <<call, log, size, stop, countVars, pgVars>>
    BY <1>4 DEF Drain
  <2> QED BY <1>4, <2>1, <2>2, DrainFacts DEF TypeOK, Places, countVars, pgVars
<1>5. CASE SendOk
  <2>1. stored' \in [Keys -> Writes \cup {None}] /\ applied' \in [Writes -> Nat]
    BY <1>5, ApplyType DEF SendOk, TypeOK
  <2>2. dirty' \in Nat
    BY <1>5, ObserveType DEF SendOk
  <2> QED BY <1>5, <2>1, <2>2 DEF SendOk, TypeOK, callVars
<1>6. CASE SendRefused
  <2>1. UNCHANGED <<callVars, size, stop, flushed, pgVars>> /\ RetryOrGiveUp
    BY <1>6 DEF SendRefused
  <2> QED BY <2>1, RetryType DEF TypeOK, callVars, pgVars
<1>7. CASE SendBroken
  <2>1. UNCHANGED <<callVars, size, stop, flushed, stored, applied>> /\ RetryOrGiveUp
    BY <1>7 DEF SendBroken
  <2>2. [rows |-> batch, n |-> attempt] \in Statements
    BY DEF TypeOK, Statements
  <2>3. orphans' \subseteq Statements
    BY <1>7, <2>2 DEF SendBroken, TypeOK, Statements
  <2> QED BY <2>1, <2>3, RetryType DEF TypeOK, callVars, Statements
<1>8. CASE EndBatch
  <2>1. call' \in [Writes -> Calls]
    BY <1>8 DEF EndBatch, TypeOK, Calls
  <2> QED BY <1>8, <2>1 DEF EndBatch, TypeOK, Calls, countVars, pgVars
<1>9. CASE Exit
  BY <1>9 DEF Exit, TypeOK, callVars, countVars, pgVars
<1>10. CASE Rebalance
  BY <1>10 DEF Rebalance, TypeOK, callVars, flushVars, countVars, pgVars
<1>11. CASE Stop
  BY <1>11 DEF Stop, TypeOK, callVars, flushVars, countVars, pgVars
<1>12. ASSUME NEW o \in orphans, Orphan(o) PROVE TypeOK'
  <2>1. o.rows \in SUBSET Writes
    BY DEF TypeOK
  <2>2. stored' \in [Keys -> Writes \cup {None}] /\ applied' \in [Writes -> Nat]
    <3>1. CASE OrphanRuns(o)
      BY <2>1, <3>1, ApplyType DEF OrphanRuns
    <3>2. CASE OrphanDies(o)
      BY <3>2 DEF OrphanDies, TypeOK
    <3> QED BY <1>12, <3>1, <3>2 DEF Orphan
  <2>3. orphans' = orphans \ {o} /\ UNCHANGED <<callVars, size, flushVars, stop, countVars>>
    BY <1>12 DEF Orphan, OrphanRuns, OrphanDies
  <2> QED BY <2>2, <2>3 DEF TypeOK, callVars, flushVars, countVars
<1>13. CASE Kill
  <2>1. [rows |-> batch, n |-> attempt] \in Statements
    BY DEF TypeOK, Statements
  <2>2. orphans' \subseteq Statements
    BY <1>13, <2>1 DEF Kill, TypeOK, Statements
  <2>3. /\ UNCHANGED <<call, log, size, attempt, stop, countVars, stored, applied>>
        /\ fpc' = "dead" /\ queue' = <<>> /\ batch' = {}
    BY <1>13 DEF Kill
  <2> QED BY <2>2, <2>3, SMTT(60) DEF TypeOK, Statements, countVars
<1>14. CASE UNCHANGED vars
  BY <1>14 DEF TypeOK, vars, callVars, flushVars, countVars, pgVars
<1> QED BY <1>1, <1>2, <1>3, <1>4, <1>5, <1>6, <1>7, <1>8, <1>9, <1>10, <1>11, <1>12,
           <1>13, <1>14 DEF Next, Caller, Flusher

\* Every variable keeps its type; in particular the dirty counter never goes
\* below zero and every row in the dead-letter table was counted as failed.
THEOREM TypeCorrect == Spec => []TypeOK
BY TypeInit, TypeStep, PTL DEF Spec

-----------------------------------------------------------------------------
(* The version guard *)

LEMMA ApplyNeverDrops ==
    ASSUME TypeOK, table = "Versioned", NEW rows \in SUBSET Writes, Apply(rows),
           NEW k \in Keys, stored[k] # None
    PROVE  stored'[k] # None /\ Version[stored[k]] <= Version[stored'[k]]
<1>1. stored[k] \in Writes /\ Version[stored[k]] \in Nat
  BY BatchAssumption DEF TypeOK
<1>2. CASE \E w \in rows : Key[w] = k /\ table # "Event" /\ Overwrites(w)
  <2>1. stored'[k] = CHOOSE w \in rows : Key[w] = k /\ Overwrites(w)
    BY <1>2 DEF Apply
  <2>2. stored'[k] \in rows /\ Key[stored'[k]] = k /\ Overwrites(stored'[k])
    BY <1>2, <2>1
  <2> QED BY <2>2, BatchAssumption DEF Overwrites
<1>3. CASE ~\E w \in rows : Key[w] = k /\ table # "Event" /\ Overwrites(w)
  <2>1. stored'[k] = stored[k]
    BY <1>3 DEF Apply
  <2> QED BY <1>1, <2>1, SMTT(60)
<1> QED BY <1>2, <1>3

\* Whatever is retried, executed late by the server or left behind by a crash,
\* a table with a version column never goes back to a lower version.
THEOREM VersionsOnlyGrow == Spec => VersionNeverDrops
<1> DEFINE Keeps == table = "Versioned" => \A k \in Keys :
        stored[k] # None => stored'[k] # None /\ Version[stored[k]] <= Version[stored'[k]]
<1>1. TypeOK /\ [Next]_vars => [Keeps]_vars
  <2> SUFFICES ASSUME TypeOK, Next PROVE Keeps
    BY DEF VersionNeverDrops
  <2>1. CASE SendOk
    BY <2>1, ApplyNeverDrops DEF SendOk, TypeOK
  <2>2. ASSUME NEW o \in orphans, OrphanRuns(o) PROVE Keeps
    <3>1. o.rows \in SUBSET Writes
      BY DEF TypeOK
    <3> QED BY <2>2, <3>1, ApplyNeverDrops DEF OrphanRuns
  <2>3. CASE UNCHANGED stored
    BY <2>3, BatchAssumption, SMTT(60) DEF TypeOK
  <2>4. ASSUME NEW w \in Writes, Caller(w) PROVE UNCHANGED stored
    BY <2>4 DEF Caller, MarkDirty, Enqueue, FlushNow, pgVars
  <2>5. CASE Drain \/ SendRefused \/ EndBatch \/ Exit \/ Rebalance \/ Stop
    BY <2>3, <2>5 DEF Drain, SendRefused, EndBatch, Exit, Rebalance, Stop, pgVars
  <2>6. CASE SendBroken \/ Kill \/ \E o \in orphans : OrphanDies(o)
    BY <2>3, <2>6 DEF SendBroken, Kill, OrphanDies
  <2> QED BY <2>1, <2>2, <2>3, <2>4, <2>5, <2>6 DEF Next, Flusher, Orphan
<1> QED BY <1>1, TypeInit, TypeStep, PTL DEF Spec, VersionNeverDrops

-----------------------------------------------------------------------------
(* No row of an Event table is dropped *)

\* The flusher holds rows only while it sends them.
BatchIdle == fpc # "send" => batch = {}
KeptInv == EveryRowKept /\ BatchIdle

LEMMA IdleStep == TypeOK /\ BatchIdle /\ [Next]_vars => BatchIdle'
<1> SUFFICES ASSUME TypeOK, BatchIdle, [Next]_vars PROVE BatchIdle'
  OBVIOUS
<1>1. CASE UNCHANGED <<fpc, batch>>
  BY <1>1 DEF BatchIdle
<1>2. CASE Drain
  <2>1. PICK n : batch' = Coalesce(n) /\ fpc' = (IF n = 0 THEN "end" ELSE "send")
    BY <1>2 DEF Drain
  <2>2. n = 0 => Coalesce(n) = {}
    BY SMTT(60) DEF Coalesce, Take
  <2> QED BY <2>1, <2>2 DEF BatchIdle
<1>3. CASE SendOk \/ Kill
  BY <1>3 DEF SendOk, Kill, BatchIdle
<1>4. CASE SendRefused \/ SendBroken
  <2>1. RetryOrGiveUp
    BY <1>4 DEF SendRefused, SendBroken
  <2>2. (batch' = {} /\ fpc' = "end") \/ UNCHANGED <<batch, fpc>>
    BY <2>1 DEF RetryOrGiveUp
  <2> QED BY <1>1, <2>2 DEF BatchIdle
<1>5. CASE EndBatch \/ Exit
  BY <1>5 DEF EndBatch, Exit, BatchIdle
<1>6. ASSUME NEW w \in Writes, Caller(w) PROVE UNCHANGED <<fpc, batch>>
  BY <1>6 DEF Caller, MarkDirty, Enqueue, FlushNow, flushVars
<1>7. CASE Rebalance \/ Stop \/ \E o \in orphans : Orphan(o)
  BY <1>1, <1>7 DEF Rebalance, Stop, Orphan, OrphanRuns, OrphanDies, flushVars
<1>8. CASE UNCHANGED vars
  BY <1>1, <1>8 DEF vars, flushVars
<1> QED BY <1>1, <1>2, <1>3, <1>4, <1>5, <1>6, <1>7, <1>8 DEF Next, Flusher

LEMMA KeptStep == TypeOK /\ KeptInv /\ [Next]_vars => KeptInv'
<1> SUFFICES ASSUME TypeOK, KeptInv, [Next]_vars, table = "Event", Alive'
             PROVE  Enqueued' \subseteq (InQueue \cup batch \cup flushed \cup failed)'
  BY IdleStep, EnvKept DEF KeptInv, EveryRowKept
<1>0. Alive => Enqueued \subseteq InQueue \cup batch \cup flushed \cup failed
  BY DEF KeptInv, EveryRowKept
<1>1. CASE \E w \in Writes : Enqueue(w)
  <2>1. PICK w \in Writes : Enqueue(w)
    BY <1>1
  <2>2. UNCHANGED <<batch, flushed, failed>> /\ Alive
    BY <2>1 DEF Enqueue, flushVars, countVars
  <2>3. Enqueued' = Enqueued \cup {w} /\ InQueue' = InQueue \cup {w}
    BY <2>1, EnqueueFacts
  <2> QED BY <1>0, <2>2, <2>3
<1>2. CASE Drain
  <2>1. InQueue = batch' \cup InQueue'
    BY <1>2, DrainFacts
  <2>2. Enqueued' = Enqueued /\ UNCHANGED <<flushed, failed>> /\ fpc = "wait"
    BY <1>2 DEF Drain, Enqueued, countVars
  <2>3. batch = {} /\ Alive
    BY <2>2 DEF KeptInv, BatchIdle, Alive
  <2> QED BY <1>0, <2>1, <2>2, <2>3
<1>3. CASE SendOk \/ SendRefused \/ SendBroken
  <2>1. Enqueued' = Enqueued /\ InQueue' = InQueue /\ Alive
    BY <1>3 DEF SendOk, SendRefused, SendBroken, Enqueued, InQueue, callVars, Alive
  <2>2. \/ flushed' = flushed \cup batch /\ failed' = failed
        \/ failed' = failed \cup batch /\ flushed' = flushed
        \/ UNCHANGED <<batch, flushed, failed>>
    <3>1. CASE SendOk
      BY <3>1 DEF SendOk
    <3>2. CASE SendRefused \/ SendBroken
      <4>1. RetryOrGiveUp /\ flushed' = flushed
        BY <3>2 DEF SendRefused, SendBroken
      <4> QED BY <4>1 DEF RetryOrGiveUp
    <3> QED BY <1>3, <3>1, <3>2
  <2> QED BY <1>0, <2>1, <2>2
<1>4. CASE /\ UNCHANGED <<queue, log, batch, flushed, failed>> /\ Alive
  BY <1>0, <1>4 DEF InQueue, Enqueued
<1>5. ASSUME NEW w \in Writes, MarkDirty(w) \/ FlushNow(w)
      PROVE  UNCHANGED <<queue, log, batch, flushed, failed>> /\ Alive
  BY <1>5 DEF MarkDirty, FlushNow, flushVars, countVars
<1>6. CASE EndBatch \/ Exit
  BY <1>4, <1>6 DEF EndBatch, Exit, callVars, countVars, Alive
<1>7. CASE Rebalance \/ Stop
  BY <1>4, <1>7 DEF Rebalance, Stop, callVars, flushVars, countVars
<1>8. ASSUME NEW o \in orphans, Orphan(o)
      PROVE  UNCHANGED <<queue, log, batch, flushed, failed, fpc>>
  BY <1>8 DEF Orphan, OrphanRuns, OrphanDies, callVars, flushVars, countVars
<1>9. CASE Kill
  BY <1>9 DEF Kill, Alive
<1>10. CASE UNCHANGED vars
  BY <1>4, <1>10 DEF vars, callVars, flushVars, countVars, Alive
<1>11. CASE \E o \in orphans : Orphan(o)
  BY <1>4, <1>8, <1>11 DEF Alive
<1> QED BY <1>1, <1>2, <1>3, <1>4, <1>5, <1>6, <1>7, <1>9, <1>10, <1>11
        DEF Next, Flusher, Caller

-----------------------------------------------------------------------------
(* write_sync() leaves nothing in the queue *)

\* Nobody is inside a call once the destructor has set stop.
StopQuiet == stop => \A w \in Writes : call[w] \in {"no", "done"}
SyncInv == SyncLeavesQueue /\ StopQuiet

LEMMA SyncStep == TypeOK /\ SyncInv /\ [Next]_vars => SyncInv'
<1> SUFFICES ASSUME TypeOK, SyncInv, [Next]_vars PROVE SyncInv'
  OBVIOUS
<1>0. /\ \A w \in SyncWrites : w \in Writes /\ (call[w] = "done" => w \notin InQueue)
      /\ stop => \A w \in Writes : call[w] \in {"no", "done"}
      /\ call \in [Writes -> Calls]
  BY BatchAssumption DEF SyncInv, SyncLeavesQueue, StopQuiet, TypeOK, Calls
<1>a. ASSUME InQueue' \subseteq InQueue, UNCHANGED <<call, stop>> PROVE SyncInv'
  BY <1>0, <1>a DEF SyncInv, SyncLeavesQueue, StopQuiet
<1>1. ASSUME NEW w \in Writes, MarkDirty(w) PROVE SyncInv'
  <2>1. InQueue' = InQueue /\ ~stop /\ ~stop' /\ call' = [call EXCEPT ![w] = "dirty"]
    BY <1>1 DEF MarkDirty, InQueue
  <2> QED BY <1>0, <2>1 DEF SyncInv, SyncLeavesQueue, StopQuiet
<1>2. ASSUME NEW w \in Writes, Enqueue(w) PROVE SyncInv'
  <2>1. queue' = Append(queue, w) /\ stop' = stop /\ call[w] = "dirty"
        /\ call' = [call EXCEPT ![w] = IF w \in SyncWrites THEN "flush" ELSE "done"]
    BY <1>2 DEF Enqueue
  <2>2. InQueue' = InQueue \cup {w}
    BY <1>2, EnqueueFacts
  <2> QED BY <1>0, <2>1, <2>2 DEF SyncInv, SyncLeavesQueue, StopQuiet
<1>3. ASSUME NEW w \in Writes, FlushNow(w) PROVE SyncInv'
  <2>1. call[w] = "flush" /\ InQueue' = InQueue /\ stop' = stop
        /\ call' = [call EXCEPT ![w] = IF queue = <<>> \/ stop THEN "done" ELSE "drain"]
    BY <1>3 DEF FlushNow, InQueue
  <2>2. ~stop
    BY <1>0, <2>1
  <2>3. queue = <<>> => InQueue = {}
    BY SMTT(60) DEF InQueue
  <2> QED BY <1>0, <2>1, <2>2, <2>3 DEF SyncInv, SyncLeavesQueue, StopQuiet
<1>4. CASE Drain
  BY <1>a, <1>4, DrainFacts DEF Drain
<1>5. CASE SendOk \/ SendRefused \/ SendBroken \/ Exit \/ Rebalance
  BY <1>a, <1>5 DEF SendOk, SendRefused, SendBroken, Exit, Rebalance, callVars, InQueue
<1>6. CASE EndBatch
  <2>1. /\ UNCHANGED <<queue, stop>>
        /\ call' = [w \in Writes |->
             IF queue = <<>> /\ call[w] = "drain" THEN "flush" ELSE call[w]]
    BY <1>6 DEF EndBatch
  <2> QED BY <1>0, <2>1 DEF SyncInv, SyncLeavesQueue, StopQuiet, InQueue
<1>7. CASE Stop
  <2>1. UNCHANGED <<queue, call>> /\ \A w \in Writes : call[w] \in {"no", "done"}
    BY <1>7 DEF Stop, callVars
  <2> QED BY <1>0, <2>1 DEF SyncInv, SyncLeavesQueue, StopQuiet, InQueue
<1>8. CASE \E o \in orphans : Orphan(o)
  BY <1>a, <1>8 DEF Orphan, OrphanRuns, OrphanDies, callVars, InQueue
<1>9. CASE Kill
  BY <1>a, <1>9, SMTT(60) DEF Kill, InQueue
<1>10. CASE UNCHANGED vars
  BY <1>a, <1>10 DEF vars, callVars, InQueue
<1> QED BY <1>1, <1>2, <1>3, <1>4, <1>5, <1>6, <1>7, <1>8, <1>9, <1>10
        DEF Next, Flusher, Caller

\* Once write_sync() has returned, its row has been taken from the queue.
THEOREM SyncDrains == Spec => []SyncLeavesQueue
<1>1. Init => SyncInv
  BY BatchAssumption DEF Init, SyncInv, SyncLeavesQueue, StopQuiet
<1>2. SyncInv => SyncLeavesQueue
  BY DEF SyncInv
<1> QED BY <1>1, <1>2, TypeInit, TypeStep, SyncStep, PTL DEF Spec
-----------------------------------------------------------------------------
(* Each row is in one place *)

\* The rows in the queue are different ones, none is in the batch too, and none
\* comes from a call that has not enqueued yet.
QueueInv ==
    /\ \A i, j \in DOMAIN queue : queue[i] = queue[j] => i = j
    /\ batch \cap InQueue = {}
    /\ \A w \in InQueue \cup batch : call[w] \notin {"no", "dirty"}

LEMMA QueueStep == TypeOK /\ BatchIdle /\ QueueInv /\ [Next]_vars => QueueInv'
<1> SUFFICES ASSUME TypeOK, BatchIdle, QueueInv, [Next]_vars PROVE QueueInv'
  OBVIOUS
<1>0. /\ queue \in Seq(Writes) /\ Len(queue) \in Nat /\ DOMAIN queue = 1..Len(queue)
      /\ batch \subseteq Writes /\ InQueue \subseteq Writes /\ call \in [Writes -> Calls]
  BY SMTT(60) DEF TypeOK, InQueue, Calls
<1>a. ASSUME queue' = queue, batch' \subseteq batch,
             \A w \in Writes : call[w] \notin {"no", "dirty"} => call'[w] \notin {"no", "dirty"}
      PROVE  QueueInv'
  BY <1>0, <1>a, SMTT(60) DEF QueueInv, InQueue
<1>1. ASSUME NEW w \in Writes, MarkDirty(w) \/ FlushNow(w) PROVE QueueInv'
  <2>1. UNCHANGED <<queue, batch>>
    BY <1>1 DEF MarkDirty, FlushNow, flushVars
  <2>2. \A v \in Writes : call[v] \notin {"no", "dirty"} => call'[v] \notin {"no", "dirty"}
    BY <1>0, <1>1 DEF MarkDirty, FlushNow
  <2> QED BY <1>a, <2>1, <2>2
<1>2. ASSUME NEW w \in Writes, Enqueue(w) PROVE QueueInv'
  <2>1. /\ queue' = Append(queue, w) /\ batch' = batch /\ call[w] = "dirty"
        /\ call' = [call EXCEPT ![w] = IF w \in SyncWrites THEN "flush" ELSE "done"]
    BY <1>2 DEF Enqueue, flushVars
  <2>2. InQueue' = InQueue \cup {w} /\ w \notin InQueue \cup batch
    BY <1>2, <2>1, EnqueueFacts DEF QueueInv
  <2>3. \A v \in InQueue' \cup batch' : call'[v] \notin {"no", "dirty"}
    BY <1>0, <2>1, <2>2, SMTT(60) DEF QueueInv
  <2>4. /\ DOMAIN queue' = 1..(Len(queue) + 1) /\ queue'[Len(queue) + 1] = w
        /\ \A i \in 1..Len(queue) : queue'[i] = queue[i]
    BY <1>0, <2>1, SMTT(60)
  <2>5. \A i \in 1..Len(queue) : queue'[i] # w
    BY <1>0, <2>2, <2>4 DEF InQueue
  <2>6. \A i, j \in 1..Len(queue) : queue[i] = queue[j] => i = j
    BY <1>0 DEF QueueInv
  <2>7. \A i, j \in DOMAIN queue' : queue'[i] = queue'[j] => i = j
    BY ONLY <1>0, <2>4, <2>5, <2>6, SMTT(60), ZenonT(30)
  <2> QED BY <2>1, <2>2, <2>3, <2>7 DEF QueueInv
<1>3. CASE Drain
  <2>1. PICK n \in 0..Len(queue) :
             /\ batch' = Coalesce(n) /\ Len(queue') = Len(queue) - n
             /\ \A i \in 1..Len(queue') : queue'[i] = queue[n + i]
    BY <1>3, DrainParts
  <2>2. InQueue' \subseteq InQueue /\ batch' \subseteq {queue[i] : i \in 1..n} /\ call' = call
    BY <1>3, <2>1, DrainFacts DEF Drain, Coalesce, Take
  <2>3. queue' \in Seq(Writes) /\ DOMAIN queue' = 1..Len(queue')
    BY <1>3, DrainFacts, SMTT(60)
  <2>4. \A i, j \in 1..Len(queue) : queue[i] = queue[j] => i = j
    BY <1>0 DEF QueueInv
  <2>5. \A i \in 1..Len(queue') : n + i \in 1..Len(queue) /\ n + i \notin 1..n
    BY <1>0, <2>1, SMTT(60)
  <2>6. \A i, j \in 1..Len(queue') : queue'[i] = queue'[j] => n + i = n + j
    BY <2>1, <2>4, <2>5
  <2>7. \A i, j \in 1..Len(queue') : queue'[i] = queue'[j] => i = j
    BY <2>1, <2>3, <2>6, SMTT(60)
  <2>8. \A i \in 1..Len(queue'), j \in 1..n : queue'[i] # queue[j]
    <3>1. 1..n \subseteq 1..Len(queue)
      BY <1>0, <2>1, SMTT(60)
    <3> QED BY <2>1, <2>4, <2>5, <3>1
  <2>9. batch' \cap InQueue' = {}
    BY <2>2, <2>3, <2>8 DEF InQueue
  <2>10. {queue[i] : i \in 1..n} \subseteq InQueue
    BY <1>0, <2>1, SMTT(60) DEF InQueue
  <2> QED BY <2>2, <2>3, <2>7, <2>9, <2>10 DEF QueueInv
<1>4. CASE SendOk \/ SendRefused \/ SendBroken
  <2>1. UNCHANGED callVars /\ (SendOk \/ RetryOrGiveUp)
    BY <1>4 DEF SendOk, SendRefused, SendBroken
  <2>2. batch' \subseteq batch
    BY <2>1 DEF SendOk, RetryOrGiveUp
  <2> QED BY <1>a, <2>1, <2>2 DEF callVars
<1>5. CASE EndBatch
  <2>1. \A v \in Writes : call[v] \notin {"no", "dirty"} => call'[v] \notin {"no", "dirty"}
    BY <1>0, <1>5 DEF EndBatch
  <2> QED BY <1>a, <1>5, <2>1 DEF EndBatch
<1>6. CASE Exit \/ Rebalance \/ Stop \/ UNCHANGED vars
  BY <1>a, <1>6 DEF Exit, Rebalance, Stop, vars, callVars, flushVars
<1>7. CASE \E o \in orphans : Orphan(o)
  BY <1>a, <1>7 DEF Orphan, OrphanRuns, OrphanDies, callVars, flushVars
<1>8. CASE Kill
  <2>1. queue' = <<>> /\ batch' = {}
    BY <1>8 DEF Kill
  <2>2. DOMAIN queue' = {}
    BY <2>1, SMTT(60)
  <2>3. InQueue' = {}
    BY <2>2 DEF InQueue
  <2> QED BY <2>1, <2>2, <2>3 DEF QueueInv
<1> QED BY <1>1, <1>2, <1>3, <1>4, <1>5, <1>6, <1>7, <1>8 DEF Next, Flusher, Caller
-----------------------------------------------------------------------------
(* The dirty counter and the rows on their way *)

LEMMA WayFinite == TypeOK => IsFiniteSet(OnTheWay) /\ Cardinality(OnTheWay) \in Nat
<1> SUFFICES ASSUME TypeOK PROVE IsFiniteSet(OnTheWay) /\ Cardinality(OnTheWay) \in Nat
  OBVIOUS
<1>1. OnTheWay \subseteq Writes
  BY SMTT(60) DEF TypeOK, OnTheWay, InQueue
<1> QED BY <1>1, BatchAssumption, FS_Subset, FS_CardinalityType

DirtyInv ==
    Alive => /\ dirty >= Cardinality(OnTheWay)
             /\ table = "Event" => dirty = Cardinality(OnTheWay)

\* The observer's mark_clean() takes exactly the rows of the batch away.
LEMMA ObserveExact ==
    ASSUME TypeOK, QueueInv, DirtyInv, Alive, Observe, batch' = {}, UNCHANGED <<call, queue, table>>
    PROVE  DirtyInv'
<1>1. OnTheWay' = OnTheWay \ batch /\ batch \subseteq OnTheWay
  BY DEF OnTheWay, InQueue, QueueInv
<1>2. IsFiniteSet(OnTheWay) /\ Cardinality(OnTheWay) \in Nat
  BY WayFinite
<1>3. IsFiniteSet(batch) /\ Cardinality(batch) \in Nat /\ Cardinality(batch) <= Cardinality(OnTheWay)
  BY <1>1, <1>2, FS_Subset, FS_CardinalityType
<1>4. Cardinality(OnTheWay \ batch) = Cardinality(OnTheWay) - Cardinality(batch)
  <2>1. OnTheWay \cap batch = batch
    BY <1>1
  <2> QED BY <1>2, <1>3, <2>1, FS_Difference, ZenonT(30)
<1>5. Cardinality(OnTheWay') = Cardinality(OnTheWay) - Cardinality(batch)
  BY <1>1, <1>4
<1>6. dirty \in Nat /\ dirty >= Cardinality(OnTheWay)
  BY DEF TypeOK, DirtyInv
<1>7. dirty' = dirty - Cardinality(batch)
  BY <1>2, <1>3, <1>6, SMTT(60) DEF Observe
<1>8. dirty' >= Cardinality(OnTheWay')
  BY <1>2, <1>3, <1>5, <1>6, <1>7, SMTT(60)
<1>9. table = "Event" => dirty' = Cardinality(OnTheWay')
  BY <1>5, <1>7 DEF DirtyInv
<1> QED BY <1>8, <1>9 DEF DirtyInv

LEMMA DirtyStep ==
    TypeOK /\ BatchIdle /\ QueueInv /\ DirtyInv /\ [Next]_vars => DirtyInv'
<1> SUFFICES ASSUME TypeOK, BatchIdle, QueueInv, DirtyInv, [Next]_vars, Alive' PROVE DirtyInv'
  BY DEF DirtyInv
<1>0. table' = table
  BY EnvKept
<1>a. ASSUME Alive, OnTheWay' = OnTheWay, dirty' = dirty PROVE DirtyInv'
  BY <1>0, <1>a DEF DirtyInv
<1>b. call \in [Writes -> Calls] /\ dirty \in Nat
  BY DEF TypeOK, Calls
<1>1. ASSUME NEW w \in Writes, MarkDirty(w) PROVE DirtyInv'
  <2>1. /\ Alive /\ call[w] = "no" /\ dirty' = dirty + 1 /\ UNCHANGED <<queue, batch>>
        /\ call' = [call EXCEPT ![w] = "dirty"]
    BY <1>1 DEF MarkDirty, flushVars
  <2>2. w \notin OnTheWay /\ OnTheWay' = OnTheWay \cup {w}
    BY <1>b, <2>1 DEF OnTheWay, InQueue, QueueInv
  <2>3. Cardinality(OnTheWay \cup {w}) = Cardinality(OnTheWay) + 1
    BY <2>2, WayFinite, FS_AddElement
  <2>4. Cardinality(OnTheWay') = Cardinality(OnTheWay) + 1
    BY <2>2, <2>3
  <2> QED BY <1>0, <1>b, <2>1, <2>4, WayFinite, SMTT(60) DEF DirtyInv
<1>2. ASSUME NEW w \in Writes, Enqueue(w) PROVE DirtyInv'
  <2>1. /\ Alive /\ call[w] = "dirty" /\ UNCHANGED <<dirty, batch>>
        /\ call' = [call EXCEPT ![w] = IF w \in SyncWrites THEN "flush" ELSE "done"]
    BY <1>2 DEF Enqueue, flushVars, countVars
  <2>2. InQueue' = InQueue \cup {w}
    BY <1>2, EnqueueFacts
  <2>3. {v \in Writes : call'[v] = "dirty"} = {v \in Writes : call[v] = "dirty"} \ {w}
    BY <1>b, <2>1
  <2>4. w \in {v \in Writes : call[v] = "dirty"}
    BY <2>1
  <2>5. OnTheWay' = OnTheWay
    BY <2>1, <2>2, <2>3, <2>4 DEF OnTheWay
  <2> QED BY <1>a, <2>1, <2>5
<1>3. ASSUME NEW w \in Writes, FlushNow(w) PROVE DirtyInv'
  <2>1. Alive /\ UNCHANGED <<dirty, batch, queue>>
    BY <1>3 DEF FlushNow, flushVars, countVars
  <2>2. {v \in Writes : call'[v] = "dirty"} = {v \in Writes : call[v] = "dirty"}
    BY <1>3, <1>b DEF FlushNow
  <2> QED BY <1>a, <2>1, <2>2 DEF OnTheWay, InQueue
<1>4. CASE Drain
  <2>1. Alive /\ batch = {} /\ UNCHANGED <<dirty, call>>
    BY <1>4 DEF Drain, BatchIdle, Alive, countVars
  <2>2. InQueue' \subseteq InQueue /\ batch' \subseteq InQueue
    <3>1. PICK n \in 0..Len(queue) : batch' = Coalesce(n)
      BY <1>4, DrainParts
    <3>2. DOMAIN queue = 1..Len(queue) /\ 1..n \subseteq 1..Len(queue)
      BY SMTT(60) DEF TypeOK
    <3>3. Coalesce(n) \subseteq {queue[i] : i \in 1..n}
      BY DEF Coalesce, Take
    <3> QED BY <1>4, <3>1, <3>2, <3>3, DrainFacts DEF InQueue
  <2>3. OnTheWay' \subseteq OnTheWay
    BY <2>1, <2>2 DEF OnTheWay
  <2>4. table = "Event" => OnTheWay' = OnTheWay
    BY <1>4, <2>1, DrainFacts DEF OnTheWay
  <2>5. Cardinality(OnTheWay') <= Cardinality(OnTheWay) /\ Cardinality(OnTheWay') \in Nat
    BY <2>3, WayFinite, FS_Subset, FS_CardinalityType
  <2>6. dirty' >= Cardinality(OnTheWay')
    BY <1>b, <2>1, <2>5, WayFinite, SMTT(60) DEF DirtyInv
  <2>7. table = "Event" => dirty' = Cardinality(OnTheWay')
    BY <2>1, <2>4 DEF DirtyInv
  <2> QED BY <1>0, <2>6, <2>7 DEF DirtyInv
<1>5. CASE SendOk \/ SendRefused \/ SendBroken
  <2>1. Alive /\ UNCHANGED <<call, queue>>
    BY <1>5 DEF SendOk, SendRefused, SendBroken, callVars, Alive
  <2>2. SendOk \/ RetryOrGiveUp
    BY <1>5 DEF SendRefused, SendBroken
  <2>3. (Observe /\ batch' = {}) \/ UNCHANGED <<dirty, batch>>
    BY <2>2 DEF SendOk, RetryOrGiveUp
  <2>4. CASE Observe /\ batch' = {}
    BY <1>0, <2>1, <2>4, ObserveExact
  <2>5. CASE UNCHANGED <<dirty, batch>>
    BY <1>a, <2>1, <2>5 DEF OnTheWay, InQueue
  <2> QED BY <2>3, <2>4, <2>5
<1>6. CASE EndBatch
  <2>1. Alive /\ UNCHANGED <<dirty, batch, queue>>
    BY <1>6 DEF EndBatch, countVars, Alive
  <2>2. {v \in Writes : call'[v] = "dirty"} = {v \in Writes : call[v] = "dirty"}
    BY <1>6, <1>b DEF EndBatch
  <2> QED BY <1>a, <2>1, <2>2 DEF OnTheWay, InQueue
<1>7. CASE Exit \/ Rebalance \/ Stop \/ UNCHANGED vars
  <2>1. UNCHANGED <<dirty, batch, queue, call>> /\ Alive
    BY <1>7 DEF Exit, Rebalance, Stop, vars, callVars, flushVars, countVars, Alive
  <2> QED BY <1>a, <2>1 DEF OnTheWay, InQueue
<1>8. CASE \E o \in orphans : Orphan(o)
  <2>1. UNCHANGED <<dirty, batch, queue, call>> /\ Alive
    BY <1>8 DEF Orphan, OrphanRuns, OrphanDies, callVars, flushVars, countVars, Alive
  <2> QED BY <1>a, <2>1 DEF OnTheWay, InQueue
<1>9. CASE Kill
  BY <1>9 DEF Kill, Alive
<1> QED BY <1>1, <1>2, <1>3, <1>4, <1>5, <1>6, <1>7, <1>8, <1>9 DEF Next, Flusher, Caller

\* The flusher ends only when told to, with an empty queue, and then nobody is
\* inside a call that could fill it.
ExitInv == fpc = "exit" => stop /\ queue = <<>>

LEMMA ExitStep == TypeOK /\ SyncInv /\ ExitInv /\ [Next]_vars => ExitInv'
<1> SUFFICES ASSUME TypeOK, SyncInv, ExitInv, [Next]_vars, fpc' = "exit" PROVE stop' /\ queue' = <<>>
  BY DEF ExitInv
<1>1. ASSUME NEW w \in Writes, Caller(w) PROVE stop' /\ queue' = <<>>
  <2>1. stop' = stop /\ fpc' = fpc /\ (Enqueue(w) \/ queue' = queue)
    BY <1>1 DEF Caller, MarkDirty, Enqueue, FlushNow, flushVars
  <2>2. stop => ~Enqueue(w)
    BY DEF Enqueue, SyncInv, StopQuiet
  <2> QED BY <2>1, <2>2 DEF ExitInv
<1>2. CASE Flusher
  <2>1. ASSUME RetryOrGiveUp, fpc = "send" PROVE FALSE
    BY <2>1 DEF RetryOrGiveUp
  <2> QED BY <1>2, <2>1, SMTT(60) DEF Flusher, Drain, SendOk, SendRefused, SendBroken, EndBatch, Exit, callVars
<1>3. CASE Rebalance \/ Stop \/ Kill \/ UNCHANGED vars
  BY <1>3 DEF Rebalance, Stop, Kill, vars, callVars, flushVars, ExitInv
<1>4. CASE \E o \in orphans : Orphan(o)
  BY <1>4, SMTT(60) DEF Orphan, OrphanRuns, OrphanDies, callVars, flushVars, ExitInv
<1> QED BY <1>1, <1>2, <1>3, <1>4 DEF Next

\* Whatever the batch sizes, however many attempts fail and however calls and
\* flusher interleave: the dirty counter covers the rows on their way and counts
\* those of an Event table exactly, no row of an Event table is dropped, and the
\* destructor leaves none in memory (db.cpp, flusher_loop, send_batch).
THEOREM RowsAreAccounted == Spec => []RowsAccounted
<1> DEFINE Inv == KeptInv /\ QueueInv /\ DirtyInv /\ SyncInv /\ ExitInv
<1>1. Init => Inv
  <2>1. Init => KeptInv
    BY SMTT(60) DEF Init, KeptInv, EveryRowKept, BatchIdle, Enqueued
  <2>2. Init => QueueInv /\ SyncInv /\ ExitInv
    BY BatchAssumption, SMTT(60) DEF Init, QueueInv, InQueue, SyncInv, SyncLeavesQueue, StopQuiet, ExitInv
  <2>3. Init => OnTheWay = {} /\ dirty = 0
    BY SMTT(60) DEF Init, OnTheWay, InQueue
  <2>4. Init => DirtyInv
    BY <2>3, FS_EmptySet, SMTT(60) DEF DirtyInv
  <2> QED BY <2>1, <2>2, <2>4
<1>2. TypeOK /\ Inv /\ [Next]_vars => Inv'
  BY KeptStep, QueueStep, DirtyStep, SyncStep, ExitStep DEF KeptInv
<1>3. Inv => RowsAccounted
  BY DEF KeptInv, DirtyInv, ExitInv, RowsAccounted, BatchIdle
<1> QED BY <1>1, <1>2, <1>3, TypeInit, TypeStep, PTL DEF Spec

-----------------------------------------------------------------------------
(* How often a row is executed *)

Rides(w) == {o \in orphans : w \in o.rows}

\* How often a row has been executed or may still be.
Uses == [w \in Writes |-> applied[w] + Cardinality(Rides(w))]

Limit == IF MaxRetry = 0 THEN 1 ELSE MaxRetry

Unsent == {w \in Writes : w \in InQueue \/ call[w] \in {"no", "dirty"}}

\* A row of the batch has been used at most once per attempt, one that has not
\* been taken from the queue not at all.
RetryInv ==
    /\ IsFiniteSet(orphans)
    /\ fpc = "send" => attempt < Limit
    /\ \A w \in Writes :
        /\ Uses[w] <= Limit
        /\ w \in batch => Uses[w] <= attempt
        /\ w \in Unsent => Uses[w] = 0

LEMMA LimitType == Limit \in Nat /\ Limit > 0
BY BatchAssumption, SMTT(60) DEF Limit

LEMMA RidesType ==
    ASSUME TypeOK, IsFiniteSet(orphans), NEW w \in Writes
    PROVE  /\ IsFiniteSet(Rides(w)) /\ Cardinality(Rides(w)) \in Nat
           /\ applied[w] \in Nat /\ Uses[w] \in Nat
<1>1. IsFiniteSet(Rides(w)) /\ Cardinality(Rides(w)) \in Nat
  BY FS_Subset, FS_CardinalityType DEF Rides
<1>2. applied[w] \in Nat
  BY DEF TypeOK
<1> QED BY <1>1, <1>2, SMTT(60) DEF Uses

\* A statement with the rows of the batch that may still run is one use of each.
LEMMA OrphanAdded ==
    ASSUME TypeOK, IsFiniteSet(orphans), UNCHANGED applied,
           orphans' = orphans \cup {[rows |-> batch, n |-> attempt]}
    PROVE  /\ IsFiniteSet(orphans')
           /\ \A w \in Writes : /\ Uses'[w] \in Nat /\ Uses'[w] <= Uses[w] + 1
                                /\ w \notin batch => Uses'[w] = Uses[w]
<1> DEFINE o == [rows |-> batch, n |-> attempt]
<1>1. IsFiniteSet(orphans')
  BY FS_AddElement
<1> SUFFICES ASSUME NEW w \in Writes
             PROVE  /\ Uses'[w] \in Nat /\ Uses'[w] <= Uses[w] + 1
                    /\ w \notin batch => Uses'[w] = Uses[w]
  BY <1>1
<1>2. IsFiniteSet(Rides(w)) /\ Cardinality(Rides(w)) \in Nat /\ applied[w] \in Nat
  BY RidesType
<1>3. CASE w \in batch
  <2>1. Rides(w)' = Rides(w) \cup {o}
    BY <1>3, SMTT(60) DEF Rides
  <2>2. Cardinality(Rides(w) \cup {o}) \in {Cardinality(Rides(w)), Cardinality(Rides(w)) + 1}
    BY <1>2, FS_AddElement
  <2>3. Cardinality(Rides(w)') \in {Cardinality(Rides(w)), Cardinality(Rides(w)) + 1}
    BY <2>1, <2>2
  <2> QED BY <1>2, <1>3, <2>3, SMTT(60) DEF Uses
<1>4. CASE w \notin batch
  <2>1. Rides(w)' = Rides(w)
    BY <1>4, SMTT(60) DEF Rides
  <2> QED BY <1>2, <2>1, SMTT(60) DEF Uses
<1> QED BY <1>3, <1>4

\* One that runs is used once more and can be used once less; one that dies is
\* used less.
LEMMA OrphanRemoved ==
    ASSUME TypeOK, IsFiniteSet(orphans), NEW o \in orphans, Orphan(o)
    PROVE  IsFiniteSet(orphans') /\ \A w \in Writes : Uses'[w] <= Uses[w] /\ Uses'[w] \in Nat
<1>0. orphans' = orphans \ {o}
  BY DEF Orphan, OrphanRuns, OrphanDies
<1>1. IsFiniteSet(orphans')
  BY <1>0, FS_RemoveElement
<1> SUFFICES ASSUME NEW w \in Writes PROVE Uses'[w] <= Uses[w] /\ Uses'[w] \in Nat
  BY <1>1
<1>2. IsFiniteSet(Rides(w)) /\ Cardinality(Rides(w)) \in Nat /\ applied[w] \in Nat
  BY RidesType
<1>3. CASE w \in o.rows
  <2>1. Rides(w)' = Rides(w) \ {o} /\ o \in Rides(w)
    BY <1>0, <1>3 DEF Rides
  <2>2. Cardinality(Rides(w) \ {o}) = Cardinality(Rides(w)) - 1
    BY <1>2, <2>1, FS_RemoveElement
  <2>3. Cardinality(Rides(w)') = Cardinality(Rides(w)) - 1
    BY <2>1, <2>2
  <2>4. Cardinality(Rides(w) \ {o}) \in Nat
    BY <1>2, FS_RemoveElement, FS_CardinalityType
  <2>5. applied'[w] \in {applied[w], applied[w] + 1}
    BY <1>2, <1>3 DEF Orphan, OrphanRuns, OrphanDies, Apply
  <2> QED BY <1>2, <2>2, <2>3, <2>4, <2>5, SMTT(60) DEF Uses
<1>4. CASE w \notin o.rows
  <2>1. Rides(w)' = Rides(w)
    BY <1>0, <1>4 DEF Rides
  <2>2. applied'[w] = applied[w]
    BY <1>2, <1>4, SMTT(60) DEF Orphan, OrphanRuns, OrphanDies, Apply
  <2> QED BY <1>2, <2>1, <2>2, SMTT(60) DEF Uses
<1> QED BY <1>3, <1>4

LEMMA RetryStep ==
    TypeOK /\ QueueInv /\ RetryInv /\ [Next]_vars => RetryInv'
<1> SUFFICES ASSUME TypeOK, QueueInv, RetryInv, [Next]_vars PROVE RetryInv'
  OBVIOUS
<1>0. /\ IsFiniteSet(orphans) /\ \A w \in Writes : Uses[w] \in Nat
      /\ call \in [Writes -> Calls] /\ attempt \in Nat /\ batch \subseteq Writes
  BY RidesType DEF RetryInv, TypeOK, Calls
<1>r. \A w \in Writes : /\ Uses[w] <= Limit
                        /\ w \in batch => Uses[w] <= attempt
                        /\ w \in Unsent => Uses[w] = 0
  BY DEF RetryInv
<1>q. \A w \in batch : w \notin Unsent
  BY DEF QueueInv, Unsent
<1>a. ASSUME UNCHANGED <<applied, orphans, batch, attempt, fpc>>,
             Unsent' \subseteq Unsent
      PROVE  RetryInv'
  <2>1. \A w \in Writes : Uses'[w] = Uses[w]
    BY <1>a DEF Uses, Rides
  <2> QED BY <1>a, <2>1 DEF RetryInv
<1>1. ASSUME NEW v \in Writes, Caller(v) PROVE RetryInv'
  <2>1. UNCHANGED <<applied, orphans, batch, attempt, fpc>>
    BY <1>1 DEF Caller, MarkDirty, Enqueue, FlushNow, flushVars, pgVars
  <2>2. CASE MarkDirty(v)
    <3>1. Unsent' \subseteq Unsent
      BY <1>0, <2>2 DEF MarkDirty, Unsent, InQueue
    <3> QED BY <1>a, <2>1, <3>1
  <2>3. CASE Enqueue(v)
    <3>1. InQueue' = InQueue \cup {v}
      BY <2>3, EnqueueFacts
    <3>2. Unsent' \subseteq Unsent
      BY <1>0, <2>3, <3>1 DEF Enqueue, Unsent
    <3> QED BY <1>a, <2>1, <3>2
  <2>4. CASE FlushNow(v)
    <3>1. Unsent' \subseteq Unsent
      BY <1>0, <2>4 DEF FlushNow, Unsent, InQueue
    <3> QED BY <1>a, <2>1, <3>1
  <2> QED BY <1>1, <2>2, <2>3, <2>4 DEF Caller
<1>2. CASE Drain
  <2>1. UNCHANGED <<applied, orphans, call>> /\ attempt' = 0
    BY <1>2 DEF Drain, pgVars
  <2>2. batch' \subseteq InQueue /\ InQueue' \subseteq InQueue
    <3>1. PICK n \in 0..Len(queue) : batch' = Coalesce(n)
      BY <1>2, DrainParts
    <3>2. DOMAIN queue = 1..Len(queue) /\ 1..n \subseteq 1..Len(queue)
      BY SMTT(60) DEF TypeOK
    <3>3. Coalesce(n) \subseteq {queue[i] : i \in 1..n}
      BY DEF Coalesce, Take
    <3> QED BY <1>2, <3>1, <3>2, <3>3, DrainFacts DEF InQueue
  <2>3. \A w \in Writes : Uses'[w] = Uses[w]
    BY <2>1 DEF Uses, Rides
  <2>4. \A w \in Writes : Uses'[w] <= Limit
    BY <2>3 DEF RetryInv
  <2>5. \A w \in Writes : w \in batch' => Uses'[w] <= attempt'
    BY <2>1, <2>2, <2>3, SMTT(60) DEF RetryInv, Unsent
  <2>6. \A w \in Writes : w \in Unsent' => Uses'[w] = 0
    BY <2>1, <2>2, <2>3 DEF RetryInv, Unsent
  <2> QED BY <1>0, <2>1, <2>4, <2>5, <2>6, LimitType DEF RetryInv
<1>3. CASE SendOk
  <2>1. /\ fpc = "send" /\ fpc' = "end" /\ batch' = {} /\ orphans' = orphans
        /\ UNCHANGED <<call, queue>>
    BY <1>3 DEF SendOk, callVars
  <2>2. \A w \in Writes : Uses'[w] = Uses[w] + (IF w \in batch THEN 1 ELSE 0)
    <3>1. \A w \in Writes : Rides(w)' = Rides(w)
      BY <2>1 DEF Rides
    <3>2. \A w \in Writes : applied'[w] = applied[w] + (IF w \in batch THEN 1 ELSE 0)
      BY <1>3 DEF SendOk, Apply
    <3> QED BY <1>0, <3>1, <3>2, RidesType, SMTT(30) DEF Uses
  <2>3. attempt < Limit
    BY <2>1 DEF RetryInv
  <2>4. \A w \in Writes : Uses'[w] <= Limit
    BY <1>0, <2>2, <2>3, LimitType, SMTT(60) DEF RetryInv
  <2>5. \A w \in Writes : w \in Unsent' => Uses'[w] = 0
    <3>1. \A w \in Writes : w \in Unsent' => w \in Unsent
      BY <2>1 DEF Unsent, InQueue
    <3>2. \A w \in Writes : w \in Unsent => w \notin batch /\ Uses[w] = 0
      BY <1>q DEF RetryInv
    <3> QED BY ONLY <2>2, <3>1, <3>2, SMTT(60), ZenonT(30)
  <2> QED BY <1>0, <2>1, <2>4, <2>5 DEF RetryInv
<1>4. CASE SendRefused \/ SendBroken
  <2>1. /\ fpc = "send" /\ RetryOrGiveUp /\ UNCHANGED <<call, queue, applied>>
        /\ orphans' \in {orphans, orphans \cup {[rows |-> batch, n |-> attempt]}}
    BY <1>4 DEF SendRefused, SendBroken, callVars, pgVars
  <2>2. /\ IsFiniteSet(orphans')
        /\ \A w \in Writes : /\ Uses'[w] \in Nat /\ Uses'[w] <= Uses[w] + 1
                             /\ w \notin batch => Uses'[w] = Uses[w]
    <3>1. CASE orphans' = orphans
      BY <1>0, <2>1, <3>1, SMTT(60) DEF Uses, Rides
    <3>2. CASE orphans' = orphans \cup {[rows |-> batch, n |-> attempt]}
      BY <1>0, <2>1, <3>2, OrphanAdded
    <3> QED BY <2>1, <3>1, <3>2
  <2>3. attempt < Limit /\ attempt' = attempt + 1
    BY <2>1 DEF RetryInv, RetryOrGiveUp
  <2>4. \A w \in Writes : Uses'[w] <= Limit
    <3> SUFFICES ASSUME NEW w \in Writes PROVE Uses'[w] <= Limit
      OBVIOUS
    <3>1. CASE w \in batch
      <4>1. /\ Uses[w] \in Nat /\ Uses'[w] \in Nat /\ Uses[w] <= attempt /\ attempt \in Nat
            /\ Uses'[w] <= Uses[w] + 1 /\ attempt < Limit
        BY <1>0, <1>r, <2>2, <2>3, <3>1
      <4> QED BY ONLY <4>1, LimitType, SMTT(60), ZenonT(30)
    <3>2. CASE w \notin batch
      BY <1>r, <2>2, <3>2
    <3> QED BY <3>1, <3>2
  <2>5. \A w \in Writes : w \in Unsent' => Uses'[w] = 0
    <3> SUFFICES ASSUME NEW w \in Writes, w \in Unsent' PROVE Uses'[w] = 0
      OBVIOUS
    <3>1. w \in Unsent
      BY <2>1 DEF Unsent, InQueue
    <3>2. w \notin batch
      BY <1>q, <3>1
    <3> QED BY <1>r, <2>2, <3>1, <3>2
  <2>6. batch' \subseteq batch
    BY <2>1 DEF RetryOrGiveUp
  <2>7. \A w \in Writes : w \in batch' => Uses'[w] <= attempt'
    <3> SUFFICES ASSUME NEW w \in Writes, w \in batch' PROVE Uses'[w] <= attempt'
      OBVIOUS
    <3>1. /\ Uses[w] \in Nat /\ Uses'[w] \in Nat /\ Uses[w] <= attempt /\ attempt \in Nat
          /\ Uses'[w] <= Uses[w] + 1 /\ attempt' = attempt + 1
      BY <1>0, <1>r, <2>2, <2>3, <2>6
    <3> QED BY ONLY <3>1, SMTT(60), ZenonT(30)
  <2>8. fpc' = "send" => attempt' < Limit
    BY <1>0, <2>1, BatchAssumption, SMTT(30) DEF RetryOrGiveUp, Limit
  <2> QED BY <2>2, <2>4, <2>5, <2>7, <2>8 DEF RetryInv
<1>5. CASE EndBatch
  <2>1. UNCHANGED <<applied, orphans, batch, attempt, queue>> /\ fpc' # "send"
    BY <1>5 DEF EndBatch, pgVars
  <2>2. Unsent' \subseteq Unsent
    BY <1>0, <1>5 DEF EndBatch, Unsent, InQueue
  <2>3. \A w \in Writes : Uses'[w] = Uses[w]
    BY <2>1 DEF Uses, Rides
  <2> QED BY <2>1, <2>2, <2>3 DEF RetryInv
<1>6. CASE Exit \/ Rebalance \/ Stop \/ UNCHANGED vars
  <2>1. UNCHANGED <<applied, orphans, batch, attempt, queue, call>> /\ (fpc' = "send" => fpc = "send")
    BY <1>6 DEF Exit, Rebalance, Stop, vars, callVars, flushVars, pgVars
  <2>2. \A w \in Writes : Uses'[w] = Uses[w] /\ (w \in Unsent' <=> w \in Unsent)
    BY <2>1 DEF Uses, Rides, Unsent, InQueue
  <2> QED BY <2>1, <2>2 DEF RetryInv
<1>7. ASSUME NEW o \in orphans, Orphan(o) PROVE RetryInv'
  <2>1. UNCHANGED <<batch, attempt, fpc, queue, call>>
    BY <1>7 DEF Orphan, OrphanRuns, OrphanDies, callVars, flushVars
  <2>2. \A w \in Writes : w \in Unsent' <=> w \in Unsent
    BY <2>1 DEF Unsent, InQueue
  <2>3. IsFiniteSet(orphans') /\ \A w \in Writes : Uses'[w] <= Uses[w] /\ Uses'[w] \in Nat
    BY <1>0, <1>7, OrphanRemoved
  <2>4. \A w \in Writes : Uses'[w] <= Limit /\ (w \in batch' => Uses'[w] <= attempt')
    BY <1>0, <2>1, <2>3, LimitType, SMTT(60) DEF RetryInv
  <2>5. \A w \in Writes : w \in Unsent' => Uses'[w] = 0
    BY <1>0, <2>2, <2>3, SMTT(60) DEF RetryInv
  <2> QED BY <2>1, <2>3, <2>4, <2>5 DEF RetryInv
<1>8. CASE Kill
  <2>1. /\ fpc' = "dead" /\ queue' = <<>> /\ batch' = {} /\ UNCHANGED <<call, applied>>
        /\ \/ orphans' = orphans
           \/ fpc = "send" /\ orphans' = orphans \cup {[rows |-> batch, n |-> attempt]}
    BY <1>8 DEF Kill
  <2>2. IsFiniteSet(orphans') /\ \A w \in Writes : w \notin batch => Uses'[w] = Uses[w]
    <3>1. CASE orphans' = orphans
      BY <1>0, <2>1, <3>1 DEF Uses, Rides
    <3>2. CASE orphans' = orphans \cup {[rows |-> batch, n |-> attempt]}
      <4>1. UNCHANGED applied
        BY <2>1
      <4> QED BY <1>0, <3>2, <4>1, OrphanAdded
    <3> QED BY <2>1, <3>1, <3>2
  <2>4. ASSUME orphans' # orphans, NEW w \in Writes PROVE Uses'[w] <= Limit
    <3>1. attempt < Limit
      BY <2>1, <2>4 DEF RetryInv
    <3>2. Uses'[w] \in Nat /\ Uses'[w] <= Uses[w] + 1
      <4>1. UNCHANGED applied /\ orphans' = orphans \cup {[rows |-> batch, n |-> attempt]}
        BY <2>1, <2>4
      <4> QED BY <1>0, <4>1, OrphanAdded
    <3>3. Uses[w] <= Limit /\ (w \in batch => Uses[w] <= attempt)
      BY DEF RetryInv
    <3>4. CASE w \in batch
      BY <1>0, <3>1, <3>2, <3>3, <3>4, LimitType, SMTT(60)
    <3>5. CASE w \notin batch
      BY <2>2, <3>3, <3>5
    <3> QED BY <3>4, <3>5
  <2>5. \A w \in Writes : Uses'[w] <= Limit
    <3>1. CASE orphans' = orphans
      BY <2>1, <3>1 DEF Uses, Rides, RetryInv
    <3> QED BY <2>4, <3>1
  <2>6. Unsent' \subseteq Unsent
    BY <2>1, SMTT(30) DEF Unsent, InQueue
  <2>7. \A w \in Writes : w \in Unsent' => Uses'[w] = 0
    <3> SUFFICES ASSUME NEW w \in Writes, w \in Unsent' PROVE Uses'[w] = 0
      OBVIOUS
    <3>1. w \in Unsent /\ w \notin batch
      BY <1>q, <2>6
    <3> QED BY <2>2, <3>1 DEF RetryInv
  <2> QED BY <2>1, <2>2, <2>5, <2>7 DEF RetryInv
<1> QED BY <1>1, <1>2, <1>3, <1>4, <1>5, <1>6, <1>7, <1>8 DEF Next, Flusher

\* For every max_retry: a row is executed at most once per attempt, however
\* connections break and however late their statements run (send_batch()).
THEOREM ExecutionsBounded == Spec => []AtMostMaxRetry
<1> DEFINE Inv == BatchIdle /\ QueueInv /\ RetryInv
<1>1. Init => Inv
  <2>1. Init => BatchIdle /\ QueueInv
    BY SMTT(60) DEF Init, BatchIdle, QueueInv, InQueue
  <2>2. ASSUME Init, NEW w \in Writes PROVE Uses[w] = 0
    <3>1. Rides(w) = {} /\ applied[w] = 0
      BY <2>2 DEF Init, Rides
    <3> QED BY <3>1, FS_EmptySet, SMTT(60) DEF Uses
  <2>3. Init => IsFiniteSet(orphans) /\ fpc # "send" /\ attempt = 0
    BY FS_EmptySet DEF Init
  <2> QED BY <2>1, <2>2, <2>3, LimitType, SMTT(60) DEF RetryInv
<1>2. TypeOK /\ Inv /\ [Next]_vars => Inv'
  BY IdleStep, QueueStep, RetryStep
<1>3. Inv => AtMostMaxRetry
  BY DEF RetryInv, AtMostMaxRetry, Uses, Rides, Limit
<1> QED BY <1>1, <1>2, <1>3, TypeInit, TypeStep, PTL DEF Spec

-----------------------------------------------------------------------------
(* The order of rows: sent, in the batch, in the queue *)

Positions == 1..Len(log)
Taken == Len(log) - Len(queue)
Sent == {w \in Writes : applied[w] > 0}
Guarded == table = "Versioned"

\* The queue is the end of the log, which has every row once.
PlaceInv ==
    /\ orphans = {}
    /\ Len(queue) <= Len(log)
    /\ \A i \in 1..Len(queue) : queue[i] = log[Taken + i]
    /\ \A i, j \in Positions : log[i] = log[j] => i = j
    /\ \A w \in Enqueued : call[w] \notin {"no", "dirty"}

\* Before the queue come the rows of the batch, and before those the rows sent.
SentInv ==
    /\ Sent \cup batch \subseteq Enqueued
    /\ \A i \in Positions : log[i] \in Sent \cup batch => i <= Taken
    /\ \A i, j \in Positions : log[i] \in Sent /\ log[j] \in batch => i < j

\* A batch has one row per key; the last of a key is on its way or settled.
BatchInv ==
    /\ \A v, w \in batch : Key[v] = Key[w] => v = w
    /\ flushed \subseteq Sent
    /\ \A i \in Positions : (\A j \in Positions : j > i => Key[log[j]] # Key[log[i]])
                          => log[i] \in InQueue \cup batch \cup flushed \cup failed

\* What is stored for a key was sent, and no row sent goes over it.
StoredInv ==
    /\ \A k \in Keys : stored[k] # None => stored[k] \in Sent /\ Key[stored[k]] = k
    /\ \A w \in Sent : stored[Key[w]] # None
    /\ \A i, m \in Positions :
        log[i] \in Sent /\ stored[Key[log[i]]] = log[m] =>
            /\ ~Guarded => i <= m
            /\ Guarded => Version[log[i]] <= Version[log[m]]
            /\ Version[log[i]] = Version[log[m]] => i <= m

OrderInv == PlaceInv /\ SentInv /\ BatchInv /\ StoredInv

LEMMA LogType ==
    TypeOK => /\ Len(log) \in Nat /\ Len(queue) \in Nat /\ DOMAIN log = Positions /\ DOMAIN queue = 1..Len(queue)
              /\ log \in Seq(Writes) /\ queue \in Seq(Writes)
              /\ Enqueued = {log[i] : i \in Positions} /\ InQueue = {queue[i] : i \in 1..Len(queue)}
              /\ \A i \in Positions : log[i] \in Writes
BY SMTT(60) DEF TypeOK, Positions, Enqueued, InQueue

\* A row appended comes last, and has not been sent.
LEMMA OrderEnqueue ==
    ASSUME TypeOK, OrderInv, NEW w \in Writes, Enqueue(w), table' = table
    PROVE  OrderInv'
<1>0. /\ Len(log) \in Nat /\ Len(queue) \in Nat /\ DOMAIN log = Positions /\ DOMAIN queue = 1..Len(queue)
      /\ log \in Seq(Writes) /\ queue \in Seq(Writes) /\ Enqueued = {log[i] : i \in Positions}
      /\ \A i \in Positions : log[i] \in Writes
  BY LogType
<1>1. /\ call[w] = "dirty" /\ call' = [call EXCEPT ![w] = IF w \in SyncWrites THEN "flush" ELSE "done"]
      /\ queue' = Append(queue, w) /\ log' = Append(log, w)
      /\ UNCHANGED <<batch, applied, stored, orphans, flushed, failed>>
  BY DEF Enqueue, flushVars, countVars, pgVars
<1>2. Enqueued' = Enqueued \cup {w} /\ InQueue' = InQueue \cup {w}
  BY EnqueueFacts
<1>3. Len(log') = Len(log) + 1 /\ Len(queue') = Len(queue) + 1
  BY <1>0, <1>1, SMTT(60)
<1>4. log'[Len(log) + 1] = w /\ \A i \in Positions : log'[i] = log[i]
  BY <1>0, <1>1, SMTT(60) DEF Positions
<1>5. queue'[Len(queue) + 1] = w /\ \A i \in 1..Len(queue) : queue'[i] = queue[i]
  BY <1>0, <1>1, SMTT(60)
<1>6. w \notin Enqueued
  BY <1>1 DEF OrderInv, PlaceInv
<1>7. Positions' = Positions \cup {Len(log) + 1} /\ \A i \in Positions : i \in Nat /\ i <= Len(log)
  BY <1>0, <1>3, SMTT(60) DEF Positions
<1>8. Taken' = Taken /\ Taken \in Nat /\ Taken <= Len(log)
  BY <1>0, <1>3, SMTT(60) DEF Taken, OrderInv, PlaceInv
<1>9. Sent' = Sent /\ Guarded' = Guarded /\ w \notin Sent \cup batch
  BY <1>1, <1>6 DEF Sent, Guarded, OrderInv, SentInv
<1>10. \A i \in Positions : log[i] # w
  BY <1>0, <1>6
<1>11. PlaceInv'
  <2>1. orphans' = {} /\ Len(queue') <= Len(log')
    BY <1>0, <1>1, <1>3, SMTT(30) DEF OrderInv, PlaceInv
  <2>2. \A i \in 1..Len(queue') : queue'[i] = log'[Taken' + i]
    <3> SUFFICES ASSUME NEW i \in 1..Len(queue') PROVE queue'[i] = log'[Taken + i]
      BY <1>8
    <3>1. CASE i = Len(queue) + 1
      <4>1. Taken + i = Len(log) + 1
        BY <1>0, <3>1, SMTT(60) DEF Taken
      <4> QED BY <1>4, <1>5, <3>1, <4>1
    <3>2. CASE i \in 1..Len(queue)
      <4>1. Taken + i \in Positions
        BY <1>0, <1>8, <3>2, SMTT(60) DEF Taken, Positions
      <4>2. queue[i] = log[Taken + i]
        BY <3>2 DEF OrderInv, PlaceInv
      <4> QED BY <1>4, <1>5, <3>2, <4>1, <4>2
    <3> QED BY <1>0, <1>3, <3>1, <3>2, SMTT(60)
  <2>3. \A i, j \in Positions : log[i] = log[j] => i = j
    BY DEF OrderInv, PlaceInv
  <2>4. \A i, j \in Positions' : log'[i] = log'[j] => i = j
    BY ONLY <1>4, <1>7, <1>10, <2>3, SMTT(60), ZenonT(30)
  <2>5. \A v \in Enqueued' : call'[v] \notin {"no", "dirty"}
    <3>1. Enqueued \subseteq Writes /\ call \in [Writes -> Calls]
      BY <1>0 DEF TypeOK, Calls
    <3> QED BY <1>1, <1>2, <3>1 DEF OrderInv, PlaceInv
  <2> QED BY <2>1, <2>2, <2>4, <2>5 DEF PlaceInv
<1>12. SentInv'
  <2>1. /\ Sent \cup batch \subseteq Enqueued
        /\ \A i \in Positions : log[i] \in Sent \cup batch => i <= Taken
        /\ \A i, j \in Positions : log[i] \in Sent /\ log[j] \in batch => i < j
    BY DEF OrderInv, SentInv
  <2>2. batch' = batch
    BY <1>1
  <2>3. \A i \in Positions' : log'[i] \in Sent \cup batch => i \in Positions
    BY <1>4, <1>7, <1>9
  <2>4. \A i \in Positions' : log'[i] \in Sent \cup batch => i <= Taken
    BY <1>4, <2>1, <2>3
  <2>5. \A i, j \in Positions' : log'[i] \in Sent /\ log'[j] \in batch => i < j
    BY <1>4, <2>1, <2>3
  <2> QED BY <1>2, <1>8, <1>9, <2>1, <2>2, <2>4, <2>5 DEF SentInv
<1>13. BatchInv'
  <2>1. /\ \A u, v \in batch : Key[u] = Key[v] => u = v
        /\ flushed \subseteq Sent
    BY DEF OrderInv, BatchInv
  <2>2. UNCHANGED <<batch, flushed, failed>>
    BY <1>1
  <2>3. ASSUME NEW i \in Positions', \A j \in Positions' : j > i => Key[log'[j]] # Key[log'[i]]
        PROVE  log'[i] \in InQueue' \cup batch \cup flushed \cup failed
    <3>1. CASE i \in Positions
      <4>1. \A j \in Positions : j > i => Key[log[j]] # Key[log[i]]
        BY <1>4, <1>7, <2>3, <3>1
      <4> QED BY <1>2, <1>4, <3>1, <4>1 DEF OrderInv, BatchInv
    <3>2. CASE i = Len(log) + 1
      BY <1>2, <1>4, <3>2
    <3> QED BY <1>7, <3>1, <3>2
  <2> QED BY <1>9, <2>1, <2>2, <2>3 DEF BatchInv
<1>14. StoredInv'
  <2>1. /\ \A k \in Keys : stored[k] # None => stored[k] \in Sent /\ Key[stored[k]] = k
        /\ \A v \in Sent : stored[Key[v]] # None
        /\ stored' = stored
    BY <1>1 DEF OrderInv, StoredInv
  <2>2. ASSUME NEW i \in Positions', NEW m \in Positions', log'[i] \in Sent, stored[Key[log'[i]]] = log'[m]
        PROVE  i \in Positions /\ m \in Positions
    <3>1. i \in Positions
      BY <1>4, <1>7, <1>9, <2>2
    <3>2. Key[log'[i]] \in Keys /\ log'[m] \in Sent
      BY <1>0, <1>4, <2>1, <2>2, <3>1, BatchAssumption
    <3> QED BY <1>4, <1>7, <1>9, <3>1, <3>2
  <2>3. \A i, m \in Positions' :
          log'[i] \in Sent /\ stored[Key[log'[i]]] = log'[m] =>
            /\ ~Guarded => i <= m
            /\ Guarded => Version[log'[i]] <= Version[log'[m]]
            /\ Version[log'[i]] = Version[log'[m]] => i <= m
    BY <1>4, <2>2, SMTT(60) DEF OrderInv, StoredInv
  <2> QED BY <1>9, <2>1, <2>3 DEF StoredInv
<1> QED BY <1>11, <1>12, <1>13, <1>14 DEF OrderInv

\* The rows taken are the first of the queue, so what is left is still the end
\* of the log; the last row of a key in the log is the last of its key taken.
LEMMA OrderDrain ==
    ASSUME TypeOK, BatchIdle, OrderInv, Drain, table # "Event", table' = table
    PROVE  OrderInv'
<1>0. /\ Len(log) \in Nat /\ Len(queue) \in Nat
      /\ Enqueued = {log[i] : i \in Positions} /\ InQueue = {queue[i] : i \in 1..Len(queue)}
      /\ \A i \in Positions : log[i] \in Writes
  BY LogType
<1>1. PICK n \in 0..Len(queue) :
          /\ batch' = Coalesce(n) /\ Len(queue') = Len(queue) - n
          /\ \A i \in 1..Len(queue') : queue'[i] = queue[n + i]
  BY DrainParts
<1>2. batch = {} /\ UNCHANGED <<call, log, applied, stored, orphans, flushed, failed>>
  BY DEF Drain, BatchIdle, countVars, pgVars
<1>3. batch' = {queue[i] : i \in {i \in 1..n : \A j \in 1..n : j > i => Key[queue[j]] # Key[queue[i]]}}
  BY <1>1 DEF Coalesce
<1>4. Positions' = Positions /\ Sent' = Sent /\ Enqueued' = Enqueued /\ Guarded' = Guarded
  BY <1>2 DEF Positions, Sent, Enqueued, Guarded
<1>5. Taken' = Taken + n /\ Taken \in Nat /\ Taken + Len(queue) = Len(log) /\ n \in Nat /\ n <= Len(queue)
  <2>1. Len(log') = Len(log) /\ Len(queue) <= Len(log)
    BY <1>2 DEF OrderInv, PlaceInv
  <2>2. /\ Len(log) \in Nat /\ Len(queue) \in Nat /\ n \in Nat /\ n <= Len(queue)
        /\ Len(queue') = Len(queue) - n /\ Len(log') = Len(log) /\ Len(queue) <= Len(log)
    BY ONLY <1>0, <1>1, <2>1, SMTT(60)
  <2> QED BY ONLY <2>2, SMTT(60) DEF Taken
<1>6. \A i \in 1..Len(queue) : Taken + i \in Positions /\ queue[i] = log[Taken + i]
  <2>1. \A i \in 1..Len(queue) : Taken + i \in Positions
    BY <1>0, <1>5, SMTT(60) DEF Positions
  <2> QED BY <2>1 DEF OrderInv, PlaceInv
<1>7. \A i, j \in Positions : log[i] = log[j] => i = j
  BY DEF OrderInv, PlaceInv
<1>8. 1..n \subseteq 1..Len(queue) /\ \A i \in 1..Len(queue) : i \in Nat /\ (i \in 1..n <=> i <= n)
  BY <1>0, <1>5, SMTT(60)
<1>9. \A i \in Positions : i \in Nat
  BY <1>0, SMTT(60) DEF Positions
<1>10. ASSUME NEW w \in batch'
       PROVE  \E i \in 1..n : /\ Taken + i \in Positions /\ w = log[Taken + i]
                              /\ \A j \in 1..n : j > i => Key[log[Taken + j]] # Key[w]
  <2>1. PICK i \in 1..n : w = queue[i] /\ \A j \in 1..n : j > i => Key[queue[j]] # Key[queue[i]]
    BY <1>3
  <2> QED BY <1>6, <1>8, <2>1
<1>11. PlaceInv'
  <2>1. orphans' = {} /\ Len(queue') <= Len(log') /\ \A w \in Enqueued' : call'[w] \notin {"no", "dirty"}
    <3>1. Len(queue) <= Len(log) /\ Len(log') = Len(log)
      BY <1>2 DEF OrderInv, PlaceInv
    <3>2. Len(queue') <= Len(log')
      BY <1>0, <1>1, <3>1, SMTT(60)
    <3> QED BY <1>2, <1>4, <3>2 DEF OrderInv, PlaceInv
  <2>2. \A i \in 1..Len(queue') : queue'[i] = log'[Taken' + i]
    <3> SUFFICES ASSUME NEW i \in 1..Len(queue') PROVE queue'[i] = log[Taken' + i]
      BY <1>2
    <3>1. n + i \in 1..Len(queue) /\ Taken' + i = Taken + (n + i)
      BY <1>0, <1>1, <1>5, SMTT(60)
    <3> QED BY <1>1, <1>6, <3>1
  <2>3. \A i, j \in Positions' : log'[i] = log'[j] => i = j
    BY <1>2, <1>4, <1>7
  <2> QED BY <2>1, <2>2, <2>3 DEF PlaceInv
<1>12. SentInv'
  <2>1. Sent \subseteq Enqueued /\ \A i \in Positions : log[i] \in Sent => i <= Taken
    BY DEF OrderInv, SentInv
  <2>2. batch' \subseteq Enqueued
    BY <1>0, <1>10
  <2>3. ASSUME NEW j \in Positions, log[j] \in batch' PROVE j > Taken /\ j <= Taken + n
    <3>1. PICK i \in 1..n : Taken + i \in Positions /\ log[j] = log[Taken + i]
      BY <1>10, <2>3
    <3>2. j = Taken + i
      BY <1>7, <3>1
    <3> QED BY <1>5, <3>2, SMTT(60)
  <2>4. \A i \in Positions : log[i] \in Sent \cup batch' => i <= Taken + n
    BY <1>5, <1>9, <2>1, <2>3, SMTT(60)
  <2>5. \A i, j \in Positions : log[i] \in Sent /\ log[j] \in batch' => i < j
    BY <1>5, <1>9, <2>1, <2>3, SMTT(60)
  <2> QED BY <1>2, <1>4, <1>5, <2>1, <2>2, <2>4, <2>5 DEF SentInv
<1>13. BatchInv'
  <2>1. ASSUME NEW v \in batch', NEW w \in batch', Key[v] = Key[w] PROVE v = w
    <3>1. PICK i \in 1..n : v = log[Taken + i] /\ \A j \in 1..n : j > i => Key[log[Taken + j]] # Key[v]
      BY <1>10
    <3>2. PICK j \in 1..n : w = log[Taken + j] /\ \A l \in 1..n : l > j => Key[log[Taken + l]] # Key[w]
      BY <1>10
    <3>3. ~(j > i) /\ ~(i > j)
      BY <2>1, <3>1, <3>2
    <3>4. i = j
      BY <1>5, <3>3, SMTT(60)
    <3> QED BY <3>1, <3>2, <3>4
  <2>2. flushed' \subseteq Sent'
    BY <1>2, <1>4 DEF OrderInv, BatchInv
  <2>3. ASSUME NEW i \in Positions, \A j \in Positions : j > i => Key[log[j]] # Key[log[i]]
        PROVE  log[i] \in InQueue' \cup batch' \cup flushed \cup failed
    <3>1. log[i] \in InQueue \cup flushed \cup failed
      BY <1>2, <2>3 DEF OrderInv, BatchInv
    <3>2. ASSUME log[i] \in InQueue PROVE log[i] \in InQueue' \cup batch'
      <4>1. PICK k \in 1..Len(queue) : log[i] = queue[k]
        BY <1>0, <3>2
      <4>2. i = Taken + k
        BY <1>6, <1>7, <4>1
      <4>3. CASE k <= n
        <5>1. k \in 1..n
          BY <1>8, <4>3
        <5>2. ASSUME NEW j \in 1..n, j > k PROVE Key[queue[j]] # Key[queue[k]]
          <6>1. Taken + j \in Positions /\ queue[j] = log[Taken + j] /\ Taken + j > i
            BY <1>5, <1>6, <1>8, <4>2, <5>1, <5>2, SMTT(60)
          <6> QED BY <2>3, <4>1, <6>1
        <5> QED BY <1>3, <4>1, <5>1, <5>2
      <4>4. CASE k > n
        <5>1. k - n \in 1..Len(queue') /\ n + (k - n) = k
          BY <1>0, <1>1, <1>5, <4>4, SMTT(60)
        <5>2. queue'[k - n] = log[i]
          BY <1>1, <4>1, <5>1
        <5>3. DOMAIN queue' = 1..Len(queue')
          BY DrainFacts, SMTT(60)
        <5> QED BY <5>1, <5>2, <5>3 DEF InQueue
      <4> QED BY <1>5, <1>8, <4>3, <4>4, SMTT(60)
    <3> QED BY <3>1, <3>2
  <2> QED BY <1>2, <1>4, <2>1, <2>2, <2>3 DEF BatchInv
<1>14. StoredInv'
  BY <1>2, <1>4 DEF OrderInv, StoredInv
<1> QED BY <1>11, <1>12, <1>13, <1>14 DEF OrderInv

\* The upsert of a batch with one row per key.
LEMMA ApplyBatch ==
    ASSUME TypeOK, BatchInv, Apply(batch), table # "Event", NEW k \in Keys
    PROVE  /\ \A w \in batch : Key[w] = k => stored'[k] = IF Overwrites(w) THEN w ELSE stored[k]
           /\ (\A w \in batch : Key[w] # k) => stored'[k] = stored[k]
<1>1. stored'[k] = IF \E w \in batch : Key[w] = k /\ table # "Event" /\ Overwrites(w)
                   THEN CHOOSE w \in batch : Key[w] = k /\ Overwrites(w)
                   ELSE stored[k]
  BY DEF Apply
<1>2. ASSUME NEW w \in batch, Key[w] = k
      PROVE  stored'[k] = IF Overwrites(w) THEN w ELSE stored[k]
  <2>1. \A v \in batch : Key[v] = k => v = w
    BY <1>2 DEF BatchInv
  <2>2. CASE Overwrites(w)
    <3>1. (CHOOSE v \in batch : Key[v] = k /\ Overwrites(v)) = w
      BY <1>2, <2>1, <2>2
    <3> QED BY <1>1, <1>2, <2>2, <3>1
  <2>3. CASE ~Overwrites(w)
    <3>1. ~\E v \in batch : Key[v] = k /\ table # "Event" /\ Overwrites(v)
      BY <2>1, <2>3
    <3> QED BY <1>1, <2>3, <3>1
  <2> QED BY <2>2, <2>3
<1> QED BY <1>1, <1>2

\* Whatever was sent before the batch stands before it in the log, so a row of
\* the batch that overwrites goes over all of it, and one that does not is older.
LEMMA OrderSend ==
    ASSUME TypeOK, OrderInv, SendOk, table # "Event", table' = table
    PROVE  OrderInv'
<1>0. /\ \A i \in Positions : log[i] \in Writes /\ i \in Nat
      /\ Enqueued = {log[i] : i \in Positions}
  BY LogType, SMTT(60) DEF Positions
<1>1. /\ Apply(batch) /\ batch' = {} /\ flushed' = flushed \cup batch
      /\ UNCHANGED <<call, queue, log, orphans, failed>>
  BY DEF SendOk, callVars
<1>2. batch \subseteq Writes /\ \A w \in Writes : applied[w] \in Nat
  BY DEF TypeOK
<1>3. Sent' = Sent \cup batch
  <2>1. \A w \in Writes : applied'[w] = applied[w] + (IF w \in batch THEN 1 ELSE 0)
    BY <1>1 DEF Apply
  <2>2. \A w \in Writes : applied'[w] > 0 <=> applied[w] > 0 \/ w \in batch
    BY <1>2, <2>1, SMTT(60)
  <2> QED BY <1>2, <2>2 DEF Sent
<1>4. Positions' = Positions /\ Taken' = Taken /\ Enqueued' = Enqueued /\ InQueue' = InQueue /\ Guarded' = Guarded
  BY <1>1 DEF Positions, Taken, Enqueued, InQueue, Guarded
<1>5. PlaceInv'
  BY <1>1, <1>4 DEF OrderInv, PlaceInv
<1>6. SentInv'
  BY <1>1, <1>3, <1>4 DEF OrderInv, SentInv
<1>7. BatchInv'
  BY <1>1, <1>3, <1>4 DEF OrderInv, BatchInv
<1>8. StoredInv'
  <2>1. /\ \A k \in Keys : stored[k] # None => stored[k] \in Sent /\ Key[stored[k]] = k
        /\ \A w \in Sent : stored[Key[w]] # None
    BY DEF OrderInv, StoredInv
  <2>2. ASSUME NEW i \in Positions, NEW m \in Positions, log[i] \in Sent, stored[Key[log[i]]] = log[m]
        PROVE  /\ ~Guarded => i <= m
               /\ Guarded => Version[log[i]] <= Version[log[m]]
               /\ Version[log[i]] = Version[log[m]] => i <= m
    BY <2>2 DEF OrderInv, StoredInv
  <2>3. \A i, j \in Positions : /\ log[i] = log[j] => i = j
                                /\ log[i] \in Sent /\ log[j] \in batch => i < j
    BY DEF OrderInv, PlaceInv, SentInv
  <2>4. Sent \cup batch \subseteq Enqueued /\ None \notin Writes /\ batch \subseteq Writes
        /\ Sent \subseteq Writes /\ \A w \in Writes : Key[w] \in Keys /\ Version[w] \in Nat
    BY <1>2, BatchAssumption DEF OrderInv, SentInv, Sent
  <2>5. ASSUME NEW w \in batch
        PROVE  stored'[Key[w]] = IF Overwrites(w) THEN w ELSE stored[Key[w]]
    BY <1>1, <2>4, <2>5, ApplyBatch DEF OrderInv
  <2>6. ASSUME NEW k \in Keys, \A w \in batch : Key[w] # k PROVE stored'[k] = stored[k]
    BY <1>1, <2>6, ApplyBatch DEF OrderInv
  <2>7. ASSUME NEW w \in batch, ~Overwrites(w)
        PROVE  stored[Key[w]] # None /\ Guarded /\ ~(Version[stored[Key[w]]] <= Version[w])
    BY <2>7 DEF Overwrites, Guarded
  <2>8. ASSUME NEW w \in batch, Overwrites(w), stored[Key[w]] # None, Guarded
        PROVE  Version[stored[Key[w]]] <= Version[w]
    BY <2>8 DEF Overwrites, Guarded
  <2>9. ASSUME NEW k \in Keys, stored'[k] # None PROVE stored'[k] \in Sent' /\ Key[stored'[k]] = k
    <3>1. CASE \A w \in batch : Key[w] # k
      BY <1>3, <2>1, <2>6, <2>9, <3>1
    <3>2. ASSUME NEW w \in batch, Key[w] = k PROVE stored'[k] \in Sent' /\ Key[stored'[k]] = k
      <4>1. stored'[k] \in {w, stored[k]}
        BY <2>5, <3>2
      <4> QED BY <1>3, <2>1, <2>9, <3>2, <4>1
    <3> QED BY <3>1, <3>2
  <2>10. ASSUME NEW w \in Sent' PROVE stored'[Key[w]] # None
    <3>1. w \in Writes /\ Key[w] \in Keys
      BY <1>3, <2>4
    <3>2. CASE \A v \in batch : Key[v] # Key[w]
      BY <1>3, <2>1, <2>6, <3>1, <3>2
    <3>3. ASSUME NEW v \in batch, Key[v] = Key[w] PROVE stored'[Key[w]] # None
      <4>1. CASE Overwrites(v)
        BY <2>4, <2>5, <3>3, <4>1
      <4>2. CASE ~Overwrites(v)
        BY <2>5, <2>7, <3>3, <4>2
      <4> QED BY <4>1, <4>2
    <3> QED BY <3>2, <3>3
  <2>11. ASSUME NEW i \in Positions, NEW m \in Positions, log[i] \in Sent \cup batch, stored'[Key[log[i]]] = log[m]
         PROVE  /\ ~Guarded => i <= m
                /\ Guarded => Version[log[i]] <= Version[log[m]]
                /\ Version[log[i]] = Version[log[m]] => i <= m
    <3>0. /\ log[i] \in Writes /\ log[m] \in Writes /\ Key[log[i]] \in Keys /\ i \in Nat /\ m \in Nat
          /\ Version[log[i]] \in Nat /\ Version[log[m]] \in Nat
      BY <1>0, <2>4
    <3>1. CASE \A w \in batch : Key[w] # Key[log[i]]
      <4>1. log[i] \in Sent /\ stored[Key[log[i]]] = log[m]
        BY <2>6, <2>11, <3>0, <3>1
      <4> QED BY <2>2, <4>1
    <3>2. ASSUME NEW p \in Positions, log[p] \in batch, Key[log[p]] = Key[log[i]], Overwrites(log[p])
          PROVE  /\ ~Guarded => i <= m
                 /\ Guarded => Version[log[i]] <= Version[log[m]]
                 /\ Version[log[i]] = Version[log[m]] => i <= m
      <4>1. stored'[Key[log[i]]] = log[p]
        BY <2>5, <3>2
      <4>2. m = p
        BY <2>3, <2>11, <4>1
      <4>3. CASE log[i] \in Sent
        <5>1. i < m
          BY <2>3, <3>2, <4>2, <4>3
        <5>2. ASSUME Guarded PROVE Version[log[i]] <= Version[log[m]]
          <6>1. stored[Key[log[i]]] # None
            BY <2>1, <4>3
          <6>2. stored[Key[log[i]]] \in Sent
            BY <2>1, <3>0, <6>1
          <6>3. PICK l \in Positions : stored[Key[log[i]]] = log[l]
            BY <1>0, <2>4, <6>2
          <6>4. Version[log[i]] <= Version[log[l]]
            BY <2>2, <4>3, <5>2, <6>3
          <6>5. Version[log[l]] <= Version[log[p]]
            BY <2>8, <3>2, <5>2, <6>1, <6>3
          <6>6. Version[log[l]] \in Nat
            BY <1>0, <2>4
          <6> QED BY <3>0, <4>2, <6>4, <6>5, <6>6, SMTT(60)
        <5> QED BY <3>0, <5>1, <5>2, SMTT(30)
      <4>4. CASE log[i] \in batch
        <5>1. log[i] = log[p]
          BY <3>2, <4>4 DEF OrderInv, BatchInv
        <5>2. i = m
          BY <2>3, <4>2, <5>1
        <5> QED BY <3>0, <5>2, SMTT(60)
      <4> QED BY <2>11, <4>3, <4>4
    <3>3. ASSUME NEW p \in Positions, log[p] \in batch, Key[log[p]] = Key[log[i]], ~Overwrites(log[p])
          PROVE  /\ ~Guarded => i <= m
                 /\ Guarded => Version[log[i]] <= Version[log[m]]
                 /\ Version[log[i]] = Version[log[m]] => i <= m
      <4>1. stored[Key[log[i]]] = log[m]
        BY <2>5, <2>11, <3>3
      <4>2. Guarded /\ ~(Version[log[m]] <= Version[log[p]])
        BY <2>7, <3>3, <4>1
      <4>3. CASE log[i] \in Sent
        BY <2>2, <4>1, <4>3
      <4>4. CASE log[i] \in batch
        <5>1. log[i] = log[p]
          BY <3>3, <4>4 DEF OrderInv, BatchInv
        <5>2. Version[log[i]] < Version[log[m]]
          BY <3>0, <4>2, <5>1, SMTT(30)
        <5> QED BY <3>0, <4>2, <5>2, SMTT(60)
      <4> QED BY <2>11, <4>3, <4>4
    <3>4. \A w \in batch : \E p \in Positions : w = log[p]
      BY <1>0, <2>4
    <3> QED BY <3>1, <3>2, <3>3, <3>4
  <2> QED BY <1>1, <1>3, <1>4, <2>9, <2>10, <2>11 DEF StoredInv
<1> QED BY <1>5, <1>6, <1>7, <1>8 DEF OrderInv

Ordered == Alive /\ table # "Event" /\ "break" \notin faults

LEMMA OrderStep ==
    TypeOK /\ BatchIdle /\ (Ordered => OrderInv) /\ [Next]_vars => (Ordered' => OrderInv')
<1> SUFFICES ASSUME TypeOK, BatchIdle, Ordered => OrderInv, [Next]_vars, Ordered'
             PROVE  OrderInv'
  OBVIOUS
<1>0. table' = table /\ faults' = faults
  BY EnvKept
<1>1. fpc = "dead" => fpc' = "dead"
  <2>1. ASSUME NEW w \in Writes, Caller(w) PROVE fpc' = fpc
    BY <2>1 DEF Caller, MarkDirty, Enqueue, FlushNow, flushVars
  <2>2. Flusher => fpc # "dead"
    BY DEF Flusher, Drain, SendOk, SendRefused, SendBroken, EndBatch, Exit
  <2>3. ASSUME NEW o \in orphans, Orphan(o) PROVE fpc' = fpc
    BY <2>3 DEF Orphan, OrphanRuns, OrphanDies, flushVars
  <2>4. Rebalance \/ Stop \/ Kill \/ UNCHANGED vars => fpc' = fpc \/ fpc' = "dead"
    BY DEF Rebalance, Stop, Kill, vars, flushVars
  <2> QED BY <2>1, <2>2, <2>3, <2>4 DEF Next
<1>2. Ordered /\ OrderInv
  BY <1>0, <1>1 DEF Ordered, Alive
<1>3. table # "Event" /\ "break" \notin faults /\ orphans = {} /\ ~Kill
  BY <1>2 DEF Ordered, OrderInv, PlaceInv, Kill, Alive
<1>4. call \in [Writes -> Calls] /\ Enqueued \subseteq Writes
  BY SMTT(30) DEF TypeOK, Calls, Enqueued
<1>a. ASSUME UNCHANGED <<queue, log, applied, stored, orphans, flushed>>,
             \A w \in Writes : call[w] \notin {"no", "dirty"} => call'[w] \notin {"no", "dirty"},
             (batch' = batch /\ failed' = failed) \/ (batch' = {} /\ failed' = failed \cup batch)
      PROVE  OrderInv'
  <2>1. /\ Positions' = Positions /\ Taken' = Taken /\ Enqueued' = Enqueued /\ InQueue' = InQueue
        /\ Guarded' = Guarded /\ Sent' = Sent
    BY <1>0, <1>a DEF Positions, Taken, Enqueued, InQueue, Guarded, Sent
  <2>2. PlaceInv'
    BY <1>2, <1>4, <1>a, <2>1 DEF OrderInv, PlaceInv
  <2>3. SentInv'
    BY <1>2, <1>a, <2>1 DEF OrderInv, SentInv
  <2>4. BatchInv'
    BY <1>2, <1>a, <2>1 DEF OrderInv, BatchInv
  <2>5. StoredInv'
    BY <1>2, <1>a, <2>1 DEF OrderInv, StoredInv
  <2> QED BY <2>2, <2>3, <2>4, <2>5 DEF OrderInv
<1>5. ASSUME NEW w \in Writes, MarkDirty(w) \/ FlushNow(w) PROVE OrderInv'
  <2>1. UNCHANGED <<queue, log, applied, stored, orphans, flushed, batch, failed>>
    BY <1>5 DEF MarkDirty, FlushNow, flushVars, countVars, pgVars
  <2>2. \A v \in Writes : call[v] \notin {"no", "dirty"} => call'[v] \notin {"no", "dirty"}
    BY <1>4, <1>5 DEF MarkDirty, FlushNow
  <2> QED BY <1>a, <2>1, <2>2
<1>6. ASSUME NEW w \in Writes, Enqueue(w) PROVE OrderInv'
  BY <1>0, <1>2, <1>6, OrderEnqueue
<1>7. CASE Drain
  BY <1>0, <1>2, <1>3, <1>7, OrderDrain
<1>8. CASE SendOk
  BY <1>0, <1>2, <1>3, <1>8, OrderSend
<1>9. CASE SendRefused \/ SendBroken
  <2>1. UNCHANGED <<call, queue, log, applied, stored, orphans, flushed>> /\ RetryOrGiveUp
    BY <1>3, <1>9 DEF SendRefused, SendBroken, callVars, pgVars
  <2>2. (batch' = batch /\ failed' = failed) \/ (batch' = {} /\ failed' = failed \cup batch)
    BY <2>1 DEF RetryOrGiveUp
  <2> QED BY <1>a, <2>1, <2>2
<1>10. CASE EndBatch
  <2>1. UNCHANGED <<queue, log, applied, stored, orphans, flushed, batch, failed>>
    BY <1>10 DEF EndBatch, countVars, pgVars
  <2>2. \A v \in Writes : call[v] \notin {"no", "dirty"} => call'[v] \notin {"no", "dirty"}
    BY <1>4, <1>10 DEF EndBatch
  <2> QED BY <1>a, <2>1, <2>2
<1>11. CASE Exit \/ Rebalance \/ Stop \/ UNCHANGED vars
  <2>1. UNCHANGED <<call, queue, log, applied, stored, orphans, flushed, batch, failed>>
    BY <1>11 DEF Exit, Rebalance, Stop, vars, callVars, flushVars, countVars, pgVars
  <2> QED BY <1>a, <2>1
<1> QED BY <1>3, <1>5, <1>6, <1>7, <1>8, <1>9, <1>10, <1>11 DEF Next, Flusher, Caller

\* For any rows, keys, versions and batch sizes: when everything is flushed and no
\* connection has broken, the last row of a key has been sent, and PostgreSQL has
\* of the rows sent the last one of the highest version (flusher_loop()'s
\* coalescing, build_insert_sql()'s upsert and version guard).
THEOREM LastWriteWins == Spec => []StateLastWriteWins
<1> DEFINE Inv == BatchIdle /\ (Ordered => OrderInv)
<1>1. Init => Inv
  <2> SUFFICES ASSUME Init PROVE Inv
    OBVIOUS
  <2>1. /\ Len(log) = 0 /\ Len(queue) = 0 /\ batch = {} /\ flushed = {} /\ orphans = {}
        /\ stored = [k \in Keys |-> None] /\ applied = [w \in Writes |-> 0] /\ fpc = "wait"
    BY DEF Init
  <2>2. Positions = {} /\ Sent = {} /\ Enqueued = {}
    BY <2>1, SMTT(60) DEF Init, Positions, Sent, Enqueued
  <2>3. PlaceInv
    BY <2>1, <2>2, SMTT(30) DEF PlaceInv
  <2>4. SentInv /\ BatchInv /\ StoredInv
    BY <2>1, <2>2 DEF SentInv, BatchInv, StoredInv
  <2> QED BY <2>1, <2>3, <2>4 DEF OrderInv, BatchIdle
<1>2. TypeOK /\ Inv /\ [Next]_vars => Inv'
  BY IdleStep, OrderStep
<1>3. TypeOK /\ Inv => StateLastWriteWins
  <2> SUFFICES ASSUME TypeOK, OrderInv, Settled, NEW i \in Positions
               PROVE  /\ (\A j \in Positions : j > i => Key[log[j]] # Key[log[i]]) => applied[log[i]] > 0
                      /\ applied[log[i]] > 0 /\ (\A j \in Positions : ~Beats(j, i))
                            => stored[Key[log[i]]] = log[i]
    BY LogType DEF StateLastWriteWins, Ordered, Settled
  <2>0. \A j \in Positions : log[j] \in Writes /\ j \in Nat /\ Key[log[j]] \in Keys /\ Version[log[j]] \in Nat
    BY LogType, BatchAssumption, SMTT(30) DEF Positions
  <2>1. ASSUME \A j \in Positions : j > i => Key[log[j]] # Key[log[i]] PROVE applied[log[i]] > 0
    <3>1. InQueue = {} /\ batch = {} /\ failed = {}
      BY SMTT(60) DEF Settled, InQueue
    <3>2. log[i] \in flushed
      BY <2>1, <3>1 DEF OrderInv, BatchInv
    <3> QED BY <3>2 DEF OrderInv, BatchInv, Sent
  <2>2. ASSUME applied[log[i]] > 0, \A j \in Positions : ~Beats(j, i) PROVE stored[Key[log[i]]] = log[i]
    <3>1. log[i] \in Sent /\ stored[Key[log[i]]] # None
      BY <2>0, <2>2 DEF OrderInv, StoredInv, Sent
    <3>2. stored[Key[log[i]]] \in Sent /\ Key[stored[Key[log[i]]]] = Key[log[i]]
      BY <2>0, <3>1 DEF OrderInv, StoredInv
    <3>3. PICK m \in Positions : stored[Key[log[i]]] = log[m]
      BY <3>2, LogType DEF OrderInv, SentInv
    <3>4. /\ ~Guarded => i <= m
          /\ Guarded => Version[log[i]] <= Version[log[m]]
          /\ Version[log[i]] = Version[log[m]] => i <= m
      BY <3>1, <3>3 DEF OrderInv, StoredInv
    <3>5. /\ ~(m > i /\ (~Guarded \/ Version[log[m]] = Version[log[i]]))
          /\ ~(Guarded /\ Version[log[m]] > Version[log[i]])
      <4>1. Key[log[m]] = Key[log[i]] /\ applied[log[m]] > 0 /\ ~Beats(m, i)
        BY <2>2, <3>2, <3>3 DEF Sent
      <4> QED BY <4>1 DEF Beats, Guarded
    <3>6. i = m
      BY <2>0, <3>4, <3>5, SMTT(30)
    <3> QED BY <3>3, <3>6
  <2> QED BY <2>1, <2>2
<1> QED BY <1>1, <1>2, <1>3, TypeInit, TypeStep, PTL DEF Spec

=============================================================================
