-------------------------- MODULE QueryCacheProofs --------------------------
(***************************************************************************)
(* QueryCache for any number of threads, keys, slots and calls.  CacheInv  *)
(* says what each thread holds at its place and where an entry may lie;    *)
(* every theorem rests on it.  Then, each with one lemma per kind of step: *)
(* the counters, the index of keys, and what an invalidation leaves.       *)
(***************************************************************************)
EXTENDS QueryCache, FiniteSetTheorems, WellFoundedInduction, TLAPS

\* A step is first-order unless it names the SMT solver.
USE ZenonT(30)

-----------------------------------------------------------------------------
(* The probe and the order of use *)

LruOK == lru \in [Slots -> Slots] /\ \A i \in Slots : \E n \in Slots : lru[n] = i

LEMMA MinIn ==
    ASSUME NEW S \in SUBSET Nat, S # {}
    PROVE  Min(S) \in S
<1>1. PICK x \in S : \A y \in S : ~(<<y, x>> \in OpToRel(<, Nat))
  BY NatLessThanWellFounded, WFMin
<1>2. \A y \in S : ~(y < x)
  BY <1>1 DEF OpToRel
<1>3. \A y \in S : x <= y
  BY <1>2, SMTT(60)
<1> QED BY <1>3 DEF Min

LEMMA SlotFacts == NSlots \in Nat \ {0} /\ 0 \notin Slots /\ NSlots \in Slots /\ IsFiniteSet(Slots)
BY QueryAssumption, FS_Interval, SMTT(60) DEF Slots

LEMMA ProbeSlots ==
    ASSUME NEW k \in Keys
    PROVE  Range(Probe(k)) \in SUBSET Slots /\ Range(Probe(k)) # {}
<1>1. Home[k] \in 1 .. NSlots /\ ProbeRange \in Nat \ {0} /\ NSlots \in Nat \ {0}
  BY QueryAssumption DEF Slots
<1>2. \A n \in 1 .. ProbeRange : Home[k] + n - 2 \in Nat
  BY <1>1, SMTT(60)
<1>3. \A a \in Nat : (a % NSlots) + 1 \in 1 .. NSlots
  BY <1>1, SMTT(60)
<1>4. \A n \in 1 .. ProbeRange : Probe(k)[n] \in Slots
  BY <1>2, <1>3 DEF Probe, Slots
<1>5. 1 \in 1 .. ProbeRange
  BY <1>1, SMTT(60)
<1> QED BY <1>4, <1>5 DEF Range, Probe

\* What a probe for S finds is on the probe and in S, and it finds something if
\* there is anything.
LEMMA FirstFacts ==
    ASSUME NEW k, NEW S \in SUBSET Slots
    PROVE  /\ First(k, S) # 0 => First(k, S) \in S /\ First(k, S) \in Range(Probe(k))
           /\ (\E i \in S : i \in Range(Probe(k))) => First(k, S) # 0
<1> DEFINE found == {n \in 1 .. ProbeRange : Probe(k)[n] \in S}
<1>0. ProbeRange \in Nat
  BY QueryAssumption
<1>1. found \in SUBSET Nat /\ DOMAIN Probe(k) = 1 .. ProbeRange
  BY <1>0, SMTT(60) DEF Probe
<1>2. First(k, S) = IF found = {} THEN 0 ELSE Probe(k)[Min(found)]
  BY DEF First
<1>3. found # {} => Min(found) \in found
  BY <1>1, MinIn
<1>4. found # {} => First(k, S) \in S /\ First(k, S) \in Range(Probe(k))
  BY <1>1, <1>2, <1>3 DEF Range
<1>5. (\E i \in S : i \in Range(Probe(k))) => found # {}
  BY <1>1 DEF Range
<1> QED BY <1>2, <1>4, <1>5, SlotFacts

LEMMA OldestIn ==
    ASSUME LruOK, NEW S \in SUBSET Slots, S # {}
    PROVE  Oldest(S) \in S
<1> DEFINE places == {n \in Slots : lru[n] \in S}
<1>1. places \in SUBSET Nat /\ places # {}
  <2>1. Slots \subseteq Nat
    BY SMTT(60) DEF Slots
  <2>2. PICK i \in S : i \in Slots
    OBVIOUS
  <2>3. PICK n \in Slots : lru[n] = i
    BY DEF LruOK
  <2> QED BY <2>1, <2>3
<1>2. Min(places) \in places
  BY <1>1, MinIn
<1> QED BY <1>2 DEF Oldest

\* A slot that is used comes last, and none is lost.
LEMMA TouchOK ==
    ASSUME LruOK, NEW i \in Slots, Touch(i)
    PROVE  LruOK'
<1> DEFINE p == CHOOSE n \in Slots : lru[n] = i
<1>1. p \in Slots /\ lru[p] = i
  BY DEF LruOK
<1>2. lru' = [n \in Slots |-> IF n < p THEN lru[n] ELSE IF n < NSlots THEN lru[n + 1] ELSE i]
  BY DEF Touch
<1> HIDE DEF p
<1>3. lru' \in [Slots -> Slots]
  <2>1. \A n \in Slots : n < NSlots => n + 1 \in Slots
    BY SlotFacts, SMTT(60) DEF Slots
  <2>2. \A n \in Slots : lru[n] \in Slots
    BY DEF LruOK
  <2> QED BY <1>2, <2>1, <2>2
<1>4. ASSUME NEW j \in Slots PROVE \E n \in Slots : lru'[n] = j
  <2>1. CASE j = i
    <3>1. lru'[NSlots] = i
      BY <1>1, <1>2, SlotFacts, SMTT(60) DEF Slots
    <3> QED BY <2>1, <3>1, SlotFacts
  <2>2. CASE j # i
    <3>1. PICK n \in Slots : lru[n] = j
      BY DEF LruOK
    <3>2. CASE n < p
      BY <1>2, <3>1, <3>2
    <3>3. CASE ~(n < p)
      <4>1. n - 1 \in Slots /\ ~(n - 1 < p) /\ n - 1 < NSlots /\ (n - 1) + 1 = n
        BY <1>1, <2>2, <3>1, <3>3, SlotFacts, SMTT(60) DEF Slots
      <4>2. lru'[n - 1] = lru[n]
        BY <1>2, <4>1
      <4> QED BY <3>1, <4>1, <4>2
    <3> QED BY <3>2, <3>3
  <2> QED BY <2>1, <2>2
<1> QED BY <1>3, <1>4 DEF LruOK

\* put() always has a slot, on the probe of its key.
LEMMA TargetFacts ==
    ASSUME LruOK, NEW k \in Keys
    PROVE  Target(k) \in Slots /\ Target(k) \in Range(Probe(k))
<1> DEFINE probe == Range(Probe(k))
<1>1. probe \in SUBSET Slots /\ probe # {}
  BY ProbeSlots
<1>2. Oldest(probe) \in probe
  BY <1>1, OldestIn
<1>3. \A S \in SUBSET Slots : First(k, S) # 0 => First(k, S) \in probe
  BY FirstFacts
<1>4. Holding(k) \in SUBSET Slots /\ Empty \in SUBSET Slots /\ Slots \ Dirty \in SUBSET Slots
  BY DEF Holding, Empty
<1>5. Target(k) \in probe
  BY <1>2, <1>3, <1>4 DEF Target
<1> QED BY <1>1, <1>5

-----------------------------------------------------------------------------
(* Threads and slots *)

\* Where a thread is, and what its locals hold by then.
ThreadOK(t) ==
    /\ pc[t] = "idle" => loc[t] = Local
    /\ pc[t] # "inv" => \A k \in Keys : loc[t].todo[k] = 0
    /\ pc[t] \in {"scan", "write", "tag"} => loc[t].key \in Keys /\ loc[t].table = Tag[loc[t].key]
    /\ pc[t] = "write" => loc[t].at \in Range(Probe(loc[t].key))
    /\ pc[t] = "evict" => loc[t].at \in Slots
    /\ pc[t] \in {"pop", "inv", "enqueue"} => loc[t].table \in Tables
    /\ pc[t] \in {"scan", "write", "tag", "pop", "inv"} => loc[t].val <= pg[loc[t].table]

\* An entry is of its key's table and on its key's probe.
SlotOK(i) == slots[i] # None => slots[i].table = Tag[slots[i].key] /\ i \in Range(Probe(slots[i].key))

CacheInv ==
    /\ slots \in [Slots -> Entry \cup {None}] /\ LruOK
    /\ pc \in [Threads -> Labels] /\ loc \in [Threads -> Locals] /\ tags \in [Keys -> Nat]
    /\ pg \in [Tables -> Nat] /\ floor \in [Tables -> Nat]
    /\ \A i \in Slots : SlotOK(i)
    /\ \A t \in Threads : ThreadOK(t)

LEMMA LocalType == Local \in Locals /\ \A k \in Keys : Local.todo[k] = 0
BY QueryAssumption, SlotFacts, SMTT(60) DEF Local, Locals

LEMMA CacheInit == Init => CacheInv
<1> SUFFICES ASSUME Init PROVE CacheInv
  OBVIOUS
<1>1. LruOK
  BY DEF Init, LruOK
<1>2. \A t \in Threads : pc[t] = "idle" /\ loc[t] = Local
  BY DEF Init
<1>3. \A t \in Threads : ThreadOK(t)
  BY <1>2, LocalType DEF ThreadOK
<1> QED BY <1>1, <1>2, <1>3, LocalType DEF Init, CacheInv, SlotOK, Labels

\* A step of one thread, or of none, that leaves the slots alone.
LEMMA ThreadFrame ==
    ASSUME CacheInv, NEW t \in Threads, NEW l \in Labels, NEW r \in Locals,
           pc' = [pc EXCEPT ![t] = l], loc' = [loc EXCEPT ![t] = r],
           pg' \in [Tables -> Nat], \A tb \in Tables : pg[tb] <= pg'[tb], ThreadOK(t)'
    PROVE  /\ pc' \in [Threads -> Labels] /\ loc' \in [Threads -> Locals]
           /\ \A u \in Threads : ThreadOK(u)'
<1>1. pc' \in [Threads -> Labels] /\ loc' \in [Threads -> Locals]
  BY DEF CacheInv
<1>2. ASSUME NEW u \in Threads, u # t PROVE ThreadOK(u)'
  <2>1. pc'[u] = pc[u] /\ loc'[u] = loc[u] /\ ThreadOK(u) /\ loc[u] \in Locals
    BY <1>2 DEF CacheInv
  <2>2. pc[u] \in {"scan", "write", "tag", "pop", "inv"} => loc[u].table \in Tables
    BY <2>1, QueryAssumption DEF ThreadOK
  <2>3. pc[u] \in {"scan", "write", "tag", "pop", "inv"} => loc[u].val <= pg'[loc[u].table]
    BY <2>1, <2>2, SMTT(60) DEF ThreadOK, CacheInv, Locals
  <2> QED BY <2>1, <2>3 DEF ThreadOK, Probe
<1> QED BY <1>1, <1>2

\* No thread moves.
LEMMA ThreadsStay ==
    ASSUME CacheInv, UNCHANGED <<pc, loc>>,
           pg' \in [Tables -> Nat], \A tb \in Tables : pg[tb] <= pg'[tb]
    PROVE  /\ pc' \in [Threads -> Labels] /\ loc' \in [Threads -> Locals]
           /\ \A u \in Threads : ThreadOK(u)'
<1>1. ASSUME NEW u \in Threads PROVE ThreadOK(u)'
  <2>1. pc'[u] = pc[u] /\ loc'[u] = loc[u] /\ ThreadOK(u) /\ loc[u] \in Locals
    BY DEF CacheInv
  <2>2. pc[u] \in {"scan", "write", "tag", "pop", "inv"} => loc[u].table \in Tables
    BY <2>1, QueryAssumption DEF ThreadOK
  <2>3. pc[u] \in {"scan", "write", "tag", "pop", "inv"} => loc[u].val <= pg'[loc[u].table]
    BY <2>1, <2>2, SMTT(60) DEF ThreadOK, CacheInv, Locals
  <2> QED BY <2>1, <2>3 DEF ThreadOK, Probe
<1> QED BY <1>1 DEF CacheInv

\* One slot is emptied, or filled with an entry on its probe, or none changes.
LEMMA SlotsFrame ==
    ASSUME CacheInv, NEW i \in Slots, NEW e \in Entry \cup {None},
           slots' = [slots EXCEPT ![i] = e] \/ slots' = slots,
           e # None => e.table = Tag[e.key] /\ i \in Range(Probe(e.key))
    PROVE  slots' \in [Slots -> Entry \cup {None}] /\ \A j \in Slots : SlotOK(j)'
<1>1. slots' \in [Slots -> Entry \cup {None}]
  BY DEF CacheInv
<1>2. ASSUME NEW j \in Slots PROVE SlotOK(j)'
  <2>1. SlotOK(j) /\ (slots'[j] = slots[j] \/ (j = i /\ slots'[j] = e))
    BY DEF CacheInv
  <2> QED BY <2>1 DEF SlotOK, Probe
<1> QED BY <1>1, <1>2

\* The calls that find something change nothing but orders of use; those of
\* other parties, nothing but the database and the batch writer.
LEMMA CacheStays ==
    ASSUME CacheInv, UNCHANGED <<slots, tags, pc, loc, floor>>, LruOK',
           pg' \in [Tables -> Nat], \A tb \in Tables : pg[tb] <= pg'[tb]
    PROVE  CacheInv'
<1>1. \A i \in Slots : SlotOK(i)'
  BY DEF CacheInv, SlotOK, Probe
<1> QED BY <1>1, ThreadsStay DEF CacheInv

LEMMA CacheTypes ==
    ASSUME CacheInv
    PROVE  /\ slots \in [Slots -> Entry \cup {None}] /\ LruOK
           /\ pc \in [Threads -> Labels] /\ loc \in [Threads -> Locals] /\ tags \in [Keys -> Nat]
           /\ pg \in [Tables -> Nat] /\ floor \in [Tables -> Nat]
           /\ \A tb \in Tables : pg[tb] <= pg[tb]
BY SMTT(60) DEF CacheInv

LEMMA FindFacts ==
    ASSUME CacheInv, NEW k, Find(k) # 0
    PROVE  Find(k) \in Slots /\ slots[Find(k)] # None /\ slots[Find(k)].key = k
<1> DEFINE i == First(k, Empty \cup Holding(k))
<1>1. Empty \cup Holding(k) \in SUBSET Slots
  BY DEF Empty, Holding
<1>2. i # 0 /\ slots[i] # None /\ Find(k) = i
  BY DEF Find
<1>3. i \in Empty \cup Holding(k)
  BY <1>1, <1>2, FirstFacts
<1> QED BY <1>2, <1>3 DEF Empty, Holding

\* Reads, and what happens in the database and in the batch writer.
LEMMA CacheStayers ==
    ASSUME CacheInv,
           \/ \E t \in Workers, k \in Keys : ReadL1(t, k) \/ ReadL2(t, k)
           \/ \E tb \in Tables : RemoteCommit(tb) \/ Flush(tb) \/ Flushed(tb)
           \/ UNCHANGED vars
    PROVE  CacheInv'
<1> USE CacheTypes
<1>1. ASSUME NEW t \in Workers, NEW k \in Keys, ReadL1(t, k) PROVE CacheInv'
  BY <1>1, CacheStays DEF ReadL1, shared, db, LruOK
<1>2. ASSUME NEW t \in Workers, NEW k \in Keys, ReadL2(t, k) PROVE CacheInv'
  <2>1. LruOK'
    BY <1>2, FindFacts, TouchOK DEF ReadL2
  <2> QED BY <1>2, <2>1, CacheStays DEF ReadL2, db
<1>3. ASSUME NEW tb \in Tables, pg' \in {pg, [pg EXCEPT ![tb] = @ + 1]},
             UNCHANGED <<slots, tags, pc, loc, floor, lru>>
      PROVE  CacheInv'
  <2>1. pg' \in [Tables -> Nat] /\ \A x \in Tables : pg[x] <= pg'[x]
    BY <1>3, SMTT(60)
  <2> QED BY <1>3, <2>1, CacheStays DEF LruOK
<1>4. ASSUME NEW tb \in Tables, RemoteCommit(tb) \/ Flush(tb) \/ Flushed(tb) PROVE CacheInv'
  BY <1>3, <1>4 DEF RemoteCommit, Flush, Flushed, shared
<1>5. CASE UNCHANGED vars
  BY <1>5, CacheStays DEF vars, shared, db, LruOK
<1> QED BY <1>1, <1>2, <1>4, <1>5

\* A thread moves on, and at most one slot changes.
LEMMA CacheMoves ==
    ASSUME CacheInv, NEW t \in Threads, NEW l \in Labels, NEW r \in Locals,
           pc' = [pc EXCEPT ![t] = l], loc' = [loc EXCEPT ![t] = r],
           pg' \in [Tables -> Nat], \A tb \in Tables : pg[tb] <= pg'[tb], ThreadOK(t)',
           NEW i \in Slots, NEW e \in Entry \cup {None},
           slots' = [slots EXCEPT ![i] = e] \/ slots' = slots,
           e # None => e.table = Tag[e.key] /\ i \in Range(Probe(e.key)),
           tags' \in [Keys -> Nat], floor' \in [Tables -> Nat], LruOK'
    PROVE  CacheInv'
BY ThreadFrame, SlotsFrame DEF CacheInv

\* The same with all slots as they were.
LEMMA ThreadMoves ==
    ASSUME CacheInv, NEW t \in Threads, NEW l \in Labels, NEW r \in Locals,
           pc' = [pc EXCEPT ![t] = l], loc' = [loc EXCEPT ![t] = r],
           pg' \in [Tables -> Nat], \A tb \in Tables : pg[tb] <= pg'[tb], ThreadOK(t)',
           UNCHANGED <<slots, lru>>, tags' \in [Keys -> Nat], floor' \in [Tables -> Nat]
    PROVE  CacheInv'
<1>1. \A i \in Slots : SlotOK(i)'
  BY DEF CacheInv, SlotOK, Probe
<1> QED BY <1>1, ThreadFrame DEF CacheInv, LruOK

LEMMA DoneFacts ==
    ASSUME NEW t \in Threads, CacheInv, Done(t)
    PROVE  /\ pc' = [pc EXCEPT ![t] = "idle"] /\ loc' = [loc EXCEPT ![t] = Local]
           /\ Local \in Locals /\ "idle" \in Labels /\ ThreadOK(t)'
<1>1. pc' = [pc EXCEPT ![t] = "idle"] /\ loc' = [loc EXCEPT ![t] = Local]
  BY DEF Done, Goto
<1>2. pc'[t] = "idle" /\ loc'[t] = Local
  BY <1>1 DEF CacheInv
<1> QED BY <1>1, <1>2, LocalType DEF ThreadOK, Labels

LEMMA QueryMoves ==
    ASSUME CacheInv, NEW t \in Workers, NEW k \in Keys, Query(t, k)
    PROVE  CacheInv'
<1> DEFINE r == [Local EXCEPT !.key = k, !.table = Tag[k], !.val = pg[Tag[k]]]
<1>0. t \in Threads /\ Tag[k] \in Tables
  BY QueryAssumption DEF Threads
<1>1. pc[t] = "idle" /\ loc[t] = Local
  BY <1>0 DEF Query, CacheInv, ThreadOK
<1>2. /\ pc' = [pc EXCEPT ![t] = "scan"] /\ loc' = [loc EXCEPT ![t] = r]
      /\ UNCHANGED <<slots, lru, tags, pg, floor>>
  BY <1>1, CacheTypes DEF Query, Goto, shared
<1>3. r \in Locals /\ r.key = k /\ r.table = Tag[k] /\ r.val = pg[Tag[k]]
      /\ pg[Tag[k]] \in Nat /\ \A j \in Keys : r.todo[j] = 0
  BY <1>0, CacheTypes, LocalType DEF Locals, Local
<1>4. pc'[t] = "scan" /\ loc'[t] = r
  BY <1>0, <1>2, CacheTypes
<1> HIDE DEF r
<1>5. ThreadOK(t)'
  BY <1>2, <1>3, <1>4, SMTT(60) DEF ThreadOK
<1> QED BY <1>0, <1>2, <1>3, <1>5, CacheTypes, ThreadMoves DEF Labels

LEMMA AtUpdate ==
    ASSUME NEW l \in Locals, NEW i \in Slots
    PROVE  LET r == [l EXCEPT !.at = i]
           IN  /\ r \in Locals /\ r.at = i
               /\ r.key = l.key /\ r.table = l.table /\ r.val = l.val /\ r.todo = l.todo
<1>1. i \in 0 .. NSlots
  BY SlotFacts, SMTT(60) DEF Slots
<1> QED BY <1>1 DEF Locals

LEMMA PutMoves ==
    ASSUME CacheInv, NEW t \in Threads, PutScan(t) \/ PutTag(t)
    PROVE  CacheInv'
<1> USE CacheTypes
<1>0. ThreadOK(t) /\ loc[t] \in Locals
  BY DEF CacheInv
<1>1. CASE PutScan(t)
  <2> DEFINE k == loc[t].key  r == [loc[t] EXCEPT !.at = Target(k)]
  <2>1. k \in Keys /\ Target(k) \in Slots /\ Target(k) \in Range(Probe(k))
    BY <1>0, <1>1, TargetFacts DEF PutScan, ThreadOK
  <2>2. /\ pc' = [pc EXCEPT ![t] = "write"] /\ loc' = [loc EXCEPT ![t] = r]
        /\ UNCHANGED <<slots, lru, tags, pg, floor>> /\ pc[t] = "scan"
    BY <1>1 DEF PutScan, Goto, shared, db
  <2>3. /\ r \in Locals /\ r.at = Target(k)
        /\ r.key = loc[t].key /\ r.table = loc[t].table /\ r.val = loc[t].val /\ r.todo = loc[t].todo
    BY <1>0, <2>1, AtUpdate
  <2>4. pc'[t] = "write" /\ loc'[t] = r
    BY <2>2
  <2> HIDE DEF r
  <2>5. ThreadOK(t)'
    BY <1>0, <2>1, <2>2, <2>3, <2>4 DEF ThreadOK, Probe
  <2> QED BY <2>2, <2>3, <2>5, ThreadMoves DEF Labels
<1>2. CASE PutTag(t)
  <2>1. /\ pc' = [pc EXCEPT ![t] = "quota"] /\ loc' = [loc EXCEPT ![t] = loc[t]]
        /\ UNCHANGED <<slots, lru, pg, floor>> /\ pc[t] = "tag"
        /\ tags' = [tags EXCEPT ![loc[t].key] = @ + 1]
    BY <1>2 DEF PutTag, Goto, shared, db
  <2>2. tags' \in [Keys -> Nat]
    <3>1. tags' = [tags EXCEPT ![loc[t].key] = @ + 1] /\ loc[t].key \in Keys
      BY <1>0, <2>1 DEF ThreadOK
    <3> QED BY ONLY <3>1, tags \in [Keys -> Nat], SMTT(60)
  <2>3. pc'[t] = "quota" /\ loc'[t] = loc[t]
    BY <2>1
  <2>4. ThreadOK(t)'
    BY <1>0, <2>1, <2>3 DEF ThreadOK
  <2> QED BY <1>0, <2>1, <2>2, <2>4, ThreadMoves DEF Labels
<1> QED BY <1>1, <1>2

LEMMA WriteFacts ==
    ASSUME CacheInv, NEW t \in Threads, PutWrite(t)
    PROVE  \E e \in Entry :
             /\ e.key = loc[t].key /\ e.table = loc[t].table /\ e.val = loc[t].val
             /\ loc[t].key \in Keys /\ loc[t].table = Tag[loc[t].key]
             /\ loc[t].at \in Slots /\ loc[t].at \in Range(Probe(loc[t].key))
             /\ slots' = [slots EXCEPT ![loc[t].at] = e] /\ UNCHANGED <<loc, tags, pg, floor, late>>
             /\ pc[t] = "write" /\ pc' = [pc EXCEPT ![t] = "tag"]
<1>0. ThreadOK(t) /\ loc[t] \in Locals /\ pc[t] = "write"
  BY DEF CacheInv, PutWrite
<1>1. loc[t].key \in Keys /\ loc[t].table = Tag[loc[t].key] /\ loc[t].at \in Range(Probe(loc[t].key))
  BY <1>0 DEF ThreadOK
<1>2. loc[t].at \in Slots /\ loc[t].table \in Tables /\ loc[t].val \in Nat
  BY <1>0, <1>1, ProbeSlots, QueryAssumption DEF Locals
<1> DEFINE e == [key |-> loc[t].key, table |-> loc[t].table, val |-> loc[t].val]
<1>3. e \in Entry /\ e.key = loc[t].key /\ e.table = loc[t].table /\ e.val = loc[t].val
  BY <1>1, <1>2 DEF Entry
<1>4. slots' = [slots EXCEPT ![loc[t].at] = e] /\ UNCHANGED <<loc, tags, pg, floor, late>>
      /\ pc' = [pc EXCEPT ![t] = "tag"]
  BY DEF PutWrite, Goto, db
<1> HIDE DEF e
<1> QED BY <1>0, <1>1, <1>2, <1>3, <1>4

LEMMA WriteMoves ==
    ASSUME CacheInv, NEW t \in Threads, PutWrite(t)
    PROVE  CacheInv'
<1> USE CacheTypes
<1>1. PICK e \in Entry :
        /\ e.key = loc[t].key /\ e.table = Tag[loc[t].key] /\ loc[t].at \in Slots
        /\ loc[t].at \in Range(Probe(loc[t].key)) /\ slots' = [slots EXCEPT ![loc[t].at] = e]
        /\ pc[t] = "write" /\ pc' = [pc EXCEPT ![t] = "tag"] /\ UNCHANGED <<loc, tags, pg, floor>>
  BY WriteFacts, SMTT(60)
<1>2. LruOK'
  BY <1>1, TouchOK DEF PutWrite
<1>3. pc'[t] = "tag" /\ loc'[t] = loc[t] /\ loc' = [loc EXCEPT ![t] = loc[t]] /\ loc[t] \in Locals
  BY <1>1
<1>4. ThreadOK(t)'
  BY <1>1, <1>3, SMTT(60) DEF ThreadOK, CacheInv
<1> QED BY <1>1, <1>2, <1>3, <1>4, CacheMoves DEF Labels

LEMMA QuotaMoves ==
    ASSUME CacheInv, NEW t \in Threads, PutQuota(t) \/ PutEvict(t)
    PROVE  CacheInv'
<1> USE CacheTypes
<1>0. ThreadOK(t) /\ loc[t] \in Locals
  BY DEF CacheInv
<1> DEFINE S == Slots \ (Empty \cup Dirty)  r == [loc[t] EXCEPT !.at = Oldest(S)]
<1>1. CASE PutQuota(t) /\ S # {} /\ loc' = [loc EXCEPT ![t].at = Oldest(S)] /\ Goto(t, "evict")
  <2>1. Oldest(S) \in Slots
    <3>1. LruOK /\ S \in SUBSET Slots /\ S # {}
      BY <1>1 DEF CacheInv
    <3>2. Oldest(S) \in S
      BY ONLY <3>1, OldestIn, ZenonT(30)
    <3> QED BY <3>1, <3>2
  <2>2. /\ pc' = [pc EXCEPT ![t] = "evict"] /\ loc' = [loc EXCEPT ![t] = r]
        /\ UNCHANGED <<slots, lru, tags, pg, floor>> /\ pc[t] = "quota"
    BY <1>1 DEF PutQuota, Goto, shared, db
  <2>3. /\ r \in Locals /\ r.at = Oldest(S) /\ r.todo = loc[t].todo
    BY <1>0, <2>1, AtUpdate
  <2>4. pc'[t] = "evict" /\ loc'[t] = r
    BY <2>2
  <2> HIDE DEF r, S
  <2>5. ThreadOK(t)'
    BY <1>0, <2>1, <2>2, <2>3, <2>4 DEF ThreadOK
  <2> QED BY <2>2, <2>3, <2>5, ThreadMoves DEF Labels
<1>2. CASE PutQuota(t) /\ Done(t)
  <2>1. UNCHANGED <<slots, lru, tags, pg, floor>>
    BY <1>2 DEF PutQuota, shared, db
  <2> QED BY <1>2, <2>1, DoneFacts, ThreadMoves
<1>3. CASE PutEvict(t)
  <2>1. /\ pc' = [pc EXCEPT ![t] = "quota"] /\ loc' = [loc EXCEPT ![t] = loc[t]]
        /\ UNCHANGED <<lru, tags, pg, floor>> /\ pc[t] = "evict"
    BY <1>3 DEF PutEvict, Goto, db
  <2>2. slots' = [slots EXCEPT ![loc[t].at] = None] \/ slots' = slots
    BY <1>3 DEF PutEvict, Clear
  <2>3. pc'[t] = "quota" /\ loc'[t] = loc[t] /\ loc[t].at \in Slots
    BY <1>0, <2>1 DEF ThreadOK
  <2>4. ThreadOK(t)'
    BY <1>0, <2>1, <2>3 DEF ThreadOK
  <2>5. LruOK'
    BY <2>1 DEF LruOK
  <2> QED BY <1>0, <2>1, <2>2, <2>3, <2>4, <2>5, CacheMoves DEF Labels
<1> QED BY <1>1, <1>2, <1>3 DEF PutQuota

LEMMA TableUpdate ==
    ASSUME NEW tb \in Tables, NEW n \in Nat
    PROVE  LET r == [Local EXCEPT !.table = tb, !.val = n]
               q == [Local EXCEPT !.table = tb]
           IN  /\ r \in Locals /\ r.table = tb /\ r.val = n /\ \A k \in Keys : r.todo[k] = 0
               /\ q \in Locals /\ q.table = tb /\ q.val = 0 /\ \A k \in Keys : q.todo[k] = 0
BY LocalType DEF Locals, Local

\* A change is committed or announced, a row written.
LEMMA ChangeMoves ==
    ASSUME CacheInv, NEW t \in Threads, NEW tb \in Tables,
           Commit(t, tb) \/ Write(t, tb) \/ (t = Listener /\ Notified(tb))
    PROVE  CacheInv'
<1> USE CacheTypes
<1>0. pc[t] = "idle" /\ loc[t] = Local
  BY DEF Commit, Write, Notified, CacheInv, ThreadOK
<1>1. CASE Commit(t, tb)
  <2> DEFINE r == [Local EXCEPT !.table = tb, !.val = pg[tb] + 1]
  <2>1. /\ pc' = [pc EXCEPT ![t] = "pop"] /\ loc' = [loc EXCEPT ![t] = r]
        /\ UNCHANGED <<slots, lru, tags, floor>> /\ pg' = [pg EXCEPT ![tb] = pg[tb] + 1]
    BY <1>0, <1>1 DEF Commit, Goto, shared
  <2>2. pg' \in [Tables -> Nat] /\ (\A x \in Tables : pg[x] <= pg'[x]) /\ pg'[tb] = pg[tb] + 1
    BY <2>1, SMTT(60)
  <2>3. pg[tb] + 1 \in Nat /\ pg[tb] + 1 <= pg'[tb]
    BY <2>2, SMTT(60)
  <2>4. r \in Locals /\ r.table = tb /\ r.val = pg[tb] + 1 /\ \A k \in Keys : r.todo[k] = 0
    <3> DEFINE n == pg[tb] + 1
    <3> HIDE DEF n
    <3>1. n \in Nat
      BY <2>3 DEF n
    <3> QED BY ONLY <3>1, tb \in Tables, TableUpdate, ZenonT(30) DEF n
  <2>5. pc'[t] = "pop" /\ loc'[t] = r
    BY <2>1
  <2> HIDE DEF r
  <2>6. ThreadOK(t)'
    BY <2>3, <2>4, <2>5 DEF ThreadOK
  <2> QED BY <2>1, <2>2, <2>4, <2>6, ThreadMoves DEF Labels
<1>2. ASSUME NEW l \in {"pop", "enqueue"}, pc' = [pc EXCEPT ![t] = l],
             loc' = [loc EXCEPT ![t] = [Local EXCEPT !.table = tb]],
             UNCHANGED <<slots, lru, tags, pg, floor>>
      PROVE  CacheInv'
  <2> DEFINE r == [Local EXCEPT !.table = tb]
  <2>1. r \in Locals /\ r.table = tb /\ r.val = 0 /\ \A k \in Keys : r.todo[k] = 0
    BY TableUpdate
  <2>2. pc'[t] = l /\ loc'[t] = r /\ 0 <= pg'[tb] /\ l \in Labels
    BY <1>2, SMTT(60) DEF Labels
  <2> HIDE DEF r
  <2>3. ThreadOK(t)'
    BY <2>1, <2>2 DEF ThreadOK
  <2> QED BY <1>2, <2>1, <2>2, <2>3, ThreadMoves DEF r
<1>3. CASE Write(t, tb)
  BY <1>0, <1>2, <1>3 DEF Write, Goto, shared
<1>4. CASE t = Listener /\ Notified(tb)
  BY <1>0, <1>2, <1>4 DEF Notified, Goto, shared
<1> QED BY <1>1, <1>3, <1>4

LEMMA EnqueueMoves ==
    ASSUME CacheInv, NEW t \in Threads, Enqueue(t)
    PROVE  CacheInv'
<1>1. Done(t) /\ UNCHANGED <<slots, lru, tags, pg, floor>>
  BY DEF Enqueue, shared
<1> QED BY <1>1, CacheTypes, DoneFacts, ThreadMoves

LEMMA SweepMoves ==
    ASSUME CacheInv, NEW i \in Slots, Sweep(i)
    PROVE  CacheInv'
<1>1. slots' = [slots EXCEPT ![i] = None] /\ UNCHANGED <<lru, tags, pg, floor, pc, loc>>
  BY DEF Sweep, Clear, db
<1>2. slots' \in [Slots -> Entry \cup {None}] /\ \A j \in Slots : SlotOK(j)'
  BY <1>1, SlotsFrame
<1>3. LruOK'
  BY <1>1, CacheTypes DEF LruOK
<1> QED BY <1>1, <1>2, <1>3, CacheTypes, ThreadsStay DEF CacheInv

\* invalidate_table() takes the list of the table, at once.
LEMMA PopFacts ==
    ASSUME CacheInv, NEW t \in Threads, InvPop(t)
    PROVE  \E r \in Locals :
             /\ pc[t] = "pop" /\ pc' = [pc EXCEPT ![t] = "inv"] /\ loc' = [loc EXCEPT ![t] = r]
             /\ r.key = loc[t].key /\ r.table = loc[t].table /\ r.val = loc[t].val
             /\ \A k \in Keys : r.todo[k] = IF Tag[k] = loc[t].table THEN tags[k] ELSE 0
             /\ tags' \in [Keys -> Nat]
             /\ \A k \in Keys : tags'[k] = IF Tag[k] = loc[t].table THEN 0 ELSE tags[k]
             /\ late' = late \cup {<<loc[u].key, loc[u].val>> : u \in Putting(loc[t].table)}
             /\ UNCHANGED <<slots, lru, bytes, pg, floor>>
<1> USE CacheTypes
<1> DEFINE f == [k \in Keys |-> IF Tag[k] = loc[t].table THEN tags[k] ELSE 0]
           r == [loc[t] EXCEPT !.todo = f]
<1>1. /\ pc[t] = "pop" /\ pc' = [pc EXCEPT ![t] = "inv"] /\ loc' = [loc EXCEPT ![t] = r]
      /\ UNCHANGED <<slots, lru, bytes, pg, floor>>
      /\ late' = late \cup {<<loc[u].key, loc[u].val>> : u \in Putting(loc[t].table)}
  BY DEF InvPop, Goto, db
<1>2. tags' = [k \in Keys |-> tags[k] - (IF Tag[k] = loc[t].table THEN tags[k] ELSE 0)]
  BY DEF InvPop
<1>3. tags' \in [Keys -> Nat] /\ \A k \in Keys : tags'[k] = IF Tag[k] = loc[t].table THEN 0 ELSE tags[k]
  <2>1. \A n \in Nat : n - n = 0 /\ n - 0 = n
    BY SMTT(60)
  <2> QED BY <1>2, <2>1, SMTT(60)
<1>4. f \in [Keys -> Nat] /\ \A k \in Keys : f[k] = IF Tag[k] = loc[t].table THEN tags[k] ELSE 0
  OBVIOUS
<1> HIDE DEF f
<1>5. r \in Locals /\ r.key = loc[t].key /\ r.table = loc[t].table /\ r.val = loc[t].val /\ r.todo = f
  BY <1>4 DEF Locals
<1> HIDE DEF r
<1> QED BY <1>1, <1>3, <1>4, <1>5

\* One look for a key: a slot of it is emptied, or there was none.
LEMMA InvKeyFacts ==
    ASSUME CacheInv, NEW t \in Threads, NEW k \in Keys, InvKey(t, k)
    PROVE  \E r \in Locals :
             /\ pc[t] = "inv" /\ loc[t].todo[k] \in Nat \ {0} /\ loc' = [loc EXCEPT ![t] = r]
             /\ r.key = loc[t].key /\ r.table = loc[t].table /\ r.val = loc[t].val
             /\ r.todo[k] = loc[t].todo[k] - 1 /\ \A j \in Keys \ {k} : r.todo[j] = loc[t].todo[j]
             /\ UNCHANGED <<lru, tags, pg, floor, pc>> /\ late \subseteq late'
             /\ \/ Holding(k) = {} /\ UNCHANGED <<slots, bytes>>
                \/ \E i \in Holding(k) :
                     /\ Clear(i)
                     /\ loc[t].todo[k] = 1 => \A j \in Holding(k) \ {i} : <<k, slots[j].val>> \in late'
<1> USE CacheTypes
<1> DEFINE i == First(k, Holding(k))  f == [loc[t].todo EXCEPT ![k] = @ - 1]  r == [loc[t] EXCEPT !.todo = f]
<1>1. pc[t] = "inv" /\ loc' = [loc EXCEPT ![t] = r] /\ UNCHANGED <<lru, tags, pg, floor, pc>>
  BY DEF InvKey, db
<1>2. loc[t].todo \in [Keys -> Nat]
  BY DEF Locals
<1>3. loc[t].todo[k] \in Nat \ {0}
  BY <1>2, SMTT(60) DEF InvKey
<1>4. f \in [Keys -> Nat] /\ f[k] = loc[t].todo[k] - 1 /\ \A j \in Keys \ {k} : f[j] = loc[t].todo[j]
  BY <1>2, <1>3, SMTT(60)
<1> HIDE DEF f
<1>5. r \in Locals /\ r.key = loc[t].key /\ r.table = loc[t].table /\ r.val = loc[t].val /\ r.todo = f
  BY <1>4 DEF Locals
<1> HIDE DEF r
<1>6. late \subseteq late' /\ (loc[t].todo[k] = 1 => \A j \in Holding(k) \ {i} : <<k, slots[j].val>> \in late')
  BY DEF InvKey
<1>7. Holding(k) \in SUBSET Slots /\ \A j \in Holding(k) : j \in Range(Probe(k))
  BY DEF Holding, CacheInv, SlotOK
<1>8. i = 0 => UNCHANGED <<slots, bytes>> /\ Holding(k) = {}
  BY <1>7, FirstFacts DEF InvKey
<1>9. i # 0 => Clear(i) /\ i \in Holding(k)
  BY <1>7, FirstFacts DEF InvKey
<1> HIDE DEF i
<1> QED BY <1>1, <1>3, <1>4, <1>5, <1>6, <1>8, <1>9

LEMMA AnswerFacts ==
    ASSUME CacheInv, NEW t \in Threads, InvL1(t)
    PROVE  /\ pc[t] = "inv" /\ loc[t].table \in Tables /\ loc[t].val \in Nat /\ Done(t)
           /\ UNCHANGED <<slots, lru, bytes, tags, pg, late>>
           /\ floor' \in [Tables -> Nat] /\ \A k \in Keys : loc[t].todo[k] = 0
           /\ \A tb \in Tables : floor'[tb] = floor[tb] \/ (tb = loc[t].table /\ floor'[tb] = loc[t].val)
<1>1. pc[t] = "inv" /\ Done(t) /\ UNCHANGED <<slots, lru, bytes, tags, pg, late>>
      /\ \A k \in Keys : loc[t].todo[k] = 0
  BY DEF InvL1, shared, db
<1>2. loc[t].table \in Tables /\ loc[t].val \in Nat /\ floor \in [Tables -> Nat]
  BY <1>1, CacheTypes DEF CacheInv, ThreadOK, Locals
<1>3. floor' = [floor EXCEPT ![loc[t].table] = IF loc[t].val > @ THEN loc[t].val ELSE @]
  BY DEF InvL1
<1>4. floor' \in [Tables -> Nat]
      /\ \A tb \in Tables : floor'[tb] = floor[tb] \/ (tb = loc[t].table /\ floor'[tb] = loc[t].val)
  <2> DEFINE tb == loc[t].table  v == loc[t].val
             w == IF v > floor[tb] THEN v ELSE floor[tb]
  <2>1. w \in Nat /\ w \in {v, floor[tb]}
    BY ONLY <1>2, SMTT(60)
  <2>2. floor' = [floor EXCEPT ![tb] = w]
    BY <1>3
  <2> HIDE DEF tb, v, w
  <2>3. floor' \in [Tables -> Nat] /\ \A x \in Tables : floor'[x] = IF x = tb THEN w ELSE floor[x]
    BY <1>2, <2>1, <2>2
  <2> QED BY <2>1, <2>3 DEF tb, v
<1> QED BY <1>1, <1>2, <1>4

LEMMA InvMoves ==
    ASSUME CacheInv, NEW t \in Threads, InvPop(t) \/ (\E k \in Keys : InvKey(t, k)) \/ InvL1(t)
    PROVE  CacheInv'
<1> USE CacheTypes
<1>0. ThreadOK(t) /\ loc[t] \in Locals
  BY DEF CacheInv
<1>1. CASE InvPop(t)
  <2>1. PICK r \in Locals :
          /\ pc[t] = "pop" /\ pc' = [pc EXCEPT ![t] = "inv"] /\ loc' = [loc EXCEPT ![t] = r]
          /\ r.table = loc[t].table /\ r.val = loc[t].val
          /\ tags' \in [Keys -> Nat] /\ UNCHANGED <<slots, lru, pg, floor>>
    BY <1>1, PopFacts, SMTT(60)
  <2>2. pc'[t] = "inv" /\ loc'[t] = r
    BY <2>1
  <2>3. ThreadOK(t)'
    BY <1>0, <2>1, <2>2 DEF ThreadOK
  <2> QED BY <2>1, <2>3, ThreadMoves DEF Labels
<1>2. ASSUME NEW k \in Keys, InvKey(t, k) PROVE CacheInv'
  <2>1. PICK r \in Locals :
          /\ pc[t] = "inv" /\ loc' = [loc EXCEPT ![t] = r] /\ r.table = loc[t].table /\ r.val = loc[t].val
          /\ UNCHANGED <<lru, tags, pg, floor, pc>> /\ (UNCHANGED slots \/ \E i \in Holding(k) : Clear(i))
    BY <1>2, InvKeyFacts, SMTT(60)
  <2>2. pc' = [pc EXCEPT ![t] = "inv"] /\ pc'[t] = "inv" /\ loc'[t] = r
    BY <2>1
  <2>3. ThreadOK(t)'
    BY <1>0, <2>1, <2>2 DEF ThreadOK
  <2>4. PICK i \in Slots : slots' = [slots EXCEPT ![i] = None] \/ slots' = slots
    BY <2>1, SlotFacts DEF Clear, Holding
  <2>5. LruOK'
    BY <2>1 DEF LruOK
  <2> QED BY <2>1, <2>2, <2>3, <2>4, <2>5, CacheMoves DEF Labels
<1>3. CASE InvL1(t)
  BY <1>3, AnswerFacts, DoneFacts, ThreadMoves, SMTT(60)
<1> QED BY <1>1, <1>2, <1>3

LEMMA CacheStep == CacheInv /\ [Next]_vars => CacheInv'
<1> SUFFICES ASSUME CacheInv, [Next]_vars PROVE CacheInv'
  OBVIOUS
<1>0. Workers \subseteq Threads /\ Listener \in Threads
  BY DEF Threads
<1>1. ASSUME NEW t \in Workers, Call(t) PROVE CacheInv'
  BY <1>0, <1>1, CacheStayers, QueryMoves, ChangeMoves DEF Call
<1>2. ASSUME NEW t \in Threads, Step(t) PROVE CacheInv'
  BY <1>2, PutMoves, WriteMoves, QuotaMoves, InvMoves, EnqueueMoves DEF Step
<1>3. ASSUME NEW tb \in Tables, RemoteCommit(tb) \/ Notified(tb) \/ Flush(tb) \/ Flushed(tb)
      PROVE  CacheInv'
  BY <1>0, <1>3, CacheStayers, ChangeMoves
<1>4. ASSUME NEW i \in Slots, Sweep(i) PROVE CacheInv'
  BY <1>4, SweepMoves
<1>5. CASE UNCHANGED vars
  BY <1>5, CacheStayers
<1> QED BY <1>1, <1>2, <1>3, <1>4, <1>5 DEF Next

LEMMA CacheInvariant == Spec => []CacheInv
BY CacheInit, CacheStep, PTL DEF Spec

-----------------------------------------------------------------------------
(* The counters *)

\* All that ever happens to a slot.
LEMMA SlotSteps ==
    ASSUME CacheInv, [Next]_vars
    PROVE  \/ UNCHANGED <<slots, bytes>>
           \/ \E i \in Slots \ Empty : Clear(i)
           \/ \E t \in Threads : PutWrite(t)
<1>1. ASSUME NEW t \in Workers, Call(t) PROVE UNCHANGED <<slots, bytes>>
  BY <1>1 DEF Call, ReadL1, ReadL2, Query, Commit, Write, shared
<1>2. ASSUME NEW t \in Threads, PutEvict(t)
      PROVE  UNCHANGED <<slots, bytes>> \/ \E i \in Slots \ Empty : Clear(i)
  <2>1. loc[t].at \in Slots
    BY <1>2 DEF PutEvict, CacheInv, ThreadOK
  <2> QED BY <1>2, <2>1 DEF PutEvict, Empty
<1>3. ASSUME NEW t \in Threads, NEW k \in Keys, InvKey(t, k)
      PROVE  UNCHANGED <<slots, bytes>> \/ \E i \in Slots \ Empty : Clear(i)
  BY <1>3, InvKeyFacts DEF Holding, Empty
<1>4. ASSUME NEW t \in Threads, Step(t)
      PROVE  \/ UNCHANGED <<slots, bytes>> \/ PutWrite(t)
             \/ \E i \in Slots \ Empty : Clear(i)
  BY <1>2, <1>3, <1>4 DEF Step, PutScan, PutTag, PutQuota, InvPop, InvL1, Enqueue, shared
<1>5. ASSUME NEW tb \in Tables, RemoteCommit(tb) \/ Notified(tb) \/ Flush(tb) \/ Flushed(tb)
      PROVE  UNCHANGED <<slots, bytes>>
  BY <1>5 DEF RemoteCommit, Notified, Flush, Flushed, shared
<1>6. ASSUME NEW i \in Slots, Sweep(i) PROVE i \in Slots \ Empty /\ Clear(i)
  BY <1>6 DEF Sweep
<1> QED BY <1>1, <1>4, <1>5, <1>6 DEF Next, vars, shared

LEMMA BytesStep ==
    ASSUME CacheInv, BytesExact, [Next]_vars
    PROVE  BytesExact'
<1> DEFINE F == Slots \ Empty
<1>0. slots \in [Slots -> Entry \cup {None}] /\ IsFiniteSet(F) /\ bytes = Cardinality(F)
  BY CacheTypes, SlotFacts, FS_Subset DEF BytesExact
<1>1. CASE UNCHANGED <<slots, bytes>>
  BY <1>1 DEF BytesExact, Empty
<1>2. ASSUME NEW i \in F, Clear(i) PROVE BytesExact'
  <2>1. Slots \ Empty' = F \ {i}
    BY <1>0, <1>2 DEF Clear, Empty
  <2>2. Cardinality(F \ {i}) = Cardinality(F) - 1
    BY <1>0, FS_RemoveElement
  <2> QED BY <1>0, <1>2, <2>1, <2>2 DEF BytesExact, Clear
<1>3. ASSUME NEW t \in Threads, PutWrite(t) PROVE BytesExact'
  <2> DEFINE i == loc[t].at
  <2>1. i \in Slots /\ \E e \in Entry : slots' = [slots EXCEPT ![i] = e]
    BY <1>3, WriteFacts
  <2>2. \A e \in Entry : e # None
    BY QueryAssumption
  <2>3. Slots \ Empty' = F \cup {i}
    BY <1>0, <2>1, <2>2 DEF Empty
  <2>4. Cardinality(F \cup {i}) = IF i \in F THEN Cardinality(F) ELSE Cardinality(F) + 1
    BY <1>0, FS_AddElement
  <2>5. bytes' = IF slots[i] = None THEN bytes + 1 ELSE bytes
    BY <1>3 DEF PutWrite
  <2> QED BY <1>0, <2>1, <2>3, <2>4, <2>5 DEF BytesExact, Empty
<1> QED BY <1>1, <1>2, <1>3, SlotSteps

\* The writes of a table that are marked and not yet queued.
Enqueuing(tb) == {t \in Threads : pc[t] = "enqueue" /\ loc[t].table = tb}

RowsInv ==
    /\ dirty \in [Tables -> Nat] /\ queue \in [Tables -> Nat] /\ flushing \in [Tables -> Nat]
    /\ notes \in [Tables -> Nat] /\ calls \in Nat /\ DirtyPerRow

LEMMA RowsFrame ==
    ASSUME RowsInv, UNCHANGED <<dirty, queue, flushing>>, notes' \in [Tables -> Nat],
           calls' \in Nat, \A tb \in Tables : Enqueuing(tb)' = Enqueuing(tb)
    PROVE  RowsInv'
BY DEF RowsInv, DirtyPerRow, Enqueuing

LEMMA EnqueuingSame ==
    ASSUME CacheInv, NEW t \in Threads, pc[t] # "enqueue", NEW l, l # "enqueue",
           pc' = [pc EXCEPT ![t] = l], \A u \in Threads \ {t} : loc'[u] = loc[u]
    PROVE  \A tb \in Tables : Enqueuing(tb)' = Enqueuing(tb)
BY CacheTypes DEF Enqueuing

LEMMA OthersStay ==
    ASSUME CacheInv, NEW t \in Threads, NEW r, loc' = [loc EXCEPT ![t] = r]
    PROVE  \A u \in Threads \ {t} : loc'[u] = loc[u]
BY CacheTypes

\* What neither marks, queues nor flushes a row.
LEMMA RowsStayers ==
    ASSUME CacheInv, RowsInv, NEW t \in Threads,
           \/ \E k \in Keys : Query(t, k) \/ InvKey(t, k)
           \/ \E tb \in Tables : Commit(t, tb)
           \/ \E tb \in Tables : t = Listener /\ Notified(tb)
           \/ PutScan(t) \/ PutWrite(t) \/ PutTag(t) \/ PutQuota(t) \/ PutEvict(t)
           \/ InvPop(t) \/ InvL1(t)
    PROVE  RowsInv'
<1> USE CacheTypes
<1>1. pc[t] # "enqueue" /\ \E l \in Labels \ {"enqueue"} : pc' = [pc EXCEPT ![t] = l]
  <2>1. CASE \E k \in Keys : InvKey(t, k)
    <3>1. pc[t] = "inv" /\ pc' = pc
      BY <2>1, InvKeyFacts
    <3>2. pc' = [pc EXCEPT ![t] = "inv"]
      BY <3>1
    <3> QED BY <3>1, <3>2 DEF Labels
  <2>2. CASE ~\E k \in Keys : InvKey(t, k)
    BY <2>2 DEF Query, Commit, Notified, PutScan, PutWrite, PutTag, PutQuota, PutEvict, InvPop, InvL1,
                Done, Goto, Labels
  <2> QED BY <2>1, <2>2
<1>2. loc' = loc \/ \E r : loc' = [loc EXCEPT ![t] = r]
  <2>1. CASE \E k \in Keys : InvKey(t, k)
    BY <2>1, InvKeyFacts, SMTT(60)
  <2>2. CASE InvPop(t)
    BY <2>2, PopFacts, SMTT(60)
  <2>3. CASE ~(InvPop(t) \/ \E k \in Keys : InvKey(t, k))
    BY <2>3 DEF Query, Commit, Notified, PutScan, PutWrite, PutTag, PutQuota, PutEvict, InvL1, Done
  <2> QED BY <2>1, <2>2, <2>3
<1>3. \A u \in Threads \ {t} : loc'[u] = loc[u]
  BY <1>2, OthersStay
<1>4. \A tb \in Tables : Enqueuing(tb)' = Enqueuing(tb)
  BY <1>1, <1>3, EnqueuingSame
<1>5. UNCHANGED <<dirty, queue, flushing>>
  BY DEF Query, Commit, Notified, PutScan, PutWrite, PutTag, PutQuota, PutEvict, InvPop, InvKey, InvL1, db
<1>6. notes' = notes \/ \E tb \in Tables : notes[tb] > 0 /\ notes' = [notes EXCEPT ![tb] = @ - 1]
  BY DEF Query, Commit, Notified, PutScan, PutWrite, PutTag, PutQuota, PutEvict, InvPop, InvKey, InvL1, db
<1>7. notes' \in [Tables -> Nat]
  BY ONLY <1>6, RowsInv, SMTT(60) DEF RowsInv
<1>8. calls' = calls \/ calls' = calls + 1
  BY DEF Query, Commit, Notified, PutScan, PutWrite, PutTag, PutQuota, PutEvict, InvPop, InvKey, InvL1, db, OneMoreCall
<1>9. calls' \in Nat
  BY ONLY <1>8, RowsInv, SMTT(60) DEF RowsInv
<1> QED BY <1>4, <1>5, <1>7, <1>9, RowsFrame

LEMMA RowsOthers ==
    ASSUME CacheInv, RowsInv,
           \/ \E t \in Workers, k \in Keys : ReadL1(t, k) \/ ReadL2(t, k)
           \/ \E tb \in Tables : RemoteCommit(tb)
           \/ \E i \in Slots : Sweep(i)
           \/ UNCHANGED vars
    PROVE  RowsInv'
<1>1. UNCHANGED <<dirty, queue, flushing, pc, loc>>
  BY DEF ReadL1, ReadL2, RemoteCommit, Sweep, vars, db
<1>2. notes' = notes \/ \E tb \in Tables : notes' = [notes EXCEPT ![tb] = @ + 1]
  BY DEF ReadL1, ReadL2, RemoteCommit, Sweep, vars, db
<1>3. calls' = calls \/ calls' = calls + 1
  BY DEF ReadL1, ReadL2, RemoteCommit, Sweep, vars, db, OneMoreCall
<1>4. notes' \in [Tables -> Nat] /\ calls' \in Nat
  BY ONLY <1>2, <1>3, RowsInv, SMTT(60) DEF RowsInv
<1> QED BY <1>1, <1>4, RowsFrame DEF Enqueuing

\* mark_dirty(), then the row enters the queue.
LEMMA RowsWrite ==
    ASSUME CacheInv, RowsInv, NEW t \in Threads, Enqueue(t) \/ \E tb \in Tables : Write(t, tb)
    PROVE  RowsInv'
<1> USE CacheTypes
<1>0. /\ dirty \in [Tables -> Nat] /\ queue \in [Tables -> Nat] /\ flushing \in [Tables -> Nat]
      /\ \A x \in Tables : /\ dirty[x] = queue[x] + flushing[x] + Cardinality(Enqueuing(x))
                           /\ IsFiniteSet(Enqueuing(x)) /\ Cardinality(Enqueuing(x)) \in Nat
  <2>1. IsFiniteSet(Threads)
    BY QueryAssumption, FS_AddElement DEF Threads
  <2>2. \A x \in Tables : IsFiniteSet(Enqueuing(x))
    BY <2>1, FS_Subset DEF Enqueuing
  <2> QED BY <2>2, FS_CardinalityType DEF RowsInv, DirtyPerRow, Enqueuing
<1>1. ASSUME NEW tb \in Tables, Write(t, tb) PROVE RowsInv'
  <2>1. /\ pc[t] = "idle" /\ pc' = [pc EXCEPT ![t] = "enqueue"] /\ loc' = [loc EXCEPT ![t].table = tb]
        /\ dirty' = [dirty EXCEPT ![tb] = @ + 1] /\ UNCHANGED <<queue, flushing, notes>>
    BY <1>1 DEF Write, Goto
  <2>2. loc'[t].table = tb /\ pc'[t] = "enqueue" /\ \A u \in Threads \ {t} : loc'[u] = loc[u] /\ pc'[u] = pc[u]
    BY <2>1 DEF Locals
  <2>3. /\ t \notin Enqueuing(tb) /\ Enqueuing(tb)' = Enqueuing(tb) \cup {t}
        /\ \A x \in Tables \ {tb} : Enqueuing(x)' = Enqueuing(x)
    BY <2>1, <2>2 DEF Enqueuing
  <2>4. Cardinality(Enqueuing(tb)') = Cardinality(Enqueuing(tb)) + 1
    <3>1. IsFiniteSet(Enqueuing(tb))
      BY <1>0
    <3> QED BY <2>3, <3>1, FS_AddElement
  <2>5. dirty' = [dirty EXCEPT ![tb] = @ + 1] /\ UNCHANGED <<queue, flushing, notes>>
    BY <2>1
  <2>6. dirty' \in [Tables -> Nat] /\ dirty'[tb] = dirty[tb] + 1 /\ \A x \in Tables \ {tb} : dirty'[x] = dirty[x]
    BY ONLY <1>0, <2>5, SMTT(60)
  <2>7. ASSUME NEW x \in Tables
        PROVE  dirty'[x] = queue'[x] + flushing'[x] + Cardinality(Enqueuing(x)')
    <3> DEFINE c == Cardinality(Enqueuing(x))  d == Cardinality(Enqueuing(x)')
    <3>1. d = IF x = tb THEN c + 1 ELSE c
      BY <2>3, <2>4
    <3>2. /\ dirty[x] = queue[x] + flushing[x] + c
          /\ dirty[x] \in Nat /\ queue[x] \in Nat /\ flushing[x] \in Nat /\ c \in Nat
      BY <1>0
    <3>3. flushing'[x] = flushing[x] /\ queue'[x] = queue[x] /\ dirty'[x] = IF x = tb THEN dirty[x] + 1 ELSE dirty[x]
      BY <2>5, <2>6
    <3> HIDE DEF c, d
    <3>4. dirty'[x] = queue'[x] + flushing'[x] + d
      BY ONLY <3>1, <3>2, <3>3, SMTT(60)
    <3> QED BY <3>4 DEF d
  <2>8. calls' \in Nat /\ notes' \in [Tables -> Nat]
    BY <1>1, SMTT(60) DEF Write, OneMoreCall, RowsInv
  <2> QED BY <1>0, <2>5, <2>6, <2>7, <2>8 DEF RowsInv, DirtyPerRow, Enqueuing
<1>2. CASE Enqueue(t)
  <2>0. PICK tb \in Tables : tb = loc[t].table
    BY <1>2 DEF Enqueue, CacheInv, ThreadOK
  <2>1. /\ pc[t] = "enqueue" /\ pc' = [pc EXCEPT ![t] = "idle"] /\ loc' = [loc EXCEPT ![t] = Local]
        /\ queue' = [queue EXCEPT ![tb] = @ + 1] /\ UNCHANGED <<dirty, flushing, notes, calls>>
    BY <1>2, <2>0 DEF Enqueue, Done, Goto
  <2>2. pc'[t] = "idle" /\ \A u \in Threads \ {t} : loc'[u] = loc[u] /\ pc'[u] = pc[u]
    BY <2>1 DEF CacheInv, ThreadOK
  <2>3. /\ t \in Enqueuing(tb) /\ Enqueuing(tb)' = Enqueuing(tb) \ {t}
        /\ \A x \in Tables \ {tb} : Enqueuing(x)' = Enqueuing(x)
    BY <2>0, <2>1, <2>2 DEF Enqueuing
  <2>4. Cardinality(Enqueuing(tb)') = Cardinality(Enqueuing(tb)) - 1
    <3>1. IsFiniteSet(Enqueuing(tb))
      BY <1>0
    <3> QED BY <2>3, <3>1, FS_RemoveElement
  <2>5. queue' = [queue EXCEPT ![tb] = @ + 1] /\ UNCHANGED <<dirty, flushing, notes, calls>>
    BY <2>1
  <2>6. queue' \in [Tables -> Nat] /\ queue'[tb] = queue[tb] + 1 /\ \A x \in Tables \ {tb} : queue'[x] = queue[x]
    BY ONLY <1>0, <2>5, SMTT(60)
  <2>7. ASSUME NEW x \in Tables
        PROVE  dirty'[x] = queue'[x] + flushing'[x] + Cardinality(Enqueuing(x)')
    <3> DEFINE c == Cardinality(Enqueuing(x))  d == Cardinality(Enqueuing(x)')
    <3>1. d = IF x = tb THEN c - 1 ELSE c
      BY <2>3, <2>4
    <3>2. /\ dirty[x] = queue[x] + flushing[x] + c
          /\ dirty[x] \in Nat /\ queue[x] \in Nat /\ flushing[x] \in Nat /\ c \in Nat
      BY <1>0
    <3>3. flushing'[x] = flushing[x] /\ dirty'[x] = dirty[x] /\ queue'[x] = IF x = tb THEN queue[x] + 1 ELSE queue[x]
      BY <2>5, <2>6
    <3> HIDE DEF c, d
    <3>4. dirty'[x] = queue'[x] + flushing'[x] + d
      BY ONLY <3>1, <3>2, <3>3, SMTT(60)
    <3> QED BY <3>4 DEF d
  <2> QED BY <1>0, <2>5, <2>6, <2>7 DEF RowsInv, DirtyPerRow, Enqueuing
<1> QED BY <1>1, <1>2

\* The rows go to the database, then the observer takes them off, all at once.
LEMMA RowsFlush ==
    ASSUME CacheInv, RowsInv, NEW tb \in Tables, Flush(tb) \/ Flushed(tb)
    PROVE  RowsInv'
<1>0. /\ dirty \in [Tables -> Nat] /\ queue \in [Tables -> Nat] /\ flushing \in [Tables -> Nat]
      /\ \A x \in Tables : /\ dirty[x] = queue[x] + flushing[x] + Cardinality(Enqueuing(x))
                           /\ Cardinality(Enqueuing(x)) \in Nat
  <2>1. IsFiniteSet(Threads)
    BY QueryAssumption, FS_AddElement DEF Threads
  <2>2. \A x \in Tables : IsFiniteSet(Enqueuing(x))
    BY <2>1, FS_Subset DEF Enqueuing
  <2> QED BY <2>2, FS_CardinalityType DEF RowsInv, DirtyPerRow, Enqueuing
<1>1. UNCHANGED <<notes, calls, pc, loc>>
  BY DEF Flush, Flushed
<1>2. \A x \in Tables : Enqueuing(x)' = Enqueuing(x)
  BY <1>1 DEF Enqueuing
<1>3. \/ /\ queue' = [queue EXCEPT ![tb] = 0] /\ flushing' = [flushing EXCEPT ![tb] = queue[tb]]
         /\ flushing[tb] = 0 /\ dirty' = dirty
      \/ /\ dirty' = [dirty EXCEPT ![tb] = IF @ > flushing[tb] THEN @ - flushing[tb] ELSE 0]
         /\ flushing' = [flushing EXCEPT ![tb] = 0] /\ queue' = queue
  BY DEF Flush, Flushed
<1>4. /\ queue' \in [Tables -> Nat] /\ flushing' \in [Tables -> Nat] /\ dirty' \in [Tables -> Nat]
      /\ \A x \in Tables \ {tb} : queue'[x] = queue[x] /\ flushing'[x] = flushing[x] /\ dirty'[x] = dirty[x]
      /\ \/ queue'[tb] = 0 /\ flushing'[tb] = queue[tb] /\ flushing[tb] = 0 /\ dirty'[tb] = dirty[tb]
         \/ /\ dirty'[tb] = IF dirty[tb] > flushing[tb] THEN dirty[tb] - flushing[tb] ELSE 0
            /\ flushing'[tb] = 0 /\ queue'[tb] = queue[tb]
  <2>1. \A a, b \in Nat : (IF a > b THEN a - b ELSE 0) \in Nat
    BY SMTT(60)
  <2> QED BY ONLY <1>0, <1>3, <2>1, tb \in Tables, SMTT(60)
<1>5. ASSUME NEW x \in Tables
      PROVE  dirty'[x] = queue'[x] + flushing'[x] + Cardinality(Enqueuing(x))
  <2> DEFINE c == Cardinality(Enqueuing(x))
  <2>1. /\ dirty[x] = queue[x] + flushing[x] + c
        /\ dirty[x] \in Nat /\ queue[x] \in Nat /\ flushing[x] \in Nat /\ c \in Nat
    BY <1>0
  <2> HIDE DEF c
  <2>2. dirty'[x] = queue'[x] + flushing'[x] + c
    <3>0. \A d, q, f, n \in Nat :
            d = q + f + n => /\ f = 0 => d = 0 + q + n
                             /\ (IF d > f THEN d - f ELSE 0) = q + 0 + n
      BY SMTT(60)
    <3>1. CASE x = tb
      BY ONLY <1>4, <2>1, <3>0, <3>1, SMTT(60)
    <3>2. CASE x # tb
      BY <1>4, <2>1, <3>2
    <3> QED BY <3>1, <3>2
  <2> QED BY <2>2 DEF c
<1> QED BY <1>1, <1>2, <1>4, <1>5 DEF RowsInv, DirtyPerRow, Enqueuing

LEMMA RowsStep ==
    ASSUME CacheInv, RowsInv, [Next]_vars
    PROVE  RowsInv'
<1>0. Workers \subseteq Threads /\ Listener \in Threads
  BY DEF Threads
<1>1. ASSUME NEW t \in Workers, Call(t) PROVE RowsInv'
  BY <1>0, <1>1, RowsOthers, RowsStayers, RowsWrite DEF Call
<1>2. ASSUME NEW t \in Threads, Step(t) PROVE RowsInv'
  BY <1>2, RowsStayers, RowsWrite DEF Step
<1>3. ASSUME NEW tb \in Tables, RemoteCommit(tb) \/ Notified(tb) \/ Flush(tb) \/ Flushed(tb)
      PROVE  RowsInv'
  BY <1>0, <1>3, RowsOthers, RowsStayers, RowsFlush
<1>4. CASE UNCHANGED vars \/ \E i \in Slots : Sweep(i)
  BY <1>4, RowsOthers
<1> QED BY <1>1, <1>2, <1>3, <1>4 DEF Next

L1OK == l1 \in [Threads -> Seq(Result)] /\ \A t \in Threads : Len(l1[t]) <= L1Cap

\* An L1 never outgrows its capacity: what is put in takes a place that is given up.
LEMMA PutL1OK ==
    ASSUME L1OK, NEW t \in Threads, NEW k \in Keys, NEW v \in Nat, PutL1(t, k, v)
    PROVE  L1OK'
<1> DEFINE s == l1[t]
           way == IF InL1(t, k) # {} THEN Min(InL1(t, k)) ELSE IF Len(s) < L1Cap THEN Len(s) + 1 ELSE 1
           last == IF way > Len(s) THEN way ELSE Len(s)
           f == [n \in 1 .. last |->
                  IF n = last THEN [key |-> k, val |-> v] ELSE IF n < way THEN s[n] ELSE s[n + 1]]
<1>0. /\ s \in Seq(Result) /\ Len(s) \in Nat /\ DOMAIN s = 1 .. Len(s)
      /\ Len(s) <= L1Cap /\ L1Cap \in Nat \ {0}
  BY QueryAssumption, SMTT(60) DEF L1OK
<1>1. InL1(t, k) \in SUBSET Nat /\ InL1(t, k) \subseteq 1 .. Len(s)
  BY <1>0, SMTT(60) DEF InL1
<1>2. InL1(t, k) # {} => Min(InL1(t, k)) \in 1 .. Len(s)
  BY <1>1, MinIn
<1>3. way \in Nat \ {0} /\ (way \in 1 .. Len(s) \/ (way = Len(s) + 1 /\ Len(s) < L1Cap))
  BY <1>0, <1>2, SMTT(60)
<1> HIDE DEF way
<1>4. /\ last \in Nat /\ last <= L1Cap
      /\ \A n \in 1 .. last : \/ n = last
                              \/ n < way /\ n \in 1 .. Len(s)
                              \/ ~(n < way) /\ n + 1 \in 1 .. Len(s)
  BY <1>0, <1>3, SMTT(60)
<1> HIDE DEF last
<1>5. [key |-> k, val |-> v] \in Result /\ \A n \in 1 .. Len(s) : s[n] \in Result
  <2>1. [key |-> k, val |-> v] \in Result
    BY DEF Result
  <2> QED BY <1>0, <2>1, SMTT(60)
<1>6. \A n \in 1 .. last : f[n] \in Result
  BY <1>4, <1>5
<1>7. f \in [1 .. last -> Result]
  BY <1>6
<1>8. l1' = [l1 EXCEPT ![t] = f]
  BY DEF PutL1, way, last
<1> HIDE DEF f
<1>9. f \in Seq(Result) /\ Len(f) = last
  BY <1>4, <1>7, SMTT(60)
<1> QED BY <1>4, <1>8, <1>9 DEF L1OK

LEMMA L1Step ==
    ASSUME CacheInv, L1OK, [Next]_vars
    PROVE  L1OK'
<1>0. Workers \subseteq Threads
  BY DEF Threads
<1>1. ASSUME NEW t \in Workers, NEW k \in Keys, ReadL1(t, k) PROVE L1OK'
  <2>1. InL1(t, k) # {} /\ InL1(t, k) \in SUBSET Nat /\ InL1(t, k) \subseteq DOMAIN l1[t]
        /\ l1[t] \in Seq(Result)
    BY <1>0, <1>1, SMTT(60) DEF ReadL1, InL1, L1OK
  <2>2. Min(InL1(t, k)) \in DOMAIN l1[t]
    BY <2>1, MinIn
  <2>3. l1[t][Min(InL1(t, k))].val \in Nat
    <3>1. l1[t][Min(InL1(t, k))] \in Result
      BY <2>1, <2>2, SMTT(60)
    <3> QED BY <3>1 DEF Result
  <2> QED BY <1>0, <1>1, <2>3, PutL1OK DEF ReadL1
<1>2. ASSUME NEW t \in Workers, NEW k \in Keys, ReadL2(t, k) PROVE L1OK'
  <2>1. slots[Find(k)] \in Entry
    BY <1>2, FindFacts, CacheTypes, SMTT(60) DEF ReadL2
  <2>2. slots[Find(k)].val \in Nat
    BY <2>1 DEF Entry
  <2> QED BY <1>0, <1>2, <2>2, PutL1OK DEF ReadL2
<1>3. ASSUME NEW t \in Threads, InvL1(t) PROVE L1OK'
  <2>1. l1' = [l1 EXCEPT ![t] = << >>] /\ 0 <= L1Cap
    BY <1>3, QueryAssumption, SMTT(60) DEF InvL1
  <2>2. << >> \in Seq(Result) /\ Len(<< >>) = 0
    BY SMTT(60)
  <2> QED BY <2>1, <2>2 DEF L1OK
<1>4. ASSUME l1' = l1 PROVE L1OK'
  BY <1>4 DEF L1OK
<1>5. ASSUME NEW t \in Workers, Call(t) PROVE L1OK'
  BY <1>1, <1>2, <1>4, <1>5 DEF Call, Query, Commit, Write
<1>6. ASSUME NEW t \in Threads, Step(t) PROVE L1OK'
  BY <1>3, <1>4, <1>6 DEF Step, PutScan, PutWrite, PutTag, PutQuota, PutEvict, InvPop, InvKey, Enqueue
<1>7. ASSUME NEW tb \in Tables, RemoteCommit(tb) \/ Notified(tb) \/ Flush(tb) \/ Flushed(tb)
      PROVE  L1OK'
  BY <1>4, <1>7 DEF RemoteCommit, Notified, Flush, Flushed
<1> QED BY <1>4, <1>5, <1>6, <1>7 DEF Next, vars, Sweep

CountersInv == CacheInv /\ BytesExact /\ RowsInv /\ L1OK

\* The bytes that the quota goes by are those of the entries, and a table is dirty
\* once for every row that is on its way to the queue, in it, or being flushed
\* (Cache::put(), mark_dirty() and mark_clean()); every variable has its type.
THEOREM CountersAreExact == Spec => []CountersExact
<1>1. Init => CountersInv
  <2> SUFFICES ASSUME Init PROVE CountersInv
    OBVIOUS
  <2>1. Slots \ Empty = {} /\ \A tb \in Tables : Enqueuing(tb) = {}
    BY DEF Init, Empty, Enqueuing
  <2>2. BytesExact
    BY <2>1, FS_EmptySet DEF Init, BytesExact
  <2>3. DirtyPerRow
    <3>1. \A tb \in Tables : dirty[tb] = 0 /\ queue[tb] = 0 /\ flushing[tb] = 0
      BY DEF Init
    <3>2. \A tb \in Tables : dirty[tb] = queue[tb] + flushing[tb] + Cardinality(Enqueuing(tb))
      BY ONLY <2>1, <3>1, FS_EmptySet, SMTT(60)
    <3> QED BY <3>2 DEF DirtyPerRow, Enqueuing
  <2>4. RowsInv
    BY <2>3 DEF Init, RowsInv
  <2>5. L1OK
    <3>1. << >> \in Seq(Result) /\ Len(<< >>) = 0
      BY SMTT(60)
    <3> QED BY <3>1, QueryAssumption, SMTT(60) DEF Init, L1OK
  <2> QED BY <2>2, <2>4, <2>5, CacheInit DEF CountersInv
<1>2. CountersInv /\ [Next]_vars => CountersInv'
  BY CacheStep, BytesStep, RowsStep, L1Step DEF CountersInv
<1>3. CountersInv => CountersExact
  <2> SUFFICES ASSUME CountersInv PROVE CountersExact
    OBVIOUS
  <2>1. bytes \in Nat
    BY SlotFacts, FS_Subset, FS_CardinalityType DEF CountersInv, BytesExact
  <2>2. \A i \in Slots \ Empty : slots[i].table = Tag[slots[i].key]
    BY DEF CountersInv, CacheInv, SlotOK, Empty
  <2> QED BY <2>1, <2>2 DEF CountersInv, CacheInv, RowsInv, L1OK, LruOK, CountersExact, TypeOK
<1> QED BY <1>1, <1>2, <1>3, PTL DEF Spec

-----------------------------------------------------------------------------
(* The index of keys by table *)

IndexOK(k) ==
    /\ IsFiniteSet(Popped(k))
    /\ Cardinality(Holding(k)) <= tags[k] + Cardinality(Entering(k)) + Cardinality(Popped(k))

LEMMA IndexCounts ==
    ASSUME CacheInv, NEW k \in Keys, IndexOK(k)
    PROVE  /\ IsFiniteSet(Holding(k)) /\ IsFiniteSet(Entering(k))
           /\ Cardinality(Holding(k)) \in Nat /\ Cardinality(Entering(k)) \in Nat
           /\ Cardinality(Popped(k)) \in Nat /\ tags[k] \in Nat
<1>1. IsFiniteSet(Threads)
  BY QueryAssumption, FS_AddElement DEF Threads
<1>2. IsFiniteSet(Holding(k)) /\ IsFiniteSet(Entering(k))
  BY <1>1, SlotFacts, FS_Subset DEF Holding, Entering
<1> QED BY <1>2, CacheTypes, FS_CardinalityType DEF IndexOK

LEMMA IndexFrame ==
    ASSUME CacheInv, NEW k \in Keys, IndexOK(k), Holding(k)' \subseteq Holding(k), tags'[k] = tags[k],
           Entering(k)' = Entering(k), Popped(k)' = Popped(k)
    PROVE  IndexOK(k)'
<1>1. Cardinality(Holding(k)') <= Cardinality(Holding(k)) /\ Cardinality(Holding(k)') \in Nat
  BY IndexCounts, FS_Subset, FS_CardinalityType
<1> DEFINE h == Cardinality(Holding(k))  g == Cardinality(Holding(k)')
           e == Cardinality(Entering(k))  p == Cardinality(Popped(k))
<1>2. h \in Nat /\ g \in Nat /\ e \in Nat /\ p \in Nat /\ tags[k] \in Nat /\ h <= tags[k] + e + p /\ g <= h
  BY <1>1, IndexCounts DEF IndexOK
<1> HIDE DEF h, g, e, p
<1>3. g <= tags[k] + e + p
  BY ONLY <1>2, SMTT(60)
<1> QED BY <1>3 DEF g, e, p, IndexOK

LEMMA HoldingFrame ==
    ASSUME CacheInv, NEW k \in Keys, UNCHANGED slots \/ \E i \in Slots \ Empty : Clear(i)
    PROVE  Holding(k)' \subseteq Holding(k)
BY CacheTypes DEF Holding, Clear

LEMMA PoppedFrame ==
    ASSUME NEW k \in Keys, \A t \in Threads : loc'[t].todo[k] = loc[t].todo[k]
    PROVE  Popped(k)' = Popped(k)
BY DEF Popped

\* A thread moves that neither enters a key nor invalidates.
LEMMA TodoQuiet ==
    ASSUME CacheInv, CacheInv', NEW t \in Threads, NEW l \in Labels \ {"inv", "tag"},
           pc' = [pc EXCEPT ![t] = l], \A u \in Threads \ {t} : loc'[u] = loc[u],
           pc[t] = "inv" => \A k \in Keys : loc[t].todo[k] = 0
    PROVE  /\ pc'[t] = l /\ \A u \in Threads \ {t} : pc'[u] = pc[u]
           /\ \A u \in Threads, k \in Keys : loc'[u].todo[k] = loc[u].todo[k]
<1>1. pc'[t] = l /\ \A u \in Threads \ {t} : pc'[u] = pc[u]
  BY CacheTypes
<1>2. \A k \in Keys : loc[t].todo[k] = 0
  BY DEF CacheInv, ThreadOK
<1>3. \A k \in Keys : loc'[t].todo[k] = 0
  BY <1>1 DEF CacheInv, ThreadOK
<1> QED BY <1>1, <1>2, <1>3

LEMMA QuietMoves ==
    ASSUME CacheInv, CacheInv', NEW t \in Threads,
           \/ \E k \in Keys : Query(t, k)
           \/ \E tb \in Tables : Commit(t, tb) \/ Write(t, tb)
           \/ \E tb \in Tables : t = Listener /\ Notified(tb)
           \/ PutScan(t) \/ PutQuota(t) \/ PutEvict(t) \/ InvL1(t) \/ Enqueue(t)
    PROVE  /\ pc[t] # "tag" /\ pc'[t] \notin {"inv", "tag"}
           /\ \A u \in Threads \ {t} : pc'[u] = pc[u] /\ loc'[u] = loc[u]
           /\ \A u \in Threads, k \in Keys : loc'[u].todo[k] = loc[u].todo[k]
           /\ UNCHANGED <<tags, late>>
           /\ UNCHANGED slots \/ \E i \in Slots \ Empty : Clear(i)
<1> USE CacheTypes
<1>1. pc[t] # "tag" /\ \E l \in Labels \ {"inv", "tag"} : pc' = [pc EXCEPT ![t] = l]
  BY DEF Query, Commit, Write, Notified, PutScan, PutQuota, PutEvict, InvL1, Enqueue, Done, Goto, Labels
<1>2. loc' = loc \/ \E r : loc' = [loc EXCEPT ![t] = r]
  BY DEF Query, Commit, Write, Notified, PutScan, PutQuota, PutEvict, InvL1, Enqueue, Done
<1>3. \A u \in Threads \ {t} : loc'[u] = loc[u]
  BY <1>2, OthersStay
<1>4. pc[t] = "inv" => \A j \in Keys : loc[t].todo[j] = 0
  BY DEF Query, Commit, Write, Notified, PutScan, PutQuota, PutEvict, InvL1, Enqueue
<1>5. UNCHANGED <<tags, late>>
  BY DEF Query, Commit, Write, Notified, PutScan, PutQuota, PutEvict, InvL1, Enqueue, shared
<1>6. UNCHANGED slots \/ \E i \in Slots \ Empty : Clear(i)
  <2>1. CASE PutEvict(t)
    <3>1. loc[t].at \in Slots
      BY <2>1 DEF PutEvict, CacheInv, ThreadOK
    <3> QED BY <2>1, <3>1 DEF PutEvict, Empty
  <2>2. CASE ~PutEvict(t)
    BY <2>2 DEF Query, Commit, Write, Notified, PutScan, PutQuota, InvL1, Enqueue, shared
  <2> QED BY <2>1, <2>2
<1> QED BY <1>1, <1>3, <1>4, <1>5, <1>6, TodoQuiet

LEMMA IndexStayers ==
    ASSUME CacheInv, CacheInv', NEW t \in Threads,
           \/ \E k \in Keys : Query(t, k)
           \/ \E tb \in Tables : Commit(t, tb) \/ Write(t, tb)
           \/ \E tb \in Tables : t = Listener /\ Notified(tb)
           \/ PutScan(t) \/ PutQuota(t) \/ PutEvict(t) \/ InvL1(t) \/ Enqueue(t),
           NEW k \in Keys, IndexOK(k)
    PROVE  IndexOK(k)'
<1>1. Popped(k)' = Popped(k)
  BY QuietMoves, PoppedFrame
<1>2. Entering(k)' = Entering(k)
  BY QuietMoves, SMTT(60) DEF Entering
<1>3. tags'[k] = tags[k] /\ Holding(k)' \subseteq Holding(k)
  BY QuietMoves, HoldingFrame
<1> QED BY <1>1, <1>2, <1>3, IndexFrame

LEMMA IndexOthers ==
    ASSUME CacheInv,
           \/ \E t \in Workers, k \in Keys : ReadL1(t, k) \/ ReadL2(t, k)
           \/ \E tb \in Tables : RemoteCommit(tb) \/ Flush(tb) \/ Flushed(tb)
           \/ \E i \in Slots : Sweep(i)
           \/ UNCHANGED vars,
           NEW k \in Keys, IndexOK(k)
    PROVE  IndexOK(k)'
<1>1. UNCHANGED <<tags, pc, loc>>
  BY DEF ReadL1, ReadL2, RemoteCommit, Flush, Flushed, Sweep, vars, shared
<1>2. UNCHANGED slots \/ \E i \in Slots \ Empty : Clear(i)
  BY DEF ReadL1, ReadL2, RemoteCommit, Flush, Flushed, Sweep, vars, shared
<1>3. Popped(k)' = Popped(k) /\ Entering(k)' = Entering(k)
  BY <1>1, PoppedFrame DEF Entering
<1> QED BY <1>1, <1>2, <1>3, HoldingFrame, IndexFrame

\* A put fills a slot, then enters its key: in between it is about to.
LEMMA IndexPut ==
    ASSUME CacheInv, NEW t \in Threads, PutWrite(t) \/ PutTag(t), NEW k \in Keys, IndexOK(k)
    PROVE  IndexOK(k)'
<1> USE CacheTypes
<1> DEFINE h == Cardinality(Holding(k))   g == Cardinality(Holding(k)')
           e == Cardinality(Entering(k))  f == Cardinality(Entering(k)')
           p == Cardinality(Popped(k))
<1>0. /\ h \in Nat /\ e \in Nat /\ p \in Nat /\ tags[k] \in Nat /\ h <= tags[k] + e + p
      /\ IsFiniteSet(Holding(k)) /\ IsFiniteSet(Entering(k)) /\ IsFiniteSet(Popped(k))
  BY IndexCounts DEF IndexOK
<1>1. loc' = loc /\ Popped(k)' = Popped(k)
  <2>1. loc' = loc
    BY DEF PutWrite, PutTag
  <2> QED BY <2>1, PoppedFrame
<1>2. CASE PutWrite(t)
  <2>1. pc[t] = "write" /\ pc' = [pc EXCEPT ![t] = "tag"] /\ tags' = tags
    BY <1>2, WriteFacts
  <2>2. PICK i \in Slots, en \in Entry : slots' = [slots EXCEPT ![i] = en] /\ en.key = loc[t].key
    BY <1>2, WriteFacts, SMTT(60)
  <2>3. Entering(k)' = IF loc[t].key = k THEN Entering(k) \cup {t} ELSE Entering(k)
    BY <1>1, <2>1 DEF Entering
  <2>4. t \notin Entering(k)
    BY <2>1 DEF Entering
  <2>5. f = IF loc[t].key = k THEN e + 1 ELSE e
    BY <1>0, <2>3, <2>4, FS_AddElement
  <2>6. loc[t].key = k => Holding(k)' \subseteq Holding(k) \cup {i}
    BY <2>2 DEF Holding
  <2>7. loc[t].key # k => Holding(k)' \subseteq Holding(k)
    BY <2>2 DEF Holding
  <2>8. IsFiniteSet(Holding(k) \cup {i}) /\ Cardinality(Holding(k) \cup {i}) \in {h, h + 1}
    BY <1>0, FS_AddElement
  <2>9. g \in Nat /\ g <= IF loc[t].key = k THEN h + 1 ELSE h
    <3>1. CASE loc[t].key = k
      <4>1. IsFiniteSet(Holding(k)') /\ g <= Cardinality(Holding(k) \cup {i})
        BY <2>6, <2>8, <3>1, FS_Subset
      <4>2. g \in Nat
        BY <4>1, FS_CardinalityType
      <4> QED BY <1>0, <2>8, <3>1, <4>1, <4>2, SMTT(60)
    <3>2. CASE loc[t].key # k
      <4>1. IsFiniteSet(Holding(k)') /\ g <= h
        BY <1>0, <2>7, <3>2, FS_Subset
      <4> QED BY <3>2, <4>1, FS_CardinalityType
    <3> QED BY <3>1, <3>2
  <2> HIDE DEF h, g, e, f, p
  <2>10. g <= tags[k] + f + p
    BY ONLY <1>0, <2>5, <2>9, SMTT(60)
  <2> QED BY <1>0, <1>1, <2>1, <2>10 DEF IndexOK, g, f, p
<1>3. CASE PutTag(t)
  <2>1. /\ pc[t] = "tag" /\ pc' = [pc EXCEPT ![t] = "quota"] /\ slots' = slots
        /\ tags' = [tags EXCEPT ![loc[t].key] = @ + 1]
    BY <1>3 DEF PutTag, Goto
  <2>2. Entering(k)' = IF loc[t].key = k THEN Entering(k) \ {t} ELSE Entering(k)
    BY <1>1, <2>1 DEF Entering
  <2>3. loc[t].key = k => t \in Entering(k)
    BY <2>1 DEF Entering
  <2>4. f = IF loc[t].key = k THEN e - 1 ELSE e
    <3>1. t \in Entering(k) => Cardinality(Entering(k) \ {t}) = e - 1
      BY <1>0, FS_RemoveElement
    <3> QED BY <2>2, <2>3, <3>1
  <2>5. tags' = [tags EXCEPT ![loc[t].key] = @ + 1]
    BY <2>1
  <2>6. tags'[k] = IF loc[t].key = k THEN tags[k] + 1 ELSE tags[k]
    BY <2>5
  <2>7. Holding(k)' = Holding(k)
    BY <2>1 DEF Holding
  <2> HIDE DEF h, g, e, f, p
  <2>8. h <= tags'[k] + f + p
    BY ONLY <1>0, <2>4, <2>6, SMTT(60)
  <2> QED BY <1>0, <1>1, <2>7, <2>8 DEF IndexOK, h, f, p
<1> QED BY <1>2, <1>3

LEMMA PairCount ==
    ASSUME NEW x, NEW n \in Nat
    PROVE  IsFiniteSet({x} \X (1 .. n)) /\ Cardinality({x} \X (1 .. n)) = n
<1>1. IsFiniteSet(1 .. n) /\ Cardinality(1 .. n) = IF 1 > n THEN 0 ELSE n - 1 + 1
  BY FS_Interval, SMTT(60)
<1>2. Cardinality(1 .. n) = n
  BY <1>1, SMTT(60)
<1>3. IsFiniteSet({x}) /\ Cardinality({x}) = 1
  BY FS_Singleton
<1>4. IsFiniteSet({x} \X (1 .. n)) /\ Cardinality({x} \X (1 .. n)) = Cardinality({x}) * Cardinality(1 .. n)
  BY <1>1, <1>3, FS_Product
<1>5. 1 * n = n
  BY SMTT(60)
<1> QED BY <1>2, <1>3, <1>4, <1>5

LEMMA DisjointCount ==
    ASSUME NEW S, NEW T, IsFiniteSet(S), IsFiniteSet(T), S \cap T = {}
    PROVE  IsFiniteSet(S \cup T) /\ Cardinality(S \cup T) = Cardinality(S) + Cardinality(T)
<1>1. /\ IsFiniteSet(S \cup T)
      /\ Cardinality(S \cup T) = Cardinality(S) + Cardinality(T) - Cardinality(S \cap T)
  BY FS_Union
<1>2. Cardinality(S) \in Nat /\ Cardinality(T) \in Nat /\ Cardinality(S \cap T) = 0
  BY FS_CardinalityType, FS_EmptySet
<1>3. \A a, b \in Nat : a + b - 0 = a + b
  BY SMTT(60)
<1> QED BY <1>1, <1>2, <1>3

\* What a thread has popped, apart from the others.
PoppedBy(t, k) == {t} \X (1 .. loc[t].todo[k])

LEMMA PoppedIn ==
    ASSUME NEW k \in Keys
    PROVE  \A x : x \in Popped(k) <=> \E t \in Threads : x \in PoppedBy(t, k)
BY DEF Popped, PoppedBy

LEMMA PoppedApart ==
    ASSUME NEW k \in Keys, NEW t \in Threads, NEW u \in Threads \ {t}, NEW S
    PROVE  PoppedBy(u, k) \cap ({t} \X S) = {}
BY DEF PoppedBy

\* The list of the table goes to the invalidation whole.
LEMMA IndexPop ==
    ASSUME CacheInv, NEW t \in Threads, InvPop(t), NEW k \in Keys, IndexOK(k)
    PROVE  IndexOK(k)'
<1> USE CacheTypes
<1> DEFINE n == IF Tag[k] = loc[t].table THEN tags[k] ELSE 0
           new == {t} \X (1 .. n)
           h == Cardinality(Holding(k))  e == Cardinality(Entering(k))
           p == Cardinality(Popped(k))   q == Cardinality(Popped(k)')
<1>0. /\ h \in Nat /\ e \in Nat /\ p \in Nat /\ tags[k] \in Nat /\ h <= tags[k] + e + p
      /\ IsFiniteSet(Popped(k)) /\ n \in Nat
  BY IndexCounts DEF IndexOK
<1>1. /\ pc[t] = "pop" /\ pc' = [pc EXCEPT ![t] = "inv"] /\ loc'[t].todo[k] = n /\ UNCHANGED slots
      /\ loc'[t].key = loc[t].key /\ \A u \in Threads \ {t} : loc'[u] = loc[u]
  <2>1. PICK r \in Locals :
          /\ pc[t] = "pop" /\ pc' = [pc EXCEPT ![t] = "inv"] /\ loc' = [loc EXCEPT ![t] = r]
          /\ r.key = loc[t].key /\ UNCHANGED slots
          /\ \A j \in Keys : r.todo[j] = IF Tag[j] = loc[t].table THEN tags[j] ELSE 0
    BY PopFacts, SMTT(60)
  <2>2. loc'[t] = r /\ \A u \in Threads \ {t} : loc'[u] = loc[u]
    BY <2>1
  <2> QED BY <2>1, <2>2
<1>2. tags'[k] = IF Tag[k] = loc[t].table THEN 0 ELSE tags[k]
  BY PopFacts
<1>3. tags'[k] \in Nat /\ tags'[k] + n = tags[k]
  BY <1>0, <1>2, SMTT(60)
<1>4. loc[t].todo[k] = 0
  BY <1>1 DEF CacheInv, ThreadOK
<1>5. Holding(k)' = Holding(k) /\ Entering(k)' = Entering(k)
  BY <1>1 DEF Holding, Entering
<1> HIDE DEF n
<1>6. Popped(k)' = Popped(k) \cup new /\ Popped(k) \cap new = {}
  <2>1. PoppedBy(t, k) = {} /\ PoppedBy(t, k)' = new
    BY <1>1, <1>4, SMTT(60) DEF PoppedBy
  <2>2. \A u \in Threads \ {t} : PoppedBy(u, k)' = PoppedBy(u, k) /\ PoppedBy(u, k) \cap new = {}
    BY <1>1, PoppedApart DEF PoppedBy
  <2>3. \A x : x \in Popped(k)' <=> \E u \in Threads : x \in PoppedBy(u, k)'
    BY DEF Popped, PoppedBy
  <2> HIDE DEF new
  <2> QED BY <2>1, <2>2, <2>3, PoppedIn, SMTT(60)
<1>7. IsFiniteSet(new) /\ Cardinality(new) = n
  BY <1>0, PairCount
<1> HIDE DEF new
<1>8. IsFiniteSet(Popped(k)') /\ q = p + n
  BY <1>0, <1>6, <1>7, DisjointCount, SMTT(60)
<1> HIDE DEF h, e, p, q
<1>9. h <= tags'[k] + e + q
  BY ONLY <1>0, <1>3, <1>8, SMTT(60)
<1> QED BY <1>5, <1>8, <1>9 DEF IndexOK, h, e, q

\* An invalidation looks for a key once per time it was listed, and each time
\* finds a slot of it, or there is none.
LEMMA IndexKey ==
    ASSUME CacheInv, NEW t \in Threads, NEW key \in Keys, InvKey(t, key), NEW k \in Keys, IndexOK(k)
    PROVE  IndexOK(k)'
<1> USE CacheTypes
<1> DEFINE n == loc[t].todo[k]
<1>1. PICK r \in Locals :
        /\ pc[t] = "inv" /\ loc[t].todo[key] \in Nat \ {0} /\ loc' = [loc EXCEPT ![t] = r]
        /\ r.key = loc[t].key /\ r.table = loc[t].table /\ r.val = loc[t].val
        /\ r.todo[key] = loc[t].todo[key] - 1 /\ \A j \in Keys \ {key} : r.todo[j] = loc[t].todo[j]
        /\ UNCHANGED <<lru, tags, pg, floor, pc>> /\ late \subseteq late'
        /\ \/ Holding(key) = {} /\ UNCHANGED <<slots, bytes>>
           \/ \E i \in Holding(key) :
                /\ Clear(i)
                /\ loc[t].todo[key] = 1 => \A j \in Holding(key) \ {i} : <<key, slots[j].val>> \in late'
  BY ONLY CacheInv, t \in Threads, key \in Keys, InvKey(t, key), InvKeyFacts, ZenonT(30)
<1>3. loc'[t] = r /\ \A u \in Threads \ {t} : loc'[u] = loc[u]
  BY <1>1
<1>4. Entering(k)' = Entering(k) /\ tags'[k] = tags[k]
  BY <1>1, <1>3, SMTT(60) DEF Entering
<1>5. UNCHANGED slots \/ \E j \in Slots \ Empty : Clear(j)
  BY <1>1 DEF Holding, Empty
<1>6. CASE k # key
  <2>1. loc'[t].todo[k] = loc[t].todo[k]
    BY <1>1, <1>3, <1>6
  <2>2. Popped(k)' = Popped(k)
    BY <1>3, <2>1, PoppedFrame
  <2> QED BY <1>4, <1>5, <2>2, HoldingFrame, IndexFrame
<1>7. CASE k = key
  <2> DEFINE h == Cardinality(Holding(k))  g == Cardinality(Holding(k)')
             e == Cardinality(Entering(k))
             p == Cardinality(Popped(k))   q == Cardinality(Popped(k)')
  <2>0. /\ h \in Nat /\ e \in Nat /\ p \in Nat /\ tags[k] \in Nat /\ h <= tags[k] + e + p
        /\ IsFiniteSet(Popped(k)) /\ IsFiniteSet(Holding(k))
    BY IndexCounts DEF IndexOK
  <2>1. n \in Nat \ {0} /\ loc'[t].todo[k] = n - 1
    BY <1>1, <1>3, <1>7
  <2> HIDE DEF n
  <2>2. <<t, n>> \in PoppedBy(t, k) /\ PoppedBy(t, k)' = PoppedBy(t, k) \ {<<t, n>>}
    <3>1. n \in 1 .. n /\ 1 .. (n - 1) = (1 .. n) \ {n}
      BY <2>1, SMTT(60)
    <3> QED BY <2>1, <3>1, SMTT(60) DEF PoppedBy, n
  <2>3. \A u \in Threads \ {t} : PoppedBy(u, k)' = PoppedBy(u, k) /\ <<t, n>> \notin PoppedBy(u, k)
    BY <1>3 DEF PoppedBy
  <2>4. \A x : x \in Popped(k)' <=> \E u \in Threads : x \in PoppedBy(u, k)'
    BY DEF Popped, PoppedBy
  <2>5. <<t, n>> \in Popped(k) /\ Popped(k)' = Popped(k) \ {<<t, n>>}
    BY <2>2, <2>3, <2>4, PoppedIn, SMTT(60)
  <2>6. IsFiniteSet(Popped(k)') /\ q = p - 1
    <3> DEFINE x == <<t, n>>
    <3> HIDE DEF x
    <3>1. IsFiniteSet(Popped(k) \ {x}) /\ (x \in Popped(k) => Cardinality(Popped(k) \ {x}) = p - 1)
      BY <2>0, FS_RemoveElement
    <3> QED BY <2>5, <3>1 DEF x
  <2>7. g = 0 \/ g = h - 1
    <3>1. CASE Holding(key) = {} /\ UNCHANGED slots
      <4>1. Holding(k)' = {}
        BY <1>7, <3>1 DEF Holding
      <4> QED BY <4>1, FS_EmptySet
    <3>2. ASSUME NEW i \in Holding(key), Clear(i) PROVE g = h - 1
      <4>1. i \in Holding(k) /\ Holding(k)' = Holding(k) \ {i}
        BY <1>7, <3>2 DEF Holding, Clear
      <4> QED BY <2>0, <4>1, FS_RemoveElement
    <3> QED BY <1>1, <3>1, <3>2
  <2>8. q \in Nat
    BY <2>6, FS_CardinalityType
  <2> HIDE DEF h, g, e, p, q
  <2>9. g <= tags[k] + e + q
    BY ONLY <2>0, <2>6, <2>7, <2>8, SMTT(60)
  <2> QED BY <1>4, <2>6, <2>9 DEF IndexOK, g, e, q
<1> QED BY <1>6, <1>7

IndexInv == CacheInv /\ \A k \in Keys : IndexOK(k)

\* The index is complete (Cache::put() and invalidate_table()): however puts and
\* invalidations of any number of threads interleave, a key fills no more slots
\* than the times an invalidation will still look for it.
THEOREM EntriesIndexed == Spec => []Indexed
<1>1. Init => IndexInv
  <2> SUFFICES ASSUME Init, NEW k \in Keys PROVE IndexOK(k)
    BY CacheInit DEF IndexInv
  <2>1. \A t \in Threads : loc[t].todo[k] = 0 /\ pc[t] # "tag"
    BY LocalType DEF Init
  <2>2. Popped(k) = {}
    BY <2>1, PoppedIn, SMTT(60) DEF PoppedBy
  <2>3. Holding(k) = {} /\ Entering(k) = {} /\ tags[k] = 0
    BY <2>1 DEF Init, Holding, Entering
  <2> QED BY <2>2, <2>3, FS_EmptySet, SMTT(60) DEF IndexOK
<1>2. IndexInv /\ [Next]_vars => IndexInv'
  <2> SUFFICES ASSUME IndexInv, [Next]_vars, NEW k \in Keys PROVE IndexOK(k)'
    BY CacheStep DEF IndexInv
  <2>0. CacheInv /\ CacheInv' /\ IndexOK(k) /\ Workers \subseteq Threads /\ Listener \in Threads
    BY CacheStep DEF IndexInv, Threads
  <2>1. ASSUME NEW t \in Workers, Call(t) PROVE IndexOK(k)'
    BY <2>0, <2>1, IndexOthers, IndexStayers DEF Call
  <2>2. ASSUME NEW t \in Threads, Step(t) PROVE IndexOK(k)'
    BY <2>0, <2>2, IndexStayers, IndexPut, IndexPop, IndexKey DEF Step
  <2>3. ASSUME NEW tb \in Tables, RemoteCommit(tb) \/ Notified(tb) \/ Flush(tb) \/ Flushed(tb)
        PROVE  IndexOK(k)'
    BY <2>0, <2>3, IndexOthers, IndexStayers
  <2>4. CASE UNCHANGED vars \/ \E i \in Slots : Sweep(i)
    BY <2>0, <2>4, IndexOthers
  <2> QED BY <2>1, <2>2, <2>3, <2>4 DEF Next
<1>3. IndexInv => Indexed
  BY DEF IndexInv, IndexOK, Indexed
<1> QED BY <1>1, <1>2, <1>3, PTL DEF Spec

-----------------------------------------------------------------------------
(* What an invalidation leaves behind *)

Taken(k) == \E u \in Threads : loc[u].todo[k] > 0

\* Every entry is known to be missed, listed, taken, or about to be listed.
Cover(i) ==
    slots[i] # None =>
        \/ <<slots[i].key, slots[i].val>> \in late
        \/ tags[slots[i].key] > 0 \/ Taken(slots[i].key)
        \/ \E t \in Entering(slots[i].key) : loc[t].val = slots[i].val

\* What is older than n is known to be missed, in a slot or on its way there, or
\* taken.
Settled(tb, n) ==
    /\ \A i \in Slots : slots[i] # None /\ slots[i].table = tb /\ slots[i].val < n
                           => <<slots[i].key, slots[i].val>> \in late \/ Taken(slots[i].key)
    /\ \A t \in Putting(tb) : loc[t].val < n => <<loc[t].key, loc[t].val>> \in late

\* Steps other than those that fill a slot or take keys off the index: a put that
\* begins now has the newest result.
Calm ==
    /\ late' = late
    /\ \A u \in Threads, k \in Keys : loc'[u].todo[k] = loc[u].todo[k]
    /\ \A i \in Slots : slots'[i] \in {slots[i], None}
    /\ \A k \in Keys : tags[k] > 0 => tags'[k] > 0
    /\ \A k \in Keys : \A u \in Entering(k) : tags'[k] > 0 \/ (u \in Entering(k)' /\ loc'[u] = loc[u])
    /\ \A tb \in Tables : \A u \in Putting(tb)' :
          \/ loc'[u].val = pg[tb]
          \/ u \in Putting(tb) /\ loc'[u].key = loc[u].key /\ loc'[u].val = loc[u].val

LEMMA CalmOthers ==
    ASSUME CacheInv,
           \/ \E t \in Workers, k \in Keys : ReadL1(t, k) \/ ReadL2(t, k)
           \/ \E tb \in Tables : RemoteCommit(tb) \/ Flush(tb) \/ Flushed(tb)
           \/ \E i \in Slots : Sweep(i)
           \/ UNCHANGED vars
    PROVE  Calm
<1>1. UNCHANGED <<tags, pc, loc, late>>
  BY DEF ReadL1, ReadL2, RemoteCommit, Flush, Flushed, Sweep, vars, shared
<1>2. UNCHANGED slots \/ \E i \in Slots \ Empty : Clear(i)
  BY DEF ReadL1, ReadL2, RemoteCommit, Flush, Flushed, Sweep, vars, shared
<1>3. \A i \in Slots : slots'[i] \in {slots[i], None}
  BY <1>2, CacheTypes DEF Clear
<1> QED BY <1>1, <1>3 DEF Calm, Entering, Putting

LEMMA CalmQuiet ==
    ASSUME CacheInv, CacheInv', NEW t \in Threads,
           \/ \E k \in Keys : Query(t, k)
           \/ \E tb \in Tables : Commit(t, tb) \/ Write(t, tb)
           \/ \E tb \in Tables : t = Listener /\ Notified(tb)
           \/ PutScan(t) \/ PutQuota(t) \/ PutEvict(t) \/ InvL1(t) \/ Enqueue(t)
    PROVE  Calm
<1> USE CacheTypes
<1>1. /\ pc[t] # "tag" /\ \A u \in Threads \ {t} : pc'[u] = pc[u] /\ loc'[u] = loc[u]
      /\ \A u \in Threads, k \in Keys : loc'[u].todo[k] = loc[u].todo[k]
      /\ UNCHANGED <<tags, late>>
  BY QuietMoves
<1>2. \A i \in Slots : slots'[i] \in {slots[i], None}
  BY QuietMoves DEF Clear
<1>3. \A k \in Keys : \A u \in Entering(k) : u \in Entering(k)' /\ loc'[u] = loc[u]
  BY <1>1 DEF Entering
<1>4. pc'[t] \in {"scan", "write", "tag"} => PutScan(t) \/ \E k \in Keys : Query(t, k)
  BY DEF Commit, Write, Notified, PutQuota, PutEvict, InvL1, Enqueue, Done, Goto
<1>5. ASSUME NEW tb \in Tables, t \in Putting(tb)'
      PROVE  \/ loc'[t].val = pg[tb]
             \/ t \in Putting(tb) /\ loc'[t].key = loc[t].key /\ loc'[t].val = loc[t].val
  <2>0. pc'[t] \in {"scan", "write", "tag"} /\ loc'[t].table = tb
    BY <1>5 DEF Putting
  <2>1. CASE PutScan(t)
    <3> DEFINE r == [loc[t] EXCEPT !.at = Target(loc[t].key)]
    <3>1. loc' = [loc EXCEPT ![t] = r] /\ pc[t] = "scan"
      BY <2>1 DEF PutScan
    <3>2. r.key = loc[t].key /\ r.table = loc[t].table /\ r.val = loc[t].val
      BY DEF Locals
    <3> HIDE DEF r
    <3>3. loc'[t] = r
      BY <3>1
    <3> QED BY <2>0, <3>1, <3>2, <3>3 DEF Putting
  <2>2. ASSUME NEW k \in Keys, Query(t, k) PROVE loc'[t].val = pg[tb]
    <3> DEFINE r == [loc[t] EXCEPT !.key = k, !.table = Tag[k], !.val = pg[Tag[k]]]
    <3>1. loc' = [loc EXCEPT ![t] = r]
      BY <2>2 DEF Query
    <3>2. r.table = Tag[k] /\ r.val = pg[Tag[k]]
      BY DEF Locals
    <3> HIDE DEF r
    <3>3. loc'[t] = r
      BY <3>1
    <3> QED BY <2>0, <3>2, <3>3
  <2> QED BY <1>4, <2>0, <2>1, <2>2
<1>6. \A tb \in Tables : \A u \in Putting(tb)' \ {t} : u \in Putting(tb) /\ loc'[u] = loc[u]
  BY <1>1 DEF Putting
<1>7. ASSUME NEW tb \in Tables, NEW u \in Putting(tb)'
      PROVE  \/ loc'[u].val = pg[tb]
             \/ u \in Putting(tb) /\ loc'[u].key = loc[u].key /\ loc'[u].val = loc[u].val
  BY <1>5, <1>6
<1> QED BY <1>1, <1>2, <1>3, <1>7 DEF Calm

LEMMA CalmTag ==
    ASSUME CacheInv, NEW t \in Threads, PutTag(t)
    PROVE  Calm
<1> USE CacheTypes
<1>1. /\ pc[t] = "tag" /\ pc' = [pc EXCEPT ![t] = "quota"] /\ UNCHANGED <<slots, loc, late>>
  BY DEF PutTag, Goto
<1>2. tags' = [tags EXCEPT ![loc[t].key] = @ + 1]
  BY DEF PutTag
<1>3. \A k \in Keys : tags'[k] = IF k = loc[t].key THEN tags[k] + 1 ELSE tags[k]
  BY <1>2
<1>4. \A k \in Keys : (tags[k] > 0 => tags'[k] > 0) /\ (k = loc[t].key => tags'[k] > 0)
  BY <1>3, SMTT(60)
<1>5. \A k \in Keys : \A u \in Entering(k) : k = loc[t].key \/ u \in Entering(k)'
  BY <1>1 DEF Entering
<1>6. \A tb \in Tables : \A u \in Putting(tb)' : u \in Putting(tb)
  BY <1>1 DEF Putting
<1> QED BY <1>1, <1>4, <1>5, <1>6 DEF Calm

LEMMA EntryFacts ==
    ASSUME CacheInv, NEW i \in Slots, slots[i] # None
    PROVE  slots[i] \in Entry /\ slots[i].key \in Keys /\ slots[i].table = Tag[slots[i].key]
           /\ slots[i].table \in Tables /\ slots[i].val \in Nat
BY CacheTypes DEF Entry, CacheInv, SlotOK

LEMMA CoverCalm ==
    ASSUME CacheInv, Calm, NEW i \in Slots, Cover(i)
    PROVE  Cover(i)'
<1> SUFFICES ASSUME slots'[i] # None PROVE Cover(i)'
  BY DEF Cover
<1>1. slots'[i] = slots[i] /\ slots[i].key \in Keys
  BY EntryFacts DEF Calm
<1>2. Taken(slots[i].key) => Taken(slots[i].key)'
  BY <1>1, SMTT(60) DEF Taken, Calm
<1> DEFINE k == slots[i].key  v == slots[i].val
<1>3. CASE \E t \in Entering(k) : loc[t].val = v
  <2>1. tags'[k] > 0 \/ \E t \in Threads : pc'[t] = "tag" /\ loc'[t].key = k /\ loc'[t].val = v
    BY <1>1, <1>3, SMTT(60) DEF Calm, Entering
  <2> QED BY <1>1, <2>1 DEF Cover, Entering
<1>4. CASE <<k, v>> \in late \/ tags[k] > 0 \/ Taken(k)
  <2>1. <<k, v>> \in late' \/ tags'[k] > 0 \/ \E u \in Threads : loc'[u].todo[k] > 0
    BY <1>1, <1>4 DEF Calm, Taken
  <2> QED BY <1>1, <2>1 DEF Cover, Taken
<1> QED BY <1>1, <1>3, <1>4 DEF Cover

LEMMA SettledCalm ==
    ASSUME CacheInv, Calm, NEW tb \in Tables, NEW n \in Nat, n <= pg[tb], Settled(tb, n)
    PROVE  Settled(tb, n)'
<1>1. ASSUME NEW i \in Slots, slots'[i] # None, slots'[i].table = tb, slots'[i].val < n
      PROVE  <<slots'[i].key, slots'[i].val>> \in late' \/ \E u \in Threads : loc'[u].todo[slots'[i].key] > 0
  <2>1. slots'[i] = slots[i] /\ slots[i].key \in Keys
    BY <1>1, EntryFacts DEF Calm
  <2> QED BY <1>1, <2>1, SMTT(60) DEF Settled, Taken, Calm
<1>2. ASSUME NEW u \in Putting(tb)', loc'[u].val < n
      PROVE  <<loc'[u].key, loc'[u].val>> \in late'
  <2>1. loc'[u].val # pg[tb]
    BY <1>2, CacheTypes, SMTT(60)
  <2> QED BY <1>2, <2>1 DEF Settled, Calm
<1> QED BY <1>1, <1>2 DEF Settled, Taken

\* A put fills its slot: what was overtaken is in late already.
LEMMA WriteKeeps ==
    ASSUME CacheInv, NEW t \in Threads, PutWrite(t)
    PROVE  /\ \A i \in Slots : Cover(i) => Cover(i)'
           /\ \A tb \in Tables, n \in Nat : Settled(tb, n) => Settled(tb, n)'
<1> USE CacheTypes
<1> DEFINE l == loc[t]
<1>1. PICK e \in Entry :
        /\ e.key = l.key /\ e.table = l.table /\ e.val = l.val
        /\ l.at \in Slots /\ slots' = [slots EXCEPT ![l.at] = e]
        /\ pc[t] = "write" /\ pc' = [pc EXCEPT ![t] = "tag"] /\ UNCHANGED <<loc, tags, late>>
  BY WriteFacts
<1>3. pc'[t] = "tag" /\ \A u \in Threads \ {t} : pc'[u] = pc[u]
  BY <1>1
<1>4. \A i \in Slots : slots'[i] = slots[i] \/ slots'[i] = e
  BY <1>1
<1>5. ASSUME NEW i \in Slots, Cover(i) PROVE Cover(i)'
  <2>1. CASE slots'[i] = e
    <3>1. t \in Entering(l.key)'
      BY <1>1, <1>3 DEF Entering
    <3>2. \E u \in Threads : pc'[u] = "tag" /\ loc'[u].key = slots'[i].key /\ loc'[u].val = slots'[i].val
      BY <1>1, <1>3, <2>1
    <3> QED BY <3>2 DEF Cover, Entering
  <2>2. CASE slots'[i] = slots[i]
    <3>1. \A k : Entering(k) \subseteq Entering(k)'
      BY <1>1, <1>3 DEF Entering
    <3> QED BY <1>1, <1>3, <1>5, <2>2 DEF Cover, Taken, Entering
  <2> QED BY <1>4, <2>1, <2>2
<1>6. ASSUME NEW tb \in Tables, NEW n \in Nat, Settled(tb, n) PROVE Settled(tb, n)'
  <2>1. Putting(tb)' = Putting(tb)
    BY <1>1, <1>3 DEF Putting
  <2>2. l.table = tb /\ l.val < n => <<l.key, l.val>> \in late
    BY <1>1, <1>6 DEF Settled, Putting
  <2> QED BY <1>1, <1>4, <1>6, <2>1, <2>2 DEF Settled, Taken
<1> QED BY <1>5, <1>6

\* An invalidation takes the keys of its table: from then on all that is older is
\* settled.
LEMMA PopKeeps ==
    ASSUME CacheInv, NEW t \in Threads, InvPop(t), \A i \in Slots : Cover(i)
    PROVE  /\ \A i \in Slots : Cover(i)'
           /\ \A tb \in Tables, n \in Nat : Settled(tb, n) => Settled(tb, n)'
           /\ loc'[t].table = loc[t].table /\ loc'[t].val = loc[t].val
           /\ \A tb \in Tables, n \in Nat : tb = loc[t].table => Settled(tb, n)'
<1> USE CacheTypes
<1>1. PICK r \in Locals :
        /\ pc[t] = "pop" /\ pc' = [pc EXCEPT ![t] = "inv"] /\ loc' = [loc EXCEPT ![t] = r]
        /\ r.key = loc[t].key /\ r.table = loc[t].table /\ r.val = loc[t].val
        /\ \A j \in Keys : r.todo[j] = IF Tag[j] = loc[t].table THEN tags[j] ELSE 0
        /\ tags' \in [Keys -> Nat]
        /\ \A j \in Keys : tags'[j] = IF Tag[j] = loc[t].table THEN 0 ELSE tags[j]
        /\ late' = late \cup {<<loc[u].key, loc[u].val>> : u \in Putting(loc[t].table)}
        /\ UNCHANGED <<slots, lru, bytes, pg, floor>>
  BY ONLY CacheInv, t \in Threads, InvPop(t), PopFacts, ZenonT(30)
<1>2. /\ loc'[t] = r /\ \A u \in Threads \ {t} : loc'[u] = loc[u] /\ pc'[u] = pc[u]
      /\ pc'[t] = "inv"
  BY <1>1
<1>3. \A k \in Keys : loc[t].todo[k] = 0
  BY <1>1 DEF CacheInv, ThreadOK
<1>4. \A k \in Keys : /\ Taken(k) => Taken(k)'
                      /\ tags[k] > 0 /\ Tag[k] = loc[t].table => Taken(k)'
                      /\ tags[k] > 0 /\ Tag[k] # loc[t].table => tags'[k] > 0
  BY <1>1, <1>2, <1>3, SMTT(60) DEF Taken
<1>5. \A k \in Keys : Entering(k)' = Entering(k) /\ \A u \in Entering(k) : loc'[u] = loc[u]
  BY <1>1, <1>2 DEF Entering
<1>6. \A tb : Putting(tb)' = Putting(tb) /\ \A u \in Putting(tb) : loc'[u] = loc[u]
  BY <1>1, <1>2 DEF Putting
<1>7. ASSUME NEW i \in Slots PROVE Cover(i)'
  <2>1. UNCHANGED slots /\ late \subseteq late' /\ Cover(i)
    BY <1>1
  <2>2. slots[i] # None => slots[i].key \in Keys
    BY EntryFacts
  <2> QED BY <1>4, <1>5, <2>1, <2>2 DEF Cover
<1>8. ASSUME NEW tb \in Tables, NEW n \in Nat, Settled(tb, n) PROVE Settled(tb, n)'
  <2>1. ASSUME NEW i \in Slots, slots[i] # None, slots[i].table = tb, slots[i].val < n
        PROVE  <<slots[i].key, slots[i].val>> \in late' \/ Taken(slots[i].key)'
    <3>1. slots[i].key \in Keys
      BY <2>1, EntryFacts
    <3> QED BY <1>1, <1>4, <1>8, <2>1, <3>1 DEF Settled
  <2>2. ASSUME NEW u \in Putting(tb), loc[u].val < n PROVE <<loc[u].key, loc[u].val>> \in late'
    BY <1>1, <1>8, <2>2 DEF Settled
  <2>3. slots' = slots
    BY <1>1
  <2> QED BY <1>6, <2>1, <2>2, <2>3 DEF Settled
<1>9. ASSUME NEW tb \in Tables, NEW n \in Nat, tb = loc[t].table PROVE Settled(tb, n)'
  <2>1. ASSUME NEW i \in Slots, slots[i] # None, slots[i].table = tb
        PROVE  <<slots[i].key, slots[i].val>> \in late' \/ Taken(slots[i].key)'
    <3> DEFINE k == slots[i].key  v == slots[i].val
    <3>1. k \in Keys /\ Tag[k] = tb
      BY <2>1, EntryFacts
    <3>2. CASE \E u \in Entering(k) : loc[u].val = v
      <4>1. PICK u \in Threads : pc[u] = "tag" /\ loc[u].key = k /\ loc[u].val = v
        BY <3>2 DEF Entering
      <4>2. u \in Putting(tb)
        BY <3>1, <4>1 DEF Putting, CacheInv, ThreadOK
      <4> QED BY <1>1, <1>9, <4>1, <4>2
    <3>3. CASE <<k, v>> \in late \/ tags[k] > 0 \/ Taken(k)
      BY <1>1, <1>4, <1>9, <3>1, <3>3
    <3> QED BY <2>1, <3>2, <3>3 DEF Cover
  <2>2. \A u \in Putting(tb) : <<loc[u].key, loc[u].val>> \in late'
    BY <1>1, <1>9
  <2> QED BY <1>1, <1>6, <2>1, <2>2 DEF Settled
<1> QED BY <1>1, <1>2, <1>7, <1>8, <1>9

\* The key is looked for once less; what is left in its other slots the last time
\* is missed.
LEMMA KeyKeeps ==
    ASSUME CacheInv, NEW t \in Threads, NEW key \in Keys, InvKey(t, key)
    PROVE  /\ \A i \in Slots : Cover(i) => Cover(i)'
           /\ \A tb \in Tables, n \in Nat : Settled(tb, n) => Settled(tb, n)'
           /\ pc' = pc /\ \A u \in Threads : loc'[u].table = loc[u].table /\ loc'[u].val = loc[u].val
<1> USE CacheTypes
<1>1. PICK r \in Locals :
        /\ pc[t] = "inv" /\ loc[t].todo[key] \in Nat \ {0} /\ loc' = [loc EXCEPT ![t] = r]
        /\ r.key = loc[t].key /\ r.table = loc[t].table /\ r.val = loc[t].val
        /\ r.todo[key] = loc[t].todo[key] - 1 /\ \A j \in Keys \ {key} : r.todo[j] = loc[t].todo[j]
        /\ UNCHANGED <<lru, tags, pg, floor, pc>> /\ late \subseteq late'
        /\ \/ Holding(key) = {} /\ UNCHANGED <<slots, bytes>>
           \/ \E i \in Holding(key) :
                /\ Clear(i)
                /\ loc[t].todo[key] = 1 => \A j \in Holding(key) \ {i} : <<key, slots[j].val>> \in late'
  BY ONLY CacheInv, t \in Threads, key \in Keys, InvKey(t, key), InvKeyFacts, ZenonT(30)
<1>4. loc'[t] = r /\ \A u \in Threads \ {t} : loc'[u] = loc[u]
  BY <1>1
<1>5. \A u \in Threads : loc'[u].key = loc[u].key /\ loc'[u].table = loc[u].table /\ loc'[u].val = loc[u].val
  BY <1>1, <1>4
<1>6. \A k \in Keys \ {key} : Taken(k) => Taken(k)'
  <2>1. \A k \in Keys \ {key} : loc'[t].todo[k] = loc[t].todo[k]
    BY <1>1, <1>4
  <2> QED BY <1>4, <2>1 DEF Taken
<1>7. loc[t].todo[key] # 1 => Taken(key)'
  <2>1. loc'[t].todo[key] = loc[t].todo[key] - 1
    BY <1>1, <1>4
  <2>2. loc[t].todo[key] \in Nat \ {0}
    BY <1>1
  <2>3. loc[t].todo[key] # 1 => loc'[t].todo[key] > 0
    BY ONLY <2>1, <2>2, SMTT(60)
  <2> QED BY <2>3 DEF Taken
<1>8. ASSUME NEW j \in Slots, slots'[j] # None
      PROVE  /\ slots'[j] = slots[j] /\ slots[j].key \in Keys
             /\ Taken(slots[j].key) => <<slots[j].key, slots[j].val>> \in late' \/ \E u \in Threads : loc'[u].todo[slots[j].key] > 0
  <2>1. slots'[j] = slots[j]
    BY <1>1, <1>8 DEF Clear, Holding
  <2>2. slots[j].key \in Keys
    BY <1>8, <2>1, EntryFacts
  <2>3. slots[j].key = key /\ loc[t].todo[key] = 1 => <<key, slots[j].val>> \in late'
    <3>1. slots[j].key = key => j \in Holding(key)
      BY <1>8, <2>1 DEF Holding
    <3>2. \A i \in Holding(key) : Clear(i) => j # i
      BY <1>8 DEF Clear, Holding
    <3> QED BY <1>1, <3>1, <3>2
  <2> QED BY <1>6, <1>7, <2>1, <2>2, <2>3 DEF Taken
<1>9. ASSUME NEW j \in Slots, Cover(j) PROVE Cover(j)'
  <2> SUFFICES ASSUME slots'[j] # None PROVE Cover(j)'
    BY DEF Cover
  <2> DEFINE k == slots[j].key  v == slots[j].val
  <2>1. slots'[j] = slots[j]
    BY <1>8
  <2>2. \/ <<k, v>> \in late \/ tags[k] > 0 \/ Taken(k)
        \/ \E u \in Threads : pc[u] = "tag" /\ loc[u].key = k /\ loc[u].val = v
    BY <1>9, <2>1 DEF Cover, Entering
  <2>3. \/ <<k, v>> \in late' \/ tags'[k] > 0 \/ \E u \in Threads : loc'[u].todo[k] > 0
        \/ \E u \in Threads : pc'[u] = "tag" /\ loc'[u].key = k /\ loc'[u].val = v
    <3>1. CASE <<k, v>> \in late \/ tags[k] > 0
      BY <1>1, <3>1
    <3>2. CASE Taken(k)
      BY <1>8, <2>1, <3>2
    <3>3. CASE \E u \in Threads : pc[u] = "tag" /\ loc[u].key = k /\ loc[u].val = v
      <4>1. pc' = pc
        BY <1>1
      <4> QED BY <1>5, <3>3, <4>1
    <3> QED BY <2>2, <3>1, <3>2, <3>3
  <2> QED BY <2>1, <2>3 DEF Cover, Taken, Entering
<1>10. ASSUME NEW tb \in Tables, NEW n \in Nat, Settled(tb, n) PROVE Settled(tb, n)'
  <2>1. ASSUME NEW j \in Slots, slots'[j] # None, slots'[j].table = tb, slots'[j].val < n
        PROVE  <<slots'[j].key, slots'[j].val>> \in late' \/ \E u \in Threads : loc'[u].todo[slots'[j].key] > 0
    BY <1>1, <1>8, <1>10, <2>1 DEF Settled
  <2>2. ASSUME NEW u \in Putting(tb)', loc'[u].val < n PROVE <<loc'[u].key, loc'[u].val>> \in late'
    <3>1. u \in Putting(tb) /\ u \in Threads
      BY <1>1, <1>5, <2>2 DEF Putting
    <3> QED BY <1>1, <1>5, <1>10, <2>2, <3>1 DEF Settled
  <2> QED BY <2>1, <2>2 DEF Settled, Taken
<1> QED BY <1>1, <1>5, <1>9, <1>10

\* A handler has answered for change n, or will when it is through its keys.
Answering(tb, n) ==
    \/ n = floor[tb]
    \/ \E u \in Threads : pc[u] = "inv" /\ loc[u].table = tb /\ loc[u].val = n

CompleteInv ==
    /\ CacheInv /\ \A i \in Slots : Cover(i)
    /\ \A tb \in Tables : floor[tb] <= pg[tb]
    /\ \A tb \in Tables, n \in Nat : Answering(tb, n) => Settled(tb, n)

\* No step unsettles what is settled.
LEMMA SettledStep ==
    ASSUME CacheInv, CacheInv', \A i \in Slots : Cover(i), [Next]_vars
    PROVE  /\ \A i \in Slots : Cover(i)'
           /\ \A tb \in Tables, n \in Nat : n <= pg[tb] /\ Settled(tb, n) => Settled(tb, n)'
<1> DEFINE Kept == /\ \A i \in Slots : Cover(i)'
                   /\ \A tb \in Tables, n \in Nat : n <= pg[tb] /\ Settled(tb, n) => Settled(tb, n)'
<1>0. Workers \subseteq Threads /\ Listener \in Threads
  BY DEF Threads
<1>1. ASSUME Calm PROVE Kept
  BY <1>1, CoverCalm, SettledCalm
<1>2. ASSUME NEW t \in Threads, PutWrite(t) \/ InvPop(t) \/ \E k \in Keys : InvKey(t, k) PROVE Kept
  BY <1>2, WriteKeeps, PopKeeps, KeyKeeps
<1> HIDE DEF Kept
<1>3. ASSUME NEW t \in Workers, Call(t) PROVE Kept
  BY <1>0, <1>1, <1>3, CalmOthers, CalmQuiet DEF Call
<1>4. ASSUME NEW t \in Threads, Step(t) PROVE Kept
  BY <1>1, <1>2, <1>4, CalmTag, CalmQuiet DEF Step
<1>5. ASSUME NEW tb \in Tables, RemoteCommit(tb) \/ Notified(tb) \/ Flush(tb) \/ Flushed(tb)
      PROVE  Kept
  BY <1>0, <1>1, <1>5, CalmOthers, CalmQuiet
<1>6. ASSUME UNCHANGED vars \/ \E i \in Slots : Sweep(i) PROVE Kept
  BY <1>1, <1>6, CalmOthers
<1>7. Kept
  BY <1>3, <1>4, <1>5, <1>6 DEF Next
<1> QED BY <1>7 DEF Kept

\* Commits never go back, and a handler answers for none that has not happened.
LEMMA FloorStep ==
    ASSUME CacheInv, [Next]_vars, NEW tb \in Tables, floor[tb] <= pg[tb]
    PROVE  /\ pg[tb] <= pg'[tb] /\ floor'[tb] <= pg'[tb]
           /\ \/ floor'[tb] = floor[tb]
              \/ \E t \in Threads : pc[t] = "inv" /\ loc[t].table = tb /\ floor'[tb] = loc[t].val
<1> USE CacheTypes
<1>1. pg' = pg \/ \E x \in Tables : pg' = [pg EXCEPT ![x] = @ + 1]
  BY DEF Next, Call, Step, ReadL1, ReadL2, Query, Commit, Write, PutScan, PutWrite, PutTag, PutQuota,
         PutEvict, InvPop, InvKey, InvL1, Enqueue, RemoteCommit, Notified, Flush, Flushed, Sweep, vars, db
<1>2. pg[tb] <= pg'[tb] /\ pg[tb] \in Nat /\ pg'[tb] \in Nat
  BY ONLY <1>1, pg \in [Tables -> Nat], tb \in Tables, SMTT(60)
<1>3. CASE floor' = floor
  BY <1>2, <1>3, SMTT(60)
<1>4. ASSUME NEW t \in Threads, InvL1(t)
      PROVE  \/ floor'[tb] = floor[tb]
             \/ pc[t] = "inv" /\ loc[t].table = tb /\ floor'[tb] = loc[t].val /\ loc[t].val <= pg[tb]
  BY <1>4, AnswerFacts DEF CacheInv, ThreadOK
<1>5. floor' = floor \/ \E t \in Threads : InvL1(t)
  BY DEF Next, Call, Step, ReadL1, ReadL2, Query, Commit, Write, PutScan, PutWrite, PutTag, PutQuota,
         PutEvict, InvPop, InvKey, Enqueue, RemoteCommit, Notified, Flush, Flushed, Sweep, vars
<1>6. ASSUME NEW t \in Threads, InvL1(t) PROVE floor'[tb] <= pg'[tb]
  <2>1. floor'[tb] \in Nat /\ floor'[tb] <= pg[tb]
    BY <1>4, <1>6, AnswerFacts
  <2> QED BY ONLY <1>2, <2>1, SMTT(60)
<1> QED BY <1>2, <1>3, <1>4, <1>5, <1>6

LEMMA InvOrigin ==
    ASSUME CacheInv, CacheInv', [Next]_vars, NEW u \in Threads, pc'[u] = "inv"
    PROVE  \/ InvPop(u)
           \/ pc[u] = "inv" /\ loc'[u].table = loc[u].table /\ loc'[u].val = loc[u].val
<1> USE CacheTypes
<1> DEFINE Same == pc[u] = "inv" /\ loc'[u].table = loc[u].table /\ loc'[u].val = loc[u].val
<1>0. Workers \subseteq Threads /\ Listener \in Threads
  BY DEF Threads
<1>1. ASSUME UNCHANGED <<pc, loc>> PROVE Same
  BY <1>1
<1>2. ASSUME NEW t \in Threads,
             \/ \E k \in Keys : Query(t, k)
             \/ \E tb \in Tables : Commit(t, tb) \/ Write(t, tb)
             \/ \E tb \in Tables : t = Listener /\ Notified(tb)
             \/ PutScan(t) \/ PutQuota(t) \/ PutEvict(t) \/ InvL1(t) \/ Enqueue(t)
      PROVE  Same
  <2>1. pc'[t] # "inv" /\ \A v \in Threads \ {t} : pc'[v] = pc[v] /\ loc'[v] = loc[v]
    BY <1>2, QuietMoves
  <2> QED BY <2>1
<1>3. ASSUME NEW t \in Threads, PutWrite(t) \/ PutTag(t) PROVE Same
  BY <1>3 DEF PutWrite, PutTag, Goto
<1>4. ASSUME NEW t \in Threads, InvPop(t) PROVE InvPop(u) \/ Same
  <2>1. u # t => pc'[u] = pc[u] /\ loc'[u] = loc[u]
    BY <1>4 DEF InvPop, Goto
  <2> QED BY <1>4, <2>1
<1>5. ASSUME NEW t \in Threads, NEW k \in Keys, InvKey(t, k) PROVE Same
  BY <1>5, KeyKeeps
<1> HIDE DEF Same
<1>6. ASSUME NEW t \in Workers, Call(t) PROVE Same
  BY <1>0, <1>1, <1>2, <1>6 DEF Call, ReadL1, ReadL2
<1>7. ASSUME NEW t \in Threads, Step(t) PROVE InvPop(u) \/ Same
  BY <1>2, <1>3, <1>4, <1>5, <1>7 DEF Step
<1>8. ASSUME NEW tb \in Tables, RemoteCommit(tb) \/ Notified(tb) \/ Flush(tb) \/ Flushed(tb)
      PROVE  Same
  BY <1>0, <1>1, <1>2, <1>8 DEF RemoteCommit, Flush, Flushed
<1>9. ASSUME UNCHANGED vars \/ \E i \in Slots : Sweep(i) PROVE Same
  BY <1>1, <1>9 DEF Sweep, vars
<1>10. InvPop(u) \/ Same
  BY <1>6, <1>7, <1>8, <1>9 DEF Next
<1> QED BY <1>10 DEF Same

LEMMA CompleteStep == CompleteInv /\ [Next]_vars => CompleteInv'
<1> SUFFICES ASSUME CompleteInv, [Next]_vars PROVE CompleteInv'
  OBVIOUS
<1>1. CacheInv /\ CacheInv' /\ (\A i \in Slots : Cover(i)) /\ \A tb \in Tables : floor[tb] <= pg[tb]
  BY CacheStep DEF CompleteInv
<1>2. \A tb \in Tables, n \in Nat : n <= pg[tb] /\ Settled(tb, n) => Settled(tb, n)'
  BY <1>1, SettledStep
<1>3. ASSUME NEW tb \in Tables, NEW n \in Nat, Answering(tb, n) PROVE Settled(tb, n)'
  <2>1. Settled(tb, n)
    BY <1>3 DEF CompleteInv
  <2>2. n <= pg[tb]
    BY <1>1, <1>3 DEF Answering, CacheInv, ThreadOK
  <2> QED BY <1>2, <2>1, <2>2
<1>4. ASSUME NEW tb \in Tables, NEW n \in Nat, n = floor'[tb] PROVE Settled(tb, n)'
  BY <1>1, <1>3, <1>4, FloorStep, SMTT(60) DEF Answering
<1>5. ASSUME NEW tb \in Tables, NEW n \in Nat, NEW u \in Threads,
             pc'[u] = "inv", loc'[u].table = tb, loc'[u].val = n
      PROVE  Settled(tb, n)'
  <2>1. CASE InvPop(u)
    BY <1>1, <1>5, <2>1, PopKeeps
  <2>2. CASE pc[u] = "inv" /\ loc'[u].table = loc[u].table /\ loc'[u].val = loc[u].val
    BY <1>3, <1>5, <2>2 DEF Answering
  <2> QED BY <1>1, <1>5, <2>1, <2>2, InvOrigin
<1>6. \A tb \in Tables : floor'[tb] <= pg'[tb]
  BY <1>1, FloorStep
<1>7. \A i \in Slots : Cover(i)'
  BY <1>1, SettledStep
<1> QED BY <1>1, <1>4, <1>5, <1>6, <1>7 DEF CompleteInv, Answering

\* When a handler has answered for a change, nothing older is left in any slot but
\* what invalidate_table() is known to miss (Db::query_cached() racing with it, a
\* second slot of a key) or another invalidation has taken over.
THEOREM InvalidationsComplete == Spec => []InvalidationComplete
<1>1. Init => CompleteInv
  <2> SUFFICES ASSUME Init PROVE CompleteInv
    OBVIOUS
  <2>1. CacheInv /\ \A i \in Slots : slots[i] = None
    BY CacheInit DEF Init
  <2>2. \A t \in Threads : pc[t] = "idle"
    BY DEF Init
  <2>3. \A tb \in Tables : floor[tb] <= pg[tb]
    BY SMTT(60) DEF Init
  <2>4. \A tb \in Tables, n \in Nat : Settled(tb, n)
    BY <2>1, <2>2 DEF Settled, Putting
  <2> QED BY <2>1, <2>3, <2>4 DEF CompleteInv, Cover
<1>2. CompleteInv => InvalidationComplete
  <2> SUFFICES ASSUME CompleteInv, NEW i \in Slots, slots[i] # None, slots[i].val < floor[slots[i].table]
               PROVE  <<slots[i].key, slots[i].val>> \in late \/ Taken(slots[i].key)
    BY DEF InvalidationComplete, Taken
  <2>1. CacheInv /\ slots[i].table \in Tables /\ floor[slots[i].table] \in Nat
    BY EntryFacts, CacheTypes DEF CompleteInv
  <2>2. Settled(slots[i].table, floor[slots[i].table])
    BY <2>1 DEF CompleteInv, Answering
  <2> QED BY <2>2 DEF Settled
<1> QED BY <1>1, <1>2, CompleteStep, PTL DEF Spec
=============================================================================
