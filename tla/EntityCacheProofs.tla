------------------------- MODULE EntityCacheProofs -------------------------
(***************************************************************************)
(* EntityCache and the listener that serves it, for any number of readers, *)
(* keys, slots and sessions: the listener's theorems, which need only its  *)
(* own variables (ListenInv, StopInv), the inductive invariant of the rows *)
(* (RowsInv) and the lemmas on the probe, the order of use, the            *)
(* notifications and the change of one slot.                               *)
(*                                                                         *)
(* That an old row has its notification coming is an invariant of the      *)
(* slots and of the readers together: a row read before a commit is        *)
(* covered by the notification of that commit from the moment it is read,  *)
(* and stays so when it is put (SlotOK, ReaderOK).  Every step keeps       *)
(* RowsInv, with one lemma for each operation.                             *)
(***************************************************************************)
EXTENDS EntityCache, FiniteSetTheorems, WellFoundedInduction, TLAPS

\* A step is first-order unless it names the SMT solver.
USE ZenonT(30)

-----------------------------------------------------------------------------
(* The listener *)

\* Whoever reads from a session that exists has subscribed, or was refused.
ListenInv ==
    /\ listening => alive
    /\ npc \in {"recv", "handle"} /\ alive /\ ~refused => listening
    /\ npc = "sleep" /\ conn = "ready" => refused

\* Once stop() has closed the connection, the thread is on its way out, or finds
\* its session ended, or was about to open another one.
StopInv ==
    /\ npc = "off" => ~running /\ spc = "idle"
    /\ spc # "idle" => ~running
    /\ conn = "none" => npc \in {"off", "sleep", "exit"}
    /\ spc = "join" => raced \/ (npc # "connect" /\ (npc \in {"sleep", "exit"} \/ ~alive))

listenerVars == <<running, conn, npc, spc, alive, listening, refused, raced>>

LEMMA ListenerFrame ==
    ASSUME ListenInv, StopInv, UNCHANGED listenerVars
    PROVE  ListenInv' /\ StopInv'
BY DEF ListenInv, StopInv, listenerVars

LEMMA ListenerStep ==
    ASSUME ListenInv, StopInv, NotifyNext
    PROVE  ListenInv' /\ StopInv'
<1> USE DEF ListenInv, StopInv
<1>1. CASE NStart
  BY <1>1 DEF NStart, history
<1>2. CASE NConnect
  BY <1>2, SMTT(60) DEF NConnect, history
<1>3. CASE NListen
  BY <1>3, SMTT(60) DEF NListen
<1>4. CASE NSleep
  BY <1>4 DEF NSleep, Top, history
<1>5. CASE NRecv
  BY <1>5 DEF NRecv, history
<1>6. CASE NBroken
  BY <1>6 DEF NBroken, Top, history
<1>7. CASE StopFlag
  BY <1>7 DEF StopFlag, history
<1>8. CASE StopClose
  BY <1>8 DEF StopClose
<1>9. CASE StopJoin
  BY <1>9 DEF StopJoin, history
<1>10. CASE NDie
  BY <1>10 DEF NDie
<1> QED BY <1>1, <1>2, <1>3, <1>4, <1>5, <1>6, <1>7, <1>8, <1>9, <1>10 DEF NotifyNext, NotifyStep

LEMMA ListenerHandles ==
    ASSUME ListenInv, StopInv, npc = "handle", NHandled
    PROVE  ListenInv' /\ StopInv'
BY DEF ListenInv, StopInv, NHandled, Top, history

\* The cache's own steps leave the listener alone; a commit adds a notification.
LEMMA CacheFrame == Cache => UNCHANGED listenerVars
<1> SUFFICES ASSUME Cache PROVE UNCHANGED listenerVars
  OBVIOUS
<1>1. UNCHANGED notifyVars => UNCHANGED listenerVars
  BY DEF notifyVars, listenerVars
<1>2. ASSUME NEW k, NEW v, Notify(k, v) PROVE UNCHANGED listenerVars
  BY <1>2 DEF Notify, listenerVars
<1>3. CASE \E r \in Readers : Scan(r) \/ PutRow(r) \/ \E k \in Keys : Hit(r, k) \/ Query(r, k)
  BY <1>1, <1>3 DEF Scan, PutRow, Hit, Query
<1>4. CASE \E k \in Keys : Put(k, "Dirty") \/ Put(k, "Tombstone") \/ Pin(k) \/ Unpin(k)
  BY <1>1, <1>4 DEF Put, Pin, Unpin
<1>5. CASE \E k \in Keys : Flush(k) \/ RemoteCommit(k)
  BY <1>2, <1>5 DEF Flush, RemoteCommit
<1>6. CASE \E k \in Keys : \E v \in 2 .. pgver[k] : MarkFlushed(k, v)
  BY <1>1, <1>6 DEF MarkFlushed
<1>7. CASE (\E i \in Slots : SweepExpired(i)) \/ SweepChoose \/ SweepVictim
  BY <1>1, <1>7 DEF SweepExpired, SweepChoose, SweepVictim
<1> QED BY <1>3, <1>4, <1>5, <1>6, <1>7 DEF Cache

LEMMA ListenerInvariant == Spec => [](ListenInv /\ StopInv)
<1>1. Init => ListenInv /\ StopInv
  BY DEF Init, NotifyInit, ListenInv, StopInv
<1>2. ListenInv /\ StopInv /\ [Next]_vars => (ListenInv /\ StopInv)'
  <2> SUFFICES ASSUME ListenInv, StopInv, [Next]_vars PROVE ListenInv' /\ StopInv'
    OBVIOUS
  <2>1. CASE Cache
    BY <2>1, CacheFrame, ListenerFrame
  <2>2. CASE Handle
    BY <2>2, ListenerHandles DEF Handle
  <2>3. CASE NotifyNext
    BY <2>3, ListenerStep
  <2>4. CASE UNCHANGED vars
    BY <2>4, ListenerFrame DEF vars, notifyVars, listenerVars
  <2> QED BY <2>1, <2>2, <2>3, <2>4 DEF Next
<1> QED BY <1>1, <1>2, PTL DEF Spec

(* A thread that waits for messages of a session that exists has done its     *)
(* LISTEN there, through any number of reconnects, unless the server has      *)
(* refused one (connect_and_subscribe(), loop()).                             *)
THEOREM ReadersSubscribe == Spec => []ReadsSubscribed
<1>1. ListenInv /\ StopInv => ReadsSubscribed
  BY DEF ListenInv, ReadsSubscribed
<1> QED BY <1>1, ListenerInvariant, PTL

(* stop() finds the thread in a session that will not end only if it came     *)
(* between the look at running_ and the end of connect() (notify.cpp:77).     *)
THEOREM StopIsHeard == Spec => []StopWakesReader
<1>1. ListenInv /\ StopInv => StopWakesReader
  BY DEF StopInv, StopWakesReader
<1> QED BY <1>1, ListenerInvariant, PTL

-----------------------------------------------------------------------------
(* The rows *)

Msgs == [key : Keys, version : Nat \ {0, 1}]

Messages ==
    /\ inbox \in Seq(Msgs) /\ handling \in Seq(Msgs)
    /\ npc = "handle" => Len(handling) = 1
    /\ npc # "handle" => handling = << >>

\* A commit newer than version v of k is, or will be, told, or is known to be lost
\* on the reader that has v.
Covered(k, v) == OnItsWay(k, v) \/ k \in lost \/ <<k, v>> \in late

Types ==
    /\ slots \in [Slots -> Entries \cup {None}]
    /\ calls \in 0 .. MaxCalls
    /\ pgver \in [Keys -> 1 .. calls + 1] /\ issued \in [Keys -> 1 .. calls + 1]
    /\ rpc \in [Readers -> {"idle", "scan", "write"}] /\ key \in [Readers -> Keys \cup {None}]
    /\ row \in [Readers -> 0 .. MaxCalls + 1] /\ at \in [Readers -> 0 .. NSlots]
    /\ victim # 0 => victim \in Slots

\* The order of use has every slot.
LruOK == lru \in [Slots -> Slots] /\ \A i \in Slots : \E n \in Slots : lru[n] = i

SlotOK(i) ==
    slots[i] # None =>
        LET e == slots[i]
        IN  /\ i \in Range(Probe(e.key))
            /\ e.state = "Clean" => e.data <= pgver[e.key]
            /\ e.state # "Clean" => e.data = e.version
            /\ e.key \notin Local =>
                 /\ e.state = "Clean" /\ e.version = 1
                 /\ e.data < pgver[e.key] => Covered(e.key, e.data) \/ e.key \in twice

\* A key in two slots has been recorded.
Unique ==
    \A i, j \in Slots :
        slots[i] # None /\ slots[j] # None /\ slots[i].key = slots[j].key /\ i # j
            => slots[i].key \in twice

ReaderOK(r) ==
    /\ rpc[r] = "idle" <=> key[r] = None
    /\ rpc[r] # "idle" =>
         /\ row[r] \in 1 .. MaxCalls + 1 /\ row[r] <= pgver[key[r]]
         /\ key[r] \notin Local /\ row[r] < pgver[key[r]] => Covered(key[r], row[r])
    /\ rpc[r] = "write" => at[r] \in Slots /\ at[r] \in Range(Probe(key[r]))

RowsInv ==
    /\ Messages /\ Types /\ LruOK /\ BytesExact /\ Unique
    /\ \A i \in Slots : SlotOK(i)
    /\ \A r \in Readers : ReaderOK(r)

-----------------------------------------------------------------------------
(* The probe and the order of use *)

LEMMA MinIn ==
    ASSUME NEW S \in SUBSET Nat, S # {}
    PROVE  Min(S) \in S
<1>1. PICK x \in S : \A y \in S : ~(<<y, x>> \in OpToRel(<, Nat))
  BY NatLessThanWellFounded, WFMin
<1>2. \A y \in S : ~(y < x)
  BY <1>1 DEF OpToRel
<1>3. \A y \in S : x <= y
  BY <1>2, SMTT(60)
<1> QED BY <1>3 DEF Min

LEMMA SlotFacts == NSlots \in Nat \ {0} /\ 0 \notin Slots /\ NSlots \in Slots /\ IsFiniteSet(Slots)
BY EntityAssumption, FS_Interval, SMTT(60) DEF Slots

LEMMA FirstFacts ==
    ASSUME NEW k, NEW S \in SUBSET Slots
    PROVE  /\ First(k, S) # 0 => First(k, S) \in S /\ First(k, S) \in Range(Probe(k))
           /\ (\E i \in S : i \in Range(Probe(k))) => First(k, S) # 0
<1> DEFINE found == {n \in 1 .. ProbeLength : Probe(k)[n] \in S}
<1>0. ProbeLength \in Nat
  BY EntityAssumption
<1>1. found \in SUBSET Nat /\ DOMAIN Probe(k) = 1 .. ProbeLength
  BY <1>0, SMTT(60) DEF Probe
<1>2. First(k, S) = IF found = {} THEN 0 ELSE Probe(k)[Min(found)]
  BY DEF First
<1>3. found # {} => Min(found) \in found
  BY <1>1, MinIn
<1>4. found # {} => First(k, S) \in S /\ First(k, S) \in Range(Probe(k))
  BY <1>1, <1>2, <1>3 DEF Range
<1>5. (\E i \in S : i \in Range(Probe(k))) => found # {}
  BY <1>1 DEF Range
<1> QED BY <1>2, <1>4, <1>5, SlotFacts

LEMMA OldestIn ==
    ASSUME LruOK, NEW S \in SUBSET Slots, S # {}
    PROVE  Oldest(S) \in S
<1> DEFINE at_ == {n \in Slots : lru[n] \in S}
<1>1. at_ \in SUBSET Nat /\ at_ # {}
  <2>1. Slots \subseteq Nat
    BY SMTT(60) DEF Slots
  <2>2. PICK i \in S : i \in Slots
    OBVIOUS
  <2>3. PICK n \in Slots : lru[n] = i
    BY DEF LruOK
  <2> QED BY <2>1, <2>3
<1>2. Min(at_) \in at_
  BY <1>1, MinIn
<1> QED BY <1>2 DEF Oldest

LEMMA TouchOK ==
    ASSUME LruOK, NEW i \in Slots, Touch(i)
    PROVE  LruOK'
<1> DEFINE p == CHOOSE n \in Slots : lru[n] = i
<1>1. p \in Slots /\ lru[p] = i
  BY DEF LruOK
<1>2. lru' = [n \in Slots |-> IF n < p THEN lru[n] ELSE IF n < NSlots THEN lru[n + 1] ELSE i]
  BY DEF Touch
<1> HIDE DEF p
<1>3. lru' \in [Slots -> Slots]
  <2>1. \A n \in Slots : n < NSlots => n + 1 \in Slots
    BY SlotFacts, SMTT(60) DEF Slots
  <2>2. \A n \in Slots : lru[n] \in Slots
    BY DEF LruOK
  <2> QED BY <1>2, <2>1, <2>2
<1>4. ASSUME NEW j \in Slots PROVE \E n \in Slots : lru'[n] = j
  <2>1. CASE j = i
    <3>1. lru'[NSlots] = i
      BY <1>1, <1>2, SlotFacts, SMTT(60) DEF Slots
    <3> QED BY <2>1, <3>1, SlotFacts
  <2>2. CASE j # i
    <3>1. PICK n \in Slots : lru[n] = j
      BY DEF LruOK
    <3>2. CASE n < p
      BY <1>2, <3>1, <3>2
    <3>3. CASE ~(n < p)
      <4>1. n - 1 \in Slots /\ ~(n - 1 < p) /\ n - 1 < NSlots /\ (n - 1) + 1 = n
        BY <1>1, <2>2, <3>1, <3>3, SlotFacts, SMTT(60) DEF Slots
      <4>2. lru'[n - 1] = lru[n]
        BY <1>2, <4>1
      <4> QED BY <3>1, <4>1, <4>2
    <3> QED BY <3>2, <3>3
  <2> QED BY <2>1, <2>2
<1> QED BY <1>3, <1>4 DEF LruOK

LEMMA HoldingSlots == Empty \in SUBSET Slots /\ \A k : Holding(k) \in SUBSET Slots
BY DEF Empty, Holding

LEMMA ProbeSlots ==
    ASSUME NEW k \in Keys
    PROVE  Range(Probe(k)) \in SUBSET Slots
<1>1. Home[k] \in 1 .. NSlots /\ ProbeLength \in Nat /\ NSlots \in Nat \ {0}
  BY EntityAssumption DEF Slots
<1>2. \A n \in 1 .. ProbeLength : Home[k] + n - 2 \in Nat
  BY <1>1, SMTT(60)
<1>3. \A a \in Nat : (a % NSlots) + 1 \in 1 .. NSlots
  BY <1>1, SMTT(60)
<1>4. \A n \in 1 .. ProbeLength : Probe(k)[n] \in Slots
  BY <1>2, <1>3 DEF Probe, Slots
<1> QED BY <1>4 DEF Range, Probe

LEMMA TargetFacts ==
    ASSUME LruOK, NEW k \in Keys, Target(k) # 0
    PROVE  Target(k) \in Slots /\ Target(k) \in Range(Probe(k))
<1> DEFINE free == {i \in Range(Probe(k)) : ~pinned[i]}
<1>1. free \in SUBSET Slots
  BY ProbeSlots
<1>2. free # {} => Oldest(free) \in free
  BY <1>1, OldestIn
<1>3. First(k, Holding(k)) # 0 =>
         First(k, Holding(k)) \in Slots /\ First(k, Holding(k)) \in Range(Probe(k))
  BY FirstFacts, HoldingSlots
<1>4. First(k, Empty) # 0 => First(k, Empty) \in Slots /\ First(k, Empty) \in Range(Probe(k))
  BY FirstFacts, HoldingSlots
<1> QED BY <1>1, <1>2, <1>3, <1>4 DEF Target

-----------------------------------------------------------------------------
(* Notifications *)

Told(s, k, v) == \E i \in DOMAIN s : s[i].key = k /\ s[i].version > v

LEMMA WayFacts ==
    \A k, v : /\ OnItsWay(k, v) <=> Told(inbox, k, v) \/ Told(handling, k, v)
              /\ OnItsWay(k, v)' <=> Told(inbox', k, v) \/ Told(handling', k, v)
BY DEF OnItsWay, Told, Range

LEMMA HeadTold ==
    ASSUME NEW s \in Seq(Msgs), s # << >>
    PROVE  /\ Tail(s) \in Seq(Msgs) /\ <<Head(s)>> \in Seq(Msgs) /\ Len(<<Head(s)>>) = 1
           /\ \A k, v : Told(s, k, v) => Told(<<Head(s)>>, k, v) \/ Told(Tail(s), k, v)
<1>1. /\ Tail(s) \in Seq(Msgs) /\ Head(s) = s[1] /\ s[1] \in Msgs
      /\ Len(s) \in Nat \ {0} /\ DOMAIN s = 1 .. Len(s) /\ DOMAIN Tail(s) = 1 .. Len(s) - 1
      /\ \A i \in 1 .. Len(s) - 1 : Tail(s)[i] = s[i + 1]
  BY SMTT(60)
<1>2. <<Head(s)>> \in Seq(Msgs) /\ Len(<<Head(s)>>) = 1 /\ 1 \in DOMAIN <<Head(s)>> /\ <<Head(s)>>[1] = s[1]
  BY <1>1, SMTT(60)
<1>3. ASSUME NEW k, NEW v, NEW i \in DOMAIN s, s[i].key = k, s[i].version > v
      PROVE  Told(<<Head(s)>>, k, v) \/ Told(Tail(s), k, v)
  <2>1. CASE i = 1
    BY <1>2, <1>3, <2>1 DEF Told
  <2>2. CASE i # 1
    <3>1. i - 1 \in DOMAIN Tail(s) /\ Tail(s)[i - 1] = s[i]
      BY <1>1, <2>2, SMTT(60)
    <3> QED BY <1>3, <3>1 DEF Told
  <2> QED BY <2>1, <2>2
<1> QED BY <1>1, <1>2, <1>3 DEF Told

LEMMA AppendTold ==
    ASSUME NEW s \in Seq(Msgs), NEW m \in Msgs
    PROVE  /\ Append(s, m) \in Seq(Msgs)
           /\ \A k, v : Told(s, k, v) => Told(Append(s, m), k, v)
           /\ \A v : m.version > v => Told(Append(s, m), m.key, v)
<1>1. /\ Append(s, m) \in Seq(Msgs) /\ Len(s) \in Nat
      /\ DOMAIN s = 1 .. Len(s) /\ DOMAIN Append(s, m) = 1 .. Len(s) + 1
      /\ Append(s, m)[Len(s) + 1] = m /\ \A i \in 1 .. Len(s) : Append(s, m)[i] = s[i]
  BY SMTT(60)
<1>2. /\ Len(s) + 1 \in DOMAIN Append(s, m)
      /\ \A i \in DOMAIN s : i \in DOMAIN Append(s, m) /\ Append(s, m)[i] = s[i]
  BY <1>1, SMTT(60)
<1> QED BY <1>1, <1>2 DEF Told

LEMMA CutTold ==
    ASSUME NEW s \in Seq(Msgs), NEW n \in 0 .. Len(s)
    PROVE  /\ SubSeq(s, 1, n) \in Seq(Msgs)
           /\ \A k, v : Told(s, k, v) =>
                \/ Told(SubSeq(s, 1, n), k, v)
                \/ \E i \in DOMAIN SubSeq(s, n + 1, Len(s)) : SubSeq(s, n + 1, Len(s))[i].key = k
<1> DEFINE a == SubSeq(s, 1, n)
           b == SubSeq(s, n + 1, Len(s))
<1>1. /\ a \in Seq(Msgs) /\ Len(s) \in Nat /\ n \in Nat /\ n <= Len(s) /\ DOMAIN s = 1 .. Len(s)
      /\ DOMAIN a = 1 .. n /\ \A i \in 1 .. n : a[i] = s[i]
  BY SMTT(60)
<1>2. DOMAIN b = 1 .. Len(s) - n /\ \A i \in 1 .. Len(s) - n : b[i] = s[n + i]
  BY SMTT(60)
<1> HIDE DEF a, b
<1>3. ASSUME NEW k, NEW v, NEW i \in DOMAIN s, s[i].key = k, s[i].version > v
      PROVE  Told(a, k, v) \/ \E j \in DOMAIN b : b[j].key = k
  <2>1. CASE i <= n
    <3>1. i \in DOMAIN a /\ a[i] = s[i]
      BY <1>1, <2>1, SMTT(60)
    <3> QED BY <1>3, <3>1 DEF Told
  <2>2. CASE ~(i <= n)
    <3>1. i - n \in DOMAIN b /\ b[i - n] = s[i]
      BY <1>1, <1>2, <2>2, SMTT(60)
    <3> QED BY <1>3, <3>1
  <2> QED BY <1>1, <2>1, <2>2
<1> QED BY <1>1, <1>3 DEF Told, a, b

\* The listener's steps lose no notification without recording it.
LEMMA NotifyCovers ==
    ASSUME Messages, NotifyNext, late' = late
    PROVE  Messages' /\ \A k, v : Covered(k, v) => Covered(k, v)'
<1>1. ASSUME UNCHANGED <<inbox, handling, lost>>, npc = "handle" <=> npc' = "handle"
      PROVE  Messages' /\ \A k, v : Covered(k, v) => Covered(k, v)'
  BY <1>1 DEF Messages, Covered, OnItsWay
<1>2. CASE NStart
  BY <1>1, <1>2 DEF NStart, history
<1>3. CASE NConnect
  BY <1>1, <1>3 DEF NConnect, history
<1>4. CASE NListen
  BY <1>1, <1>4 DEF NListen
<1>5. CASE NSleep
  BY <1>1, <1>5 DEF NSleep, Top, history
<1>6. CASE NBroken
  BY <1>1, <1>6 DEF NBroken, Top, history
<1>7. CASE StopFlag
  BY <1>1, <1>7 DEF StopFlag, history
<1>8. CASE StopJoin
  BY <1>1, <1>8 DEF StopJoin, history
<1>9. CASE NRecv
  <2>1. /\ npc = "recv" /\ inbox # << >> /\ handling' = <<Head(inbox)>> /\ inbox' = Tail(inbox)
        /\ npc' = "handle" /\ lost' = lost
    BY <1>9 DEF NRecv, history
  <2>2. inbox \in Seq(Msgs) /\ handling = << >>
    BY <2>1 DEF Messages
  <2>3. \A k, v : ~Told(handling, k, v)
    BY <2>2, SMTT(60) DEF Told
  <2>4. \A k, v : OnItsWay(k, v) => OnItsWay(k, v)'
    BY <2>1, <2>2, <2>3, HeadTold, WayFacts
  <2> QED BY <2>1, <2>2, <2>4, HeadTold DEF Messages, Covered
<1>10. CASE StopClose
  <2>1. UNCHANGED <<handling, npc>>
    BY <1>10 DEF StopClose
  <2>2. CASE conn = "none"
    BY <1>1, <1>10, <2>1, <2>2 DEF StopClose
  <2>3. CASE conn # "none"
    <3>1. inbox' = << >> /\ lost' = lost \cup {inbox[i].key : i \in DOMAIN inbox}
      BY <1>10, <2>3 DEF StopClose, Drop
    <3>2. \A k, v : Told(inbox, k, v) => k \in lost'
      BY <3>1 DEF Told
    <3>3. inbox' \in Seq(Msgs)
      BY <3>1, SMTT(60)
    <3> QED BY <2>1, <3>1, <3>2, <3>3, WayFacts DEF Messages, Covered
  <2> QED BY <2>2, <2>3
<1>11. CASE NDie
  <2>1. UNCHANGED <<handling, npc>>
    BY <1>11 DEF NDie
  <2>2. PICK n \in 0 .. Len(inbox) :
           /\ inbox' = SubSeq(inbox, 1, n)
           /\ lost' = lost \cup {SubSeq(inbox, n + 1, Len(inbox))[i].key :
                                   i \in DOMAIN SubSeq(inbox, n + 1, Len(inbox))}
    BY <1>11 DEF NDie, Drop
  <2>3. inbox \in Seq(Msgs)
    BY DEF Messages
  <2>4. inbox' \in Seq(Msgs) /\ \A k, v : Told(inbox, k, v) => Told(inbox', k, v) \/ k \in lost'
    BY <2>2, <2>3, CutTold, SMTT(60)
  <2>5. lost \subseteq lost'
    BY <2>2
  <2> QED BY <2>1, <2>4, <2>5, WayFacts DEF Messages, Covered
<1> QED BY <1>2, <1>3, <1>4, <1>5, <1>6, <1>7, <1>8, <1>9, <1>10, <1>11 DEF NotifyNext, NotifyStep

\* A commit of version v of k is told, or recorded as lost, and so is whatever was.
LEMMA CommitCovers ==
    ASSUME Messages, NEW k \in Keys, NEW v \in Nat \ {0, 1}, Notify(k, v), late' = late
    PROVE  /\ Messages' /\ \A j, u : Covered(j, u) => Covered(j, u)'
           /\ \A u : v > u => Covered(k, u)'
<1> DEFINE m == [key |-> k, version |-> v]
<1>1. m \in Msgs /\ m.key = k /\ m.version = v /\ inbox \in Seq(Msgs)
  BY DEF Msgs, Messages
<1>2. UNCHANGED <<handling, npc>>
  BY DEF Notify
<1>3. CASE listening
  <2>1. inbox' = Append(inbox, m) /\ lost' = lost
    BY <1>3 DEF Notify
  <2> HIDE DEF m
  <2>2. /\ inbox' \in Seq(Msgs)
        /\ \A j, u : Told(inbox, j, u) => Told(inbox', j, u)
        /\ \A u : v > u => Told(inbox', k, u)
    BY <1>1, <2>1, AppendTold
  <2> QED BY <1>2, <2>1, <2>2, WayFacts DEF Messages, Covered
<1>4. CASE ~listening
  <2>1. inbox' = inbox /\ lost' = lost \cup {k}
    BY <1>4 DEF Notify
  <2> QED BY <1>2, <2>1, WayFacts DEF Messages, Covered
<1> QED BY <1>3, <1>4

-----------------------------------------------------------------------------
(* What a step leaves alone *)

\* Nothing that is covered is uncovered, and a commit covers all that it makes old.
CoverStep ==
    /\ \A k \in Keys, v \in Nat : Covered(k, v) => Covered(k, v)'
    /\ pgver' \in [Keys -> Nat]
    /\ \A k \in Keys : pgver[k] <= pgver'[k]
    /\ \A k \in Keys \ Local : pgver'[k] = pgver[k] \/ \A v \in 0 .. pgver[k] : Covered(k, v)'
    /\ twice \subseteq twice'

LEMMA TypeFacts ==
    ASSUME Types
    PROVE  /\ MaxCalls \in Nat /\ calls \in Nat /\ calls <= MaxCalls
           /\ pgver \in [Keys -> Nat] /\ \A k \in Keys : pgver[k] >= 1 /\ pgver[k] <= MaxCalls + 1
           /\ \A i \in Slots : slots[i] # None => slots[i] \in Entries
           /\ \A r \in Readers : key[r] # None => key[r] \in Keys
<1>1. MaxCalls \in Nat
  BY EntityAssumption
<1>2. calls \in 0 .. MaxCalls /\ pgver \in [Keys -> 1 .. calls + 1]
  BY DEF Types
<1>3. /\ calls \in Nat /\ calls <= MaxCalls /\ pgver \in [Keys -> Nat]
      /\ \A k \in Keys : pgver[k] >= 1 /\ pgver[k] <= MaxCalls + 1
  BY <1>1, <1>2, SMTT(60)
<1> QED BY <1>1, <1>3 DEF Types

LEMMA EntryFacts ==
    ASSUME NEW e \in Entries
    PROVE  /\ e.key \in Keys /\ e.version \in Nat /\ e.data \in Nat /\ e.data >= 1 /\ e # None
           /\ e.state \in {"Clean", "Dirty", "Tombstone"}
<1>1. MaxCalls \in Nat /\ None \notin Entries
  BY EntityAssumption
<1>2. e.version \in 1 .. MaxCalls + 1 /\ e.data \in 1 .. MaxCalls + 1
  BY DEF Entries
<1>3. e.version \in Nat /\ e.data \in Nat /\ e.data >= 1
  BY <1>1, <1>2, SMTT(60)
<1> QED BY <1>1, <1>3 DEF Entries

LEMMA QuietStep ==
    ASSUME Types, UNCHANGED <<inbox, handling, lost, late, pgver>>, twice \subseteq twice'
    PROVE  CoverStep
BY TypeFacts, SMTT(60) DEF CoverStep, Covered, OnItsWay

LEMMA SlotKept ==
    ASSUME Types, CoverStep, NEW i \in Slots, SlotOK(i), slots'[i] \in {slots[i], None}
    PROVE  SlotOK(i)'
<1>1. CASE slots'[i] = None
  BY <1>1 DEF SlotOK
<1>2. CASE slots'[i] = slots[i] /\ slots[i] # None
  <2>0. PICK e \in Entries : e = slots[i]
    BY <1>2, TypeFacts
  <2> DEFINE k == e.key
  <2>1. k \in Keys /\ e.data \in Nat /\ pgver[k] \in Nat /\ pgver'[k] \in Nat /\ pgver[k] <= pgver'[k]
    BY TypeFacts, EntryFacts DEF CoverStep
  <2>2. /\ i \in Range(Probe(k))
        /\ e.state = "Clean" => e.data <= pgver[k]
        /\ e.state # "Clean" => e.data = e.version
        /\ k \notin Local => /\ e.state = "Clean" /\ e.version = 1
                             /\ e.data < pgver[k] => Covered(k, e.data) \/ k \in twice
    BY <1>2, <2>0 DEF SlotOK
  <2> HIDE DEF k
  <2>3. e.state = "Clean" => e.data <= pgver'[k]
    BY <2>1, <2>2, SMTT(60)
  <2>4. ASSUME k \notin Local, e.data < pgver'[k] PROVE Covered(k, e.data)' \/ k \in twice'
    <3>1. CASE pgver'[k] = pgver[k]
      BY <2>1, <2>2, <2>4, <3>1 DEF CoverStep
    <3>2. CASE \A v \in 0 .. pgver[k] : Covered(k, v)'
      <4>1. e.data \in 0 .. pgver[k]
        BY <2>1, <2>2, <2>4, SMTT(60)
      <4> QED BY <3>2, <4>1
    <3> QED BY <2>1, <2>4, <3>1, <3>2 DEF CoverStep
  <2>5. slots'[i] = e
    BY <1>2, <2>0
  <2> QED BY <2>2, <2>3, <2>4, <2>5 DEF SlotOK, k, Probe
<1> QED BY <1>1, <1>2

LEMMA ReaderKept ==
    ASSUME Types, CoverStep, NEW r \in Readers, ReaderOK(r),
           rpc'[r] = rpc[r], key'[r] = key[r], row'[r] = row[r], at'[r] = at[r]
    PROVE  ReaderOK(r)'
<1>1. CASE rpc[r] = "idle"
  BY <1>1 DEF ReaderOK
<1>2. CASE rpc[r] # "idle"
  <2>0. PICK k \in Keys, d \in 1 .. MaxCalls + 1 : k = key[r] /\ d = row[r]
    BY <1>2, TypeFacts DEF ReaderOK
  <2>1. /\ key[r] # None /\ d <= pgver[k]
        /\ k \notin Local /\ d < pgver[k] => Covered(k, d)
    BY <1>2, <2>0 DEF ReaderOK
  <2>a. MaxCalls \in Nat
    BY TypeFacts
  <2>c. d \in Nat
    BY ONLY <2>a, d \in 1 .. MaxCalls + 1, SMTT(60), ZenonT(30)
  <2>d. pgver[k] \in Nat /\ pgver'[k] \in Nat
    BY TypeFacts DEF CoverStep
  <2>e. pgver[k] <= pgver'[k]
    BY DEF CoverStep
  <2>2. d \in Nat /\ pgver[k] \in Nat /\ pgver'[k] \in Nat /\ pgver[k] <= pgver'[k]
    BY ONLY <2>c, <2>d, <2>e, SMTT(60), ZenonT(30)
  <2>b. d <= pgver[k]
    BY <2>1
  <2>3. d <= pgver'[k]
    BY ONLY <2>2, <2>b, SMTT(60), ZenonT(30)
  <2>4. ASSUME k \notin Local, d < pgver'[k] PROVE Covered(k, d)'
    <3>1. CASE pgver'[k] = pgver[k]
      BY <2>1, <2>2, <2>4, <3>1 DEF CoverStep
    <3>2. CASE \A v \in 0 .. pgver[k] : Covered(k, v)'
      <4>1. d \in 0 .. pgver[k]
        BY <2>1, <2>2, SMTT(60)
      <4> QED BY <3>2, <4>1
    <3> QED BY <2>1, <2>4, <3>1, <3>2 DEF CoverStep
  <2>5. key'[r] = k /\ row'[r] = d
    BY <2>0
  <2> QED BY <1>2, <2>0, <2>1, <2>3, <2>4, <2>5 DEF ReaderOK, Probe
<1> QED BY <1>1, <1>2

-----------------------------------------------------------------------------
(* Changes of one slot *)

Occupied == {i \in Slots : slots[i] # None}

LEMMA ClearFacts ==
    ASSUME RowsInv, NEW i \in Slots, slots[i] # None, Clear(i)
    PROVE  /\ slots' \in [Slots -> Entries \cup {None}] /\ slots'[i] = None
           /\ \A j \in Slots : slots'[j] \in {slots[j], None}
           /\ twice' = twice /\ LruOK' /\ BytesExact' /\ Unique'
<1>1. /\ slots' = [slots EXCEPT ![i] = None] /\ bytes' = bytes - 1 /\ UNCHANGED <<lru, twice>>
  BY DEF Clear
<1>2. slots \in [Slots -> Entries \cup {None}]
  BY DEF RowsInv, Types
<1>3. /\ slots' \in [Slots -> Entries \cup {None}] /\ slots'[i] = None
      /\ \A j \in Slots : slots'[j] \in {slots[j], None}
  BY <1>1, <1>2
<1>4. LruOK'
  BY <1>1 DEF RowsInv, LruOK
<1>5. Unique'
  BY <1>1, <1>3 DEF RowsInv, Unique
<1>6. BytesExact'
  <2>1. Occupied' = Occupied \ {i} /\ i \in Occupied
    BY <1>1, <1>2 DEF Occupied
  <2>2. IsFiniteSet(Occupied)
    BY SlotFacts, FS_Subset DEF Occupied
  <2>3. Cardinality(Occupied \ {i}) = Cardinality(Occupied) - 1
    BY <2>1, <2>2, FS_RemoveElement
  <2> QED BY <1>1, <2>1, <2>3 DEF RowsInv, BytesExact, Occupied
<1> QED BY <1>1, <1>3, <1>4, <1>5, <1>6

LEMMA StoreFacts ==
    ASSUME RowsInv, NEW i \in Slots, NEW e \in Entries, Store(i, e)
    PROVE  /\ slots' \in [Slots -> Entries \cup {None}] /\ slots'[i] = e
           /\ \A j \in Slots \ {i} : slots'[j] = slots[j]
           /\ twice \subseteq twice' /\ LruOK' /\ BytesExact' /\ Unique'
<1>1. /\ slots' = [slots EXCEPT ![i] = e] /\ Touch(i)
      /\ bytes' = IF slots[i] = None THEN bytes + 1 ELSE bytes
      /\ twice' = IF Holding(e.key) \subseteq {i} THEN twice ELSE twice \cup {e.key}
  BY DEF Store
<1>2. slots \in [Slots -> Entries \cup {None}] /\ e # None
  BY EntryFacts DEF RowsInv, Types
<1>3. /\ slots' \in [Slots -> Entries \cup {None}] /\ slots'[i] = e
      /\ \A j \in Slots \ {i} : slots'[j] = slots[j]
  BY <1>1, <1>2
<1>4. LruOK'
  BY <1>1, TouchOK DEF RowsInv
<1>5. twice \subseteq twice'
  BY <1>1
<1>6. Unique'
  <2>1. \A j \in Slots \ {i} : slots[j] # None /\ slots[j].key = e.key => e.key \in twice'
    BY <1>1 DEF Holding
  <2> SUFFICES ASSUME NEW a \in Slots, NEW b \in Slots, a # b, slots'[a] # None, slots'[b] # None,
                      slots'[a].key = slots'[b].key
               PROVE  slots'[a].key \in twice'
    BY DEF Unique
  <2>2. CASE a = i
    BY <1>3, <2>1, <2>2
  <2>3. CASE b = i
    BY <1>3, <2>1, <2>3
  <2>4. CASE a # i /\ b # i
    BY <1>3, <1>5, <2>4 DEF RowsInv, Unique
  <2> QED BY <2>2, <2>3, <2>4
<1>7. BytesExact'
  <2>1. IsFiniteSet(Occupied)
    BY SlotFacts, FS_Subset DEF Occupied
  <2>2. Occupied' = Occupied \cup {i} /\ (i \in Occupied <=> slots[i] # None)
    BY <1>1, <1>2 DEF Occupied
  <2>3. CASE slots[i] = None
    <3>1. Cardinality(Occupied \cup {i}) = Cardinality(Occupied) + 1
      BY <2>1, <2>2, <2>3, FS_AddElement
    <3> QED BY <1>1, <2>2, <2>3, <3>1 DEF RowsInv, BytesExact, Occupied
  <2>4. CASE slots[i] # None
    <3>1. Occupied' = Occupied
      BY <2>2, <2>4
    <3> QED BY <1>1, <2>4, <3>1 DEF RowsInv, BytesExact, Occupied
  <2> QED BY <2>3, <2>4
<1> QED BY <1>3, <1>4, <1>5, <1>6, <1>7

-----------------------------------------------------------------------------
(* The steps of readers *)

LEMMA SlotsKept ==
    ASSUME RowsInv, CoverStep, UNCHANGED <<slots, bytes>>
    PROVE  Unique' /\ BytesExact' /\ \A i \in Slots : SlotOK(i)'
<1>1. \A i \in Slots : SlotOK(i)'
  BY SlotKept DEF RowsInv
<1>2. Unique'
  BY DEF RowsInv, Unique, CoverStep
<1> QED BY <1>1, <1>2 DEF RowsInv, BytesExact

LEMMA ReadersKept ==
    ASSUME RowsInv, CoverStep, UNCHANGED readerVars
    PROVE  \A r \in Readers : ReaderOK(r)'
BY ReaderKept DEF RowsInv, readerVars

LEMMA FindSlot ==
    ASSUME NEW k, Find(k) # 0
    PROVE  Find(k) \in Slots
<1>1. Empty \cup Holding(k) \in SUBSET Slots
  BY HoldingSlots
<1> QED BY <1>1, FirstFacts DEF Find

LEMMA HitStep ==
    ASSUME RowsInv, NEW r \in Readers, NEW k \in Keys, Hit(r, k)
    PROVE  RowsInv'
<1>1. Find(k) # 0 /\ Touch(Find(k)) /\ UNCHANGED <<slots, bytes, twice, readerVars, rest, notifyVars>>
  BY DEF Hit
<1>2. Types /\ CoverStep
  BY <1>1, QuietStep DEF RowsInv, rest, notifyVars, history
<1>3. LruOK'
  BY <1>1, FindSlot, TouchOK DEF RowsInv
<1>4. Types' /\ Messages'
  BY <1>1 DEF RowsInv, Types, Messages, readerVars, rest, notifyVars
<1> QED BY <1>1, <1>2, <1>3, <1>4, SlotsKept, ReadersKept DEF RowsInv

\* The bounds grow with the calls.
LEMMA OneMore ==
    ASSUME Types, OneMoreCall
    PROVE  /\ calls' \in 0 .. MaxCalls /\ calls' = calls + 1 /\ calls \in Nat
           /\ pgver \in [Keys -> 1 .. calls' + 1] /\ issued \in [Keys -> 1 .. calls' + 1]
<1>1. calls < MaxCalls /\ calls' = calls + 1
  BY DEF OneMoreCall
<1>2. MaxCalls \in Nat /\ calls \in 0 .. MaxCalls
  BY EntityAssumption DEF Types
<1>3. calls' \in 0 .. MaxCalls /\ calls \in Nat /\ 1 .. calls + 1 \subseteq 1 .. calls' + 1
  BY <1>1, <1>2, SMTT(60)
<1>4. pgver \in [Keys -> 1 .. calls + 1] /\ issued \in [Keys -> 1 .. calls + 1]
  BY DEF Types
<1> QED BY <1>1, <1>3, <1>4

LEMMA QueryStep ==
    ASSUME RowsInv, NEW r \in Readers, NEW k \in Keys, Query(r, k)
    PROVE  RowsInv'
<1>1. /\ key' = [key EXCEPT ![r] = k] /\ row' = [row EXCEPT ![r] = pgver[k]]
      /\ rpc' = [rpc EXCEPT ![r] = "scan"] /\ OneMoreCall
      /\ UNCHANGED <<at, cacheVars, pgver, issued, victim, late, notifyVars>>
  BY DEF Query
<1>2. Types /\ CoverStep
  BY <1>1, QuietStep DEF RowsInv, cacheVars, notifyVars, history
<1>3. pgver[k] \in 1 .. MaxCalls + 1 /\ pgver[k] \in 0 .. MaxCalls + 1 /\ pgver[k] <= pgver[k] /\ ~(pgver[k] < pgver[k])
  BY <1>2, TypeFacts, SMTT(60)
<1>4. Types'
  <2>1. row' \in [Readers -> 0 .. MaxCalls + 1]
    BY <1>1, <1>2, <1>3 DEF Types
  <2>2. calls' \in 0 .. MaxCalls /\ pgver' \in [Keys -> 1 .. calls' + 1] /\ issued' \in [Keys -> 1 .. calls' + 1]
    BY <1>1, <1>2, OneMore
  <2> QED BY <1>1, <1>2, <2>1, <2>2 DEF Types, cacheVars
<1>5. ASSUME NEW s \in Readers PROVE ReaderOK(s)'
  <2>1. CASE s # r
    BY <1>1, <1>2, <2>1, ReaderKept DEF RowsInv, Types
  <2>2. CASE s = r
    <3>1. rpc'[s] = "scan" /\ key'[s] = k /\ row'[s] = pgver[k] /\ pgver' = pgver
      BY <1>1, <1>2, <2>2 DEF Types
    <3>2. k # None
      BY EntityAssumption
    <3> QED BY <1>3, <3>1, <3>2 DEF ReaderOK
  <2> QED BY <2>1, <2>2
<1>6. Messages' /\ LruOK'
  BY <1>1 DEF RowsInv, Messages, LruOK, cacheVars, notifyVars
<1> QED BY <1>1, <1>2, <1>4, <1>5, <1>6, SlotsKept DEF RowsInv, cacheVars

LEMMA ReaderDoneFacts ==
    ASSUME Types, NEW r \in Readers, ReaderDone(r)
    PROVE  /\ rpc' \in [Readers -> {"idle", "scan", "write"}] /\ key' \in [Readers -> Keys \cup {None}]
           /\ row' \in [Readers -> 0 .. MaxCalls + 1] /\ at' \in [Readers -> 0 .. NSlots]
           /\ ReaderOK(r)'
           /\ \A s \in Readers \ {r} : rpc'[s] = rpc[s] /\ key'[s] = key[s] /\ row'[s] = row[s] /\ at'[s] = at[s]
<1>1. 0 \in 0 .. MaxCalls + 1 /\ 0 \in 0 .. NSlots
  BY EntityAssumption, SMTT(60)
<1>2. /\ rpc' \in [Readers -> {"idle", "scan", "write"}] /\ key' \in [Readers -> Keys \cup {None}]
      /\ row' \in [Readers -> 0 .. MaxCalls + 1] /\ at' \in [Readers -> 0 .. NSlots]
  BY <1>1 DEF Types, ReaderDone
<1>3. /\ rpc'[r] = "idle" /\ key'[r] = None
      /\ \A s \in Readers \ {r} : rpc'[s] = rpc[s] /\ key'[s] = key[s] /\ row'[s] = row[s] /\ at'[s] = at[s]
  BY DEF Types, ReaderDone
<1> QED BY <1>2, <1>3 DEF ReaderOK

LEMMA ScanStep ==
    ASSUME RowsInv, NEW r \in Readers, Scan(r)
    PROVE  RowsInv'
<1>1. rpc[r] = "scan" /\ UNCHANGED <<cacheVars, rest, notifyVars>>
  BY DEF Scan
<1>2. Types /\ CoverStep
  BY <1>1, QuietStep DEF RowsInv, cacheVars, rest, notifyVars, history
<1>3. key[r] # None /\ key[r] \in Keys
  BY <1>1, TypeFacts DEF RowsInv, ReaderOK
<1>4. Messages' /\ LruOK' /\ Unique' /\ BytesExact' /\ \A i \in Slots : SlotOK(i)'
  <2>1. Messages' /\ LruOK'
    BY <1>1 DEF RowsInv, Messages, LruOK, cacheVars, notifyVars
  <2> QED BY <1>1, <1>2, <2>1, SlotsKept DEF cacheVars
<1>5. CASE ReaderDone(r)
  <2>1. \A s \in Readers : ReaderOK(s)'
    BY <1>2, <1>5, ReaderDoneFacts, ReaderKept DEF RowsInv
  <2>2. Types'
    BY <1>1, <1>2, <1>5, ReaderDoneFacts DEF Types, cacheVars, rest
  <2> QED BY <1>4, <2>1, <2>2 DEF RowsInv
<1>6. CASE /\ Target(key[r]) # 0 /\ at' = [at EXCEPT ![r] = Target(key[r])]
           /\ rpc' = [rpc EXCEPT ![r] = "write"] /\ UNCHANGED <<key, row>>
  <2>1. Target(key[r]) \in Slots /\ Target(key[r]) \in Range(Probe(key[r]))
    BY <1>3, <1>6, TargetFacts DEF RowsInv
  <2>2. Target(key[r]) \in 0 .. NSlots
    BY <2>1, SMTT(60) DEF Slots
  <2>3. Types'
    BY <1>1, <1>2, <1>6, <2>2 DEF Types, cacheVars, rest
  <2>4. ASSUME NEW s \in Readers PROVE ReaderOK(s)'
    <3>1. CASE s # r
      BY <1>2, <1>6, <2>4, <3>1, ReaderKept DEF RowsInv, Types
    <3>2. CASE s = r
      <4>1. rpc'[r] = "write" /\ at'[r] = Target(key[r]) /\ key'[r] = key[r] /\ row'[r] = row[r] /\ pgver' = pgver
        BY <1>1, <1>2, <1>6 DEF Types, rest
      <4>2. PICK k \in Keys, d \in 1 .. MaxCalls + 1 : k = key[r] /\ d = row[r]
        BY <1>1, <1>3 DEF RowsInv, ReaderOK
      <4>3. d <= pgver[k] /\ (k \notin Local /\ d < pgver[k] => Covered(k, d))
        BY <1>1, <4>2 DEF RowsInv, ReaderOK
      <4>4. d \in Nat
        BY <1>2, TypeFacts, SMTT(60)
      <4>5. k \notin Local /\ d < pgver[k] => Covered(k, d)'
        BY <1>2, <4>3, <4>4 DEF CoverStep
      <4> QED BY <1>3, <2>1, <3>2, <4>1, <4>2, <4>3, <4>5 DEF ReaderOK, Probe
    <3> QED BY <3>1, <3>2
  <2> QED BY <1>4, <2>3, <2>4 DEF RowsInv
<1> QED BY <1>5, <1>6 DEF Scan

-----------------------------------------------------------------------------
(* The steps that put *)

\* What an entry owes its slot.
EntryOK(i, e) ==
    /\ i \in Range(Probe(e.key))
    /\ e.state = "Clean" => e.data <= pgver[e.key]
    /\ e.state # "Clean" => e.data = e.version
    /\ e.key \notin Local =>
         /\ e.state = "Clean" /\ e.version = 1
         /\ e.data < pgver[e.key] => Covered(e.key, e.data)

LEMMA StoreSlots ==
    ASSUME RowsInv, NEW i \in Slots, NEW e \in Entries, Store(i, e), EntryOK(i, e),
           UNCHANGED <<inbox, handling, lost, late, pgver>>
    PROVE  /\ slots' \in [Slots -> Entries \cup {None}] /\ LruOK' /\ BytesExact' /\ Unique' /\ CoverStep
           /\ \A j \in Slots : SlotOK(j)'
<1>1. /\ slots' \in [Slots -> Entries \cup {None}] /\ slots'[i] = e
      /\ \A j \in Slots \ {i} : slots'[j] = slots[j]
      /\ twice \subseteq twice' /\ LruOK' /\ BytesExact' /\ Unique'
  BY StoreFacts
<1>2. Types /\ CoverStep
  BY <1>1, QuietStep DEF RowsInv
<1>3. ASSUME NEW j \in Slots \ {i} PROVE SlotOK(j)'
  BY <1>1, <1>2, SlotKept DEF RowsInv
<1>4. SlotOK(i)'
  <2>1. PICK k \in Keys, d \in Nat : k = e.key /\ d = e.data
    BY EntryFacts
  <2>2. Covered(k, d) => Covered(k, d)'
    BY DEF Covered, OnItsWay
  <2>3. /\ i \in Range(Probe(k)) /\ (e.state = "Clean" => d <= pgver[k]) /\ (e.state # "Clean" => d = e.version)
        /\ k \notin Local => e.state = "Clean" /\ e.version = 1 /\ (d < pgver[k] => Covered(k, d))
    BY <2>1 DEF EntryOK
  <2>4. k \notin Local /\ d < pgver[k] => Covered(k, d)'
    BY <2>2, <2>3
  <2> QED BY <1>1, <2>1, <2>3, <2>4 DEF SlotOK, Probe
<1> QED BY <1>1, <1>2, <1>3, <1>4

LEMMA PutRowStep ==
    ASSUME RowsInv, NEW r \in Readers, PutRow(r)
    PROVE  RowsInv'
<1> DEFINE e == Entry(key[r], 1, row[r], "Clean", FALSE)
<1>1. /\ rpc[r] = "write" /\ ReaderDone(r) /\ Store(at[r], e) /\ UNCHANGED <<rest, notifyVars>>
  BY DEF PutRow
<1>2. /\ Types /\ key[r] \in Keys /\ at[r] \in Slots /\ at[r] \in Range(Probe(key[r]))
      /\ row[r] \in 1 .. MaxCalls + 1 /\ row[r] <= pgver[key[r]]
      /\ key[r] \notin Local /\ row[r] < pgver[key[r]] => Covered(key[r], row[r])
  BY <1>1, TypeFacts DEF RowsInv, ReaderOK
<1>3. e \in Entries
  <2>1. 1 \in 1 .. MaxCalls + 1
    BY <1>2, TypeFacts, SMTT(60)
  <2> QED BY <1>2, <2>1 DEF Entries, Entry
<1>4. EntryOK(at[r], e)
  BY <1>2 DEF EntryOK, Entry
<1> HIDE DEF e
<1>5. /\ slots' \in [Slots -> Entries \cup {None}] /\ LruOK' /\ BytesExact' /\ Unique' /\ CoverStep
      /\ \A j \in Slots : SlotOK(j)'
  BY <1>1, <1>2, <1>3, <1>4, StoreSlots DEF rest, notifyVars, history
<1>6. \A s \in Readers : ReaderOK(s)'
  BY <1>1, <1>2, <1>5, ReaderDoneFacts, ReaderKept DEF RowsInv
<1>7. Types'
  BY <1>1, <1>2, <1>5, ReaderDoneFacts DEF Types, rest
<1>8. Messages'
  BY <1>1 DEF RowsInv, Messages, notifyVars
<1> QED BY <1>5, <1>6, <1>7, <1>8 DEF RowsInv

LEMMA PutStep ==
    ASSUME RowsInv, NEW k \in Keys, NEW state \in {"Dirty", "Tombstone"}, Put(k, state)
    PROVE  RowsInv'
<1>1. /\ k \in Local /\ OneMoreCall /\ issued' = [issued EXCEPT ![k] = @ + 1]
      /\ UNCHANGED <<readerVars, pgver, victim, late, notifyVars>>
  BY DEF Put
<1>2. Types
  BY DEF RowsInv
<1>3. issued[k] + 1 \in 1 .. calls' + 1 /\ issued[k] + 1 \in 1 .. MaxCalls + 1
  <2>1. issued[k] \in 1 .. calls + 1
    BY <1>2 DEF Types
  <2>2. MaxCalls \in Nat
    BY EntityAssumption
  <2> QED BY <1>1, <1>2, <2>1, <2>2, OneMore, SMTT(60)
<1>4. /\ slots' \in [Slots -> Entries \cup {None}] /\ LruOK' /\ BytesExact' /\ Unique' /\ CoverStep
      /\ \A j \in Slots : SlotOK(j)'
  <2>1. CASE Target(k) = 0
    <3>1. UNCHANGED cacheVars
      BY <2>1 DEF Put
    <3>2. CoverStep
      BY <1>1, <1>2, <3>1, QuietStep DEF cacheVars, notifyVars, history
    <3>3. slots' \in [Slots -> Entries \cup {None}] /\ LruOK'
      BY <3>1, <1>2 DEF RowsInv, Types, LruOK, cacheVars
    <3> QED BY <3>1, <3>2, <3>3, SlotsKept DEF cacheVars
  <2>2. CASE Target(k) # 0
    <3> DEFINE e == Entry(k, issued[k] + 1, issued[k] + 1, state, TRUE)
    <3>1. Store(Target(k), e)
      BY <2>2 DEF Put
    <3>2. Target(k) \in Slots /\ Target(k) \in Range(Probe(k))
      BY <2>2, TargetFacts DEF RowsInv
    <3>3. e \in Entries
      BY <1>3 DEF Entries, Entry
    <3>4. EntryOK(Target(k), e)
      BY <1>1, <3>2 DEF EntryOK, Entry
    <3> HIDE DEF e
    <3> QED BY <1>1, <3>1, <3>2, <3>3, <3>4, StoreSlots DEF notifyVars, history
  <2> QED BY <2>1, <2>2
<1>5. Types'
  <2>1. calls' \in 0 .. MaxCalls /\ pgver' \in [Keys -> 1 .. calls' + 1] /\ issued \in [Keys -> 1 .. calls' + 1]
    BY <1>1, <1>2, OneMore
  <2>2. issued' \in [Keys -> 1 .. calls' + 1]
    BY <1>1, <1>3, <2>1
  <2> QED BY <1>1, <1>2, <1>4, <2>1, <2>2 DEF Types, readerVars
<1>6. Messages'
  BY <1>1 DEF RowsInv, Messages, notifyVars
<1> QED BY <1>1, <1>4, <1>5, <1>6, ReadersKept DEF RowsInv

-----------------------------------------------------------------------------
(* The commits *)

LEMMA FlushStep ==
    ASSUME RowsInv, NEW k \in Keys, Flush(k)
    PROVE  RowsInv'
<1>1. PICK v \in pgver[k] + 1 .. issued[k] : pgver' = [pgver EXCEPT ![k] = v] /\ Notify(k, v)
  BY DEF Flush
<1>2. k \in Local /\ UNCHANGED <<cacheVars, readerVars, issued, victim, calls, late>>
  BY DEF Flush
<1>3. Types /\ Messages
  BY DEF RowsInv
<1>4. v \in 1 .. calls + 1 /\ v \in Nat \ {0, 1} /\ pgver[k] <= v /\ pgver[k] \in Nat
  <2>1. pgver[k] \in 1 .. calls + 1 /\ issued[k] \in 1 .. calls + 1 /\ calls \in Nat
    BY <1>3, TypeFacts DEF Types
  <2> QED BY <1>1, <2>1, SMTT(60)
<1>5. pgver' \in [Keys -> 1 .. calls + 1]
  BY <1>1, <1>3, <1>4 DEF Types
<1>6. Messages' /\ \A j, u : Covered(j, u) => Covered(j, u)'
  BY <1>1, <1>2, <1>3, <1>4, CommitCovers
<1>7. CoverStep
  <2>1. pgver \in [Keys -> Nat] /\ \A j \in Keys : j # k => pgver'[j] = pgver[j]
    BY <1>1, <1>3, TypeFacts
  <2>2. pgver'[k] = v /\ pgver' \in [Keys -> Nat]
    BY <1>1, <1>4, <2>1
  <2>3. \A j \in Keys : pgver[j] <= pgver'[j]
    BY <1>4, <2>1, <2>2, SMTT(60)
  <2> QED BY <1>2, <1>6, <2>1, <2>2, <2>3 DEF CoverStep, cacheVars
<1>8. Types' /\ LruOK'
  BY <1>2, <1>3, <1>5 DEF RowsInv, Types, LruOK, cacheVars, readerVars
<1> QED BY <1>2, <1>6, <1>7, <1>8, SlotsKept, ReadersKept DEF RowsInv, cacheVars

LEMMA RemoteCommitStep ==
    ASSUME RowsInv, NEW k \in Keys, RemoteCommit(k)
    PROVE  RowsInv'
<1>1. /\ OneMoreCall /\ pgver' = [pgver EXCEPT ![k] = @ + 1] /\ Notify(k, pgver[k] + 1)
      /\ UNCHANGED <<cacheVars, readerVars, issued, victim, late>>
  BY DEF RemoteCommit
<1>2. Types /\ Messages
  BY DEF RowsInv
<1>3. /\ pgver \in [Keys -> 1 .. calls' + 1] /\ issued \in [Keys -> 1 .. calls' + 1] /\ calls' \in 0 .. MaxCalls
      /\ calls' = calls + 1 /\ calls \in Nat
  BY <1>1, <1>2, OneMore
<1>4. PICK v : v = pgver[k] + 1
  OBVIOUS
<1>5. pgver[k] \in Nat /\ v \in Nat \ {0, 1} /\ v \in 1 .. calls' + 1 /\ \A u \in 0 .. pgver[k] : v > u
  <2>1. pgver[k] \in 1 .. calls + 1
    BY <1>2 DEF Types
  <2> QED BY <1>3, <1>4, <2>1, SMTT(60)
<1>6. pgver' = [pgver EXCEPT ![k] = v] /\ Notify(k, v)
  BY <1>1, <1>4
<1>7. pgver' \in [Keys -> 1 .. calls' + 1]
  BY <1>3, <1>5, <1>6
<1>8. /\ Messages' /\ \A j, u : Covered(j, u) => Covered(j, u)'
      /\ \A u : v > u => Covered(k, u)'
  BY <1>1, <1>2, <1>5, <1>6, CommitCovers
<1>9. CoverStep
  <2>1. pgver \in [Keys -> Nat] /\ \A j \in Keys : j # k => pgver'[j] = pgver[j]
    BY <1>6, <1>2, TypeFacts
  <2>2. pgver'[k] = v /\ pgver' \in [Keys -> Nat]
    BY <1>5, <1>6, <2>1
  <2>3. \A j \in Keys : pgver[j] <= pgver'[j]
    BY <1>4, <1>5, <2>1, <2>2, SMTT(60)
  <2>4. \A u \in 0 .. pgver[k] : Covered(k, u)'
    BY <1>5, <1>8
  <2> QED BY <1>1, <1>8, <2>1, <2>2, <2>3, <2>4 DEF CoverStep, cacheVars
<1>10. Types' /\ LruOK'
  BY <1>1, <1>2, <1>3, <1>7 DEF RowsInv, Types, LruOK, cacheVars, readerVars
<1> QED BY <1>1, <1>8, <1>9, <1>10, SlotsKept, ReadersKept DEF RowsInv, cacheVars

LEMMA NotifyRows ==
    ASSUME RowsInv, NotifyNext, UNCHANGED <<cacheVars, readerVars, rest>>
    PROVE  RowsInv'
<1>1. UNCHANGED <<slots, bytes, lru, twice, pgver, issued, victim, calls, late>>
  BY DEF cacheVars, rest
<1>2. Messages' /\ \A k, v : Covered(k, v) => Covered(k, v)'
  BY <1>1, NotifyCovers DEF RowsInv
<1>3. CoverStep
  BY <1>1, <1>2, TypeFacts, SMTT(60) DEF RowsInv, CoverStep
<1>4. Types' /\ LruOK'
  BY <1>1 DEF RowsInv, Types, LruOK, readerVars
<1> QED BY <1>1, <1>2, <1>3, <1>4, SlotsKept, ReadersKept DEF RowsInv

-----------------------------------------------------------------------------
(* The steps that empty a slot *)

LEMMA ClearStep ==
    ASSUME RowsInv, NEW i \in Slots, slots[i] # None, Clear(i), victim' \in {victim, 0},
           UNCHANGED <<readerVars, pgver, issued, calls, late, notifyVars>>
    PROVE  RowsInv'
<1>1. /\ slots' \in [Slots -> Entries \cup {None}] /\ slots'[i] = None
      /\ \A j \in Slots : slots'[j] \in {slots[j], None}
      /\ twice' = twice /\ LruOK' /\ BytesExact' /\ Unique'
  BY ClearFacts
<1>2. Types /\ CoverStep
  BY <1>1, QuietStep DEF RowsInv, notifyVars, history
<1>3. \A j \in Slots : SlotOK(j)'
  BY <1>1, <1>2, SlotKept DEF RowsInv
<1>4. Types' /\ Messages'
  BY <1>1 DEF RowsInv, Types, Messages, readerVars, notifyVars
<1> QED BY <1>1, <1>2, <1>3, <1>4, ReadersKept DEF RowsInv

LEMMA SweepExpiredStep ==
    ASSUME RowsInv, NEW i \in Slots, SweepExpired(i)
    PROVE  RowsInv'
BY ClearStep DEF SweepExpired, rest

\* The step leaves everything of the rows alone, but for the pins.
LEMMA SameRows ==
    ASSUME RowsInv, UNCHANGED <<slots, lru, bytes, twice, readerVars, pgver, issued, late, notifyVars>>,
           calls' = calls \/ OneMoreCall, victim' # 0 => victim' \in Slots
    PROVE  RowsInv'
<1>1. Types /\ CoverStep
  BY QuietStep DEF RowsInv, notifyVars, history
<1>2. calls' \in 0 .. MaxCalls /\ pgver' \in [Keys -> 1 .. calls' + 1] /\ issued' \in [Keys -> 1 .. calls' + 1]
  BY <1>1, OneMore DEF Types
<1>3. Types' /\ Messages' /\ LruOK'
  BY <1>1, <1>2 DEF RowsInv, Types, Messages, LruOK, readerVars, notifyVars
<1> QED BY <1>1, <1>3, SlotsKept, ReadersKept DEF RowsInv

LEMMA SweepChooseStep ==
    ASSUME RowsInv, SweepChoose
    PROVE  RowsInv'
<1> DEFINE S == {i \in Slots : slots[i] # None /\ slots[i].state = "Clean" /\ ~pinned[i]}
<1>1. S \in SUBSET Slots /\ S # {} /\ victim' = Oldest(S)
  BY DEF SweepChoose
<1>2. victim' \in Slots
  BY <1>1, OldestIn DEF RowsInv
<1> QED BY <1>2, SameRows DEF SweepChoose, cacheVars

LEMMA SweepVictimStep ==
    ASSUME RowsInv, SweepVictim
    PROVE  RowsInv'
<1>1. victim \in Slots /\ victim' = 0
  BY DEF SweepVictim, RowsInv, Types
<1>2. CASE slots[victim] # None /\ Clear(victim)
  BY <1>1, <1>2, ClearStep DEF SweepVictim
<1>3. CASE UNCHANGED cacheVars
  BY <1>1, <1>3, SameRows DEF SweepVictim, cacheVars
<1> QED BY <1>2, <1>3 DEF SweepVictim

LEMMA PinStep ==
    ASSUME RowsInv, NEW k \in Keys, Pin(k) \/ Unpin(k)
    PROVE  RowsInv'
<1>1. victim # 0 => victim \in Slots
  BY DEF RowsInv, Types
<1> QED BY <1>1, SameRows DEF Pin, Unpin, rest

LEMMA MarkFlushedStep ==
    ASSUME RowsInv, NEW k \in Keys, NEW v \in 2 .. pgver[k], MarkFlushed(k, v)
    PROVE  RowsInv'
<1> DEFINE f == First(k, Holding(k))
<1>1. /\ k \in Local /\ f # 0 /\ slots[f].version <= v /\ UNCHANGED <<readerVars, rest, notifyVars>>
      /\ IF slots[f].state = "Tombstone" THEN Clear(f)
         ELSE slots' = [slots EXCEPT ![f].state = "Clean"] /\ UNCHANGED <<bytes, lru, pinned, twice>>
  BY DEF MarkFlushed
<1>2. f \in Slots /\ slots[f] # None /\ slots[f].key = k
  <2>1. f \in Holding(k)
    BY <1>1, FirstFacts, HoldingSlots
  <2> QED BY <2>1 DEF Holding
<1>3. PICK i \in Slots : i = f
  BY <1>2
<1> HIDE DEF f
<1>4. CASE slots[i].state = "Tombstone"
  BY <1>1, <1>2, <1>3, <1>4, ClearStep DEF rest
<1>5. CASE slots[i].state # "Tombstone"
  <2>1. /\ slots' = [slots EXCEPT ![i].state = "Clean"] /\ UNCHANGED <<bytes, lru, pinned, twice>>
    BY <1>1, <1>3, <1>5
  <2>2. PICK e : e = slots[i]
    OBVIOUS
  <2>3. Types /\ e \in Entries /\ e # None /\ e.key = k
    BY <1>2, <1>3, <2>2, TypeFacts DEF RowsInv
  <2>4. PICK c : c = [e EXCEPT !.state = "Clean"]
    OBVIOUS
  <2>5. /\ c \in Entries /\ c.key = k /\ c.data = e.data /\ c.version = e.version /\ c.state = "Clean"
    BY <2>3, <2>4 DEF Entries
  <2>6. c # None
    BY <2>5, EntryFacts
  <2>7. slots' = [slots EXCEPT ![i] = c]
    BY <2>1, <2>2, <2>4
  <2>8. /\ slots' \in [Slots -> Entries \cup {None}] /\ slots'[i] = c
        /\ \A j \in Slots \ {i} : slots'[j] = slots[j]
    BY <2>3, <2>5, <2>7 DEF Types
  <2>9. CoverStep
    BY <1>1, <2>1, <2>3, QuietStep DEF rest, notifyVars, history
  <2>10. SlotOK(i)'
    <3>1. i \in Range(Probe(k)) /\ (e.state = "Clean" => e.data <= pgver[k]) /\ (e.state # "Clean" => e.data = e.version)
      BY <2>2, <2>3 DEF RowsInv, SlotOK
    <3>2. e.version <= v /\ v <= pgver[k] /\ e.version \in Nat /\ e.data \in Nat /\ v \in Nat /\ pgver[k] \in Nat
      <4>1. pgver[k] \in Nat
        BY <2>3, TypeFacts
      <4> QED BY <1>1, <1>3, <2>2, <2>3, <4>1, EntryFacts, SMTT(60)
    <3>3. e.data = e.version => e.data <= pgver[k]
      BY <3>2, SMTT(60)
    <3>4. c.data <= pgver'[k]
      BY <1>1, <2>5, <3>1, <3>3 DEF rest
    <3> QED BY <1>1, <2>5, <2>8, <3>1, <3>4 DEF SlotOK, Probe
  <2>11. \A j \in Slots : SlotOK(j)'
    BY <2>3, <2>8, <2>9, <2>10, SlotKept DEF RowsInv
  <2>12. Unique'
    <3>1. \A j \in Slots : (slots'[j] # None <=> slots[j] # None) /\ (slots[j] # None => slots'[j].key = slots[j].key)
      BY <2>2, <2>3, <2>5, <2>6, <2>8
    <3> QED BY <2>1, <3>1, SMTT(60) DEF RowsInv, Unique
  <2>13. BytesExact'
    <3>1. {j \in Slots : slots'[j] # None} = {j \in Slots : slots[j] # None}
      BY <2>2, <2>3, <2>6, <2>8
    <3> QED BY <2>1, <3>1 DEF RowsInv, BytesExact
  <2>14. Types' /\ Messages' /\ LruOK'
    BY <1>1, <2>1, <2>3, <2>8 DEF RowsInv, Types, Messages, LruOK, readerVars, rest, notifyVars
  <2> QED BY <1>1, <2>9, <2>11, <2>12, <2>13, <2>14, ReadersKept DEF RowsInv
<1> QED BY <1>4, <1>5

-----------------------------------------------------------------------------
(* The handler *)

LEMMA HandleStep ==
    ASSUME RowsInv, Handle
    PROVE  RowsInv'
<1>1. PICK m : m = handling[1]
  OBVIOUS
<1> DEFINE f == First(m.key, Holding(m.key))
<1>2. /\ npc = "handle" /\ NHandled /\ late' = late \cup Overtaken(m.key)
      /\ UNCHANGED <<readerVars, pgver, issued, victim, calls>>
      /\ IF f # 0 /\ slots[f].state # "Dirty" /\ Older(slots[f], m.version) THEN Clear(f) ELSE UNCHANGED cacheVars
  BY <1>1 DEF Handle
<1>3. Types /\ Len(handling) = 1 /\ handling \in Seq(Msgs)
  BY <1>2 DEF RowsInv, Messages
<1>4. m \in Msgs /\ m.key \in Keys /\ m.version \in Nat \ {0, 1}
  <2>1. m \in Msgs
    BY <1>1, <1>3, SMTT(60)
  <2> QED BY <2>1 DEF Msgs
<1>5. /\ handling' = << >> /\ npc' # "handle" /\ UNCHANGED <<inbox, lost>>
  BY <1>2 DEF NHandled, Top, history
<1>6. Messages'
  BY <1>5, SMTT(60) DEF RowsInv, Messages
<1>7. ASSUME NEW k \in Keys, NEW v, Covered(k, v), k # m.key PROVE Covered(k, v)'
  <2>1. ~Told(handling, k, v)
    <3>1. DOMAIN handling = {1}
      BY <1>3, SMTT(60)
    <3> QED BY <1>1, <1>7, <3>1 DEF Told
  <2>2. Told(inbox, k, v) => OnItsWay(k, v)'
    BY <1>5, WayFacts
  <2> QED BY <1>2, <1>5, <1>7, <2>1, <2>2, WayFacts DEF Covered
<1>8. f # 0 => f \in Slots /\ slots[f] # None /\ slots[f].key = m.key
  <2>1. f # 0 => f \in Holding(m.key)
    BY FirstFacts, HoldingSlots
  <2> QED BY <2>1 DEF Holding
<1>9. \A j \in Slots : slots[j] # None /\ slots[j].key = m.key => f # 0
  <2> SUFFICES ASSUME NEW j \in Slots, slots[j] # None, slots[j].key = m.key PROVE f # 0
    OBVIOUS
  <2>1. j \in Holding(m.key) /\ j \in Range(Probe(m.key))
    BY DEF Holding, RowsInv, SlotOK
  <2> QED BY <2>1, FirstFacts, HoldingSlots
<1>10. f # 0 /\ m.key \notin Local => Clear(f)
  <2> SUFFICES ASSUME f # 0, m.key \notin Local PROVE Clear(f)
    OBVIOUS
  <2>1. slots[f].state = "Clean" /\ slots[f].version = 1
    BY <1>8 DEF RowsInv, SlotOK
  <2>2. Older(slots[f], m.version)
    BY <1>4, <2>1, SMTT(30) DEF Older
  <2>3. slots[f].state # "Dirty"
    BY <2>1
  <2> QED BY <1>2, <2>2, <2>3
<1>11. /\ slots' \in [Slots -> Entries \cup {None}] /\ LruOK' /\ BytesExact' /\ Unique' /\ twice' = twice
       /\ \A j \in Slots : slots'[j] \in {slots[j], None}
       /\ f # 0 /\ m.key \notin Local => slots'[f] = None
  <2>1. CASE f # 0 /\ Clear(f)
    BY <1>8, <2>1, ClearFacts
  <2>2. CASE UNCHANGED cacheVars /\ ~(f # 0 /\ m.key \notin Local)
    BY <1>3, <2>2 DEF RowsInv, Types, LruOK, BytesExact, Unique, cacheVars
  <2> QED BY <1>2, <1>10, <2>1, <2>2
<1> HIDE DEF f
<1>12. ASSUME NEW j \in Slots PROVE SlotOK(j)'
  <2>1. CASE slots'[j] = None
    BY <2>1 DEF SlotOK
  <2>2. CASE slots'[j] # None
    <3>1. slots'[j] = slots[j] /\ slots[j] # None
      BY <1>11, <2>2
    <3>2. PICK e, k, d : e = slots[j] /\ k = e.key /\ d = e.data
      OBVIOUS
    <3>3. /\ j \in Range(Probe(k)) /\ (e.state = "Clean" => d <= pgver[k]) /\ (e.state # "Clean" => d = e.version)
          /\ k \notin Local => e.state = "Clean" /\ e.version = 1 /\ (d < pgver[k] => Covered(k, d) \/ k \in twice)
      BY <3>1, <3>2 DEF RowsInv, SlotOK
    <3>4. k \in Keys
      BY <1>3, <3>1, <3>2, TypeFacts, EntryFacts
    <3>5. k = m.key /\ k \notin Local => k \in twice
      <4> SUFFICES ASSUME k = m.key, k \notin Local PROVE k \in twice
        OBVIOUS
      <4>1. f # 0 /\ f \in Slots /\ slots[f] # None /\ slots[f].key = k /\ slots'[f] = None
        BY <1>8, <1>9, <1>11, <3>1, <3>2
      <4>2. f # j
        BY <2>2, <4>1
      <4> QED BY <3>1, <3>2, <4>1, <4>2 DEF RowsInv, Unique
    <3>6. k \notin Local /\ d < pgver[k] => Covered(k, d)' \/ k \in twice'
      BY <1>7, <1>11, <3>3, <3>4, <3>5
    <3> QED BY <1>2, <3>1, <3>2, <3>3, <3>6 DEF SlotOK, Probe
  <2> QED BY <2>1, <2>2
<1>13. ASSUME NEW r \in Readers PROVE ReaderOK(r)'
  <2>1. PICK k, d : k = key[r] /\ d = row[r]
    OBVIOUS
  <2>2. UNCHANGED <<rpc, key, row, at, pgver>>
    BY <1>2 DEF readerVars
  <2>3. /\ rpc[r] = "idle" <=> k = None
        /\ rpc[r] # "idle" => d \in 1 .. MaxCalls + 1 /\ d <= pgver[k] /\ (k \notin Local /\ d < pgver[k] => Covered(k, d))
        /\ rpc[r] = "write" => at[r] \in Slots /\ at[r] \in Range(Probe(k))
    BY <2>1 DEF RowsInv, ReaderOK
  <2>4. rpc[r] # "idle" /\ k \notin Local /\ d < pgver[k] => Covered(k, d)'
    <3>1. CASE k = m.key
      <4>1. <<k, d>> \in Overtaken(m.key)
        BY <2>1, <3>1 DEF Overtaken
      <4> QED BY <1>2, <4>1 DEF Covered
    <3>2. CASE k # m.key
      <4>1. rpc[r] # "idle" => k \in Keys
        BY <1>3, <2>1, <2>3, TypeFacts
      <4> QED BY <1>7, <2>3, <3>2, <4>1
    <3> QED BY <3>1, <3>2
  <2> QED BY <2>1, <2>2, <2>3, <2>4 DEF ReaderOK, Probe
<1>14. Types'
  BY <1>2, <1>3, <1>11 DEF Types, readerVars
<1> QED BY <1>6, <1>11, <1>12, <1>13, <1>14 DEF RowsInv

-----------------------------------------------------------------------------
LEMMA RowsInit == Init => RowsInv
<1> SUFFICES ASSUME Init PROVE RowsInv
  OBVIOUS
<1>1. Messages
  BY SMTT(60) DEF Init, NotifyInit, Messages
<1>2. MaxCalls \in Nat /\ 1 \in 1 .. 0 + 1 /\ 0 \in 0 .. MaxCalls /\ 0 \in 0 .. MaxCalls + 1 /\ 0 \in 0 .. NSlots
  BY EntityAssumption, SMTT(60)
<1>3. Types
  BY <1>2 DEF Init, Types
<1>4. LruOK
  BY DEF Init, LruOK
<1>5. \A i \in Slots : slots[i] = None
  BY DEF Init
<1>6. BytesExact
  <2>1. {i \in Slots : slots[i] # None} = {}
    BY <1>5
  <2> QED BY <2>1, FS_EmptySet DEF Init, BytesExact
<1>7. Unique /\ \A i \in Slots : SlotOK(i)
  BY <1>5 DEF Unique, SlotOK
<1>8. \A r \in Readers : ReaderOK(r)
  BY DEF Init, ReaderOK
<1> QED BY <1>1, <1>3, <1>4, <1>6, <1>7, <1>8 DEF RowsInv

LEMMA CacheStep ==
    ASSUME RowsInv, Cache
    PROVE  RowsInv'
<1>1. ASSUME NEW r \in Readers, Scan(r) PROVE RowsInv'
  BY <1>1, ScanStep
<1>2. ASSUME NEW r \in Readers, PutRow(r) PROVE RowsInv'
  BY <1>2, PutRowStep
<1>3. ASSUME NEW r \in Readers, NEW k \in Keys, Hit(r, k) PROVE RowsInv'
  BY <1>3, HitStep
<1>4. ASSUME NEW r \in Readers, NEW k \in Keys, Query(r, k) PROVE RowsInv'
  BY <1>4, QueryStep
<1>5. ASSUME NEW k \in Keys, Put(k, "Dirty") \/ Put(k, "Tombstone") PROVE RowsInv'
  BY <1>5, PutStep
<1>6. ASSUME NEW k \in Keys, Flush(k) PROVE RowsInv'
  BY <1>6, FlushStep
<1>7. ASSUME NEW k \in Keys, RemoteCommit(k) PROVE RowsInv'
  BY <1>7, RemoteCommitStep
<1>8. ASSUME NEW k \in Keys, Pin(k) \/ Unpin(k) PROVE RowsInv'
  BY <1>8, PinStep
<1>9. ASSUME NEW k \in Keys, NEW v \in 2 .. pgver[k], MarkFlushed(k, v) PROVE RowsInv'
  BY <1>9, MarkFlushedStep
<1>10. ASSUME NEW i \in Slots, SweepExpired(i) PROVE RowsInv'
  BY <1>10, SweepExpiredStep
<1>11. CASE SweepChoose
  BY <1>11, SweepChooseStep
<1>12. CASE SweepVictim
  BY <1>12, SweepVictimStep
<1> QED BY <1>1, <1>2, <1>3, <1>4, <1>5, <1>6, <1>7, <1>8, <1>9, <1>10, <1>11, <1>12 DEF Cache

\* The inductive invariant of the rows.
LEMMA RowsInvariant == Spec => []RowsInv
<1>1. RowsInv /\ [Next]_vars => RowsInv'
  <2> SUFFICES ASSUME RowsInv, [Next]_vars PROVE RowsInv'
    OBVIOUS
  <2>1. CASE Cache
    BY <2>1, CacheStep
  <2>2. CASE Handle
    BY <2>2, HandleStep
  <2>3. CASE NotifyNext /\ UNCHANGED <<cacheVars, readerVars, rest>>
    BY <2>3, NotifyRows
  <2>4. CASE UNCHANGED vars
    <3>1. victim # 0 => victim \in Slots
      BY DEF RowsInv, Types
    <3> QED BY <2>4, <3>1, SameRows DEF vars, cacheVars, rest
  <2> QED BY <2>1, <2>2, <2>3, <2>4 DEF Next
<1> QED BY <1>1, RowsInit, PTL DEF Spec

LEMMA RowsTyped == RowsInv => TypeOK
<1> SUFFICES ASSUME RowsInv PROVE TypeOK
  OBVIOUS
<1>1. \A i \in Slots : slots[i] # None =>
        slots[i] \in Entries /\ (slots[i].key \notin Local => slots[i].state = "Clean")
  BY TypeFacts DEF RowsInv, SlotOK
<1>2. Range(lru) = Slots /\ Len(lru) = NSlots
  <2>1. lru \in [1 .. NSlots -> Slots] /\ NSlots \in Nat
    BY SlotFacts DEF RowsInv, LruOK, Slots
  <2>2. DOMAIN lru = Slots /\ \A i \in Slots : \E n \in Slots : lru[n] = i
    BY DEF RowsInv, LruOK
  <2>3. \A n \in Slots : lru[n] \in Slots
    BY DEF RowsInv, LruOK
  <2>4. Len(lru) = NSlots
    BY <2>1, SMTT(60)
  <2> QED BY <2>2, <2>3, <2>4 DEF Range
<1>3. \A r \in Readers : rpc[r] = "idle" <=> key[r] = None
  BY DEF RowsInv, ReaderOK
<1>4. handling # << >> <=> npc = "handle"
  BY SMTT(60) DEF RowsInv, Messages
<1> QED BY <1>1, <1>2, <1>3, <1>4 DEF TypeOK

(* For any table, probe, keys, readers and quota: the bytes the quota goes   *)
(* by are those of the entries, and an entry that is clean, which put() and  *)
(* the sweeper may evict, is in the database (entity_cache.cpp:214).         *)
THEOREM EntriesExact == Spec => []SlotsExact
<1>1. RowsInv => SlotsExact
  <2> SUFFICES ASSUME RowsInv PROVE SlotsExact
    OBVIOUS
  <2>1. CleanIsFlushed
    BY DEF RowsInv, SlotOK, CleanIsFlushed
  <2> QED BY <2>1, RowsTyped DEF RowsInv, SlotsExact
<1> QED BY <1>1, RowsInvariant, PTL

(* For any table, probe, keys and readers: a cached row of another           *)
(* instance's key that the database has replaced has a notification coming,  *)
(* but for the three cases the statement names (entity_cache.cpp:255).       *)
THEOREM StaleRowsAreTold == Spec => []StaleIsNotified
<1>1. RowsInv => StaleIsNotified
  BY DEF RowsInv, SlotOK, StaleIsNotified, Covered
<1> QED BY <1>1, RowsInvariant, PTL
=============================================================================
