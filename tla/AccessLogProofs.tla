--------------------------- MODULE AccessLogProofs ---------------------------
(***************************************************************************)
(* Proofs about AccessLog, for any number of workers, any capacity of the  *)
(* rings, any size of a batch and any number of requests.                  *)
(*                                                                         *)
(* RingInv says what the two counters of a ring mean: between them lie     *)
(* formatted lines, and a worker that is about to format one does so in a  *)
(* slot outside.  From it follow TypeOK and the refinement.  ShutdownInv   *)
(* says how far the shutdown is, and gives NothingLeftBehind.              *)
(***************************************************************************)
EXTENDS AccessLog, TLAPS

\* A step is first-order unless it names the SMT solver.
USE ZenonT(30)

Formatting(w) == wpc[w] \in {"fill", "commit"}

RingInv ==
    /\ \A w \in Workers :
         /\ served[w] <= Requests[w] /\ (Formatting(w) => served[w] >= 1)
         /\ tail[w] <= head[w] /\ head[w] - tail[w] <= Capacity
         /\ Formatting(w) => head[w] - tail[w] < Capacity
         /\ \A j \in Nat : tail[w] <= j /\ j < head[w] => buf[w][j % Capacity] \in Lines
         /\ wpc[w] = "commit" => buf[w][head[w] % Capacity] \in Lines
    /\ pc \in {"writev", "consume"} => 1 <= iov /\ iov <= head[ring] - tail[ring]

Leaving == {"stoplog", "joinlog", "done"}

ShutdownInv ==
    /\ main \in Leaving => \A w \in Workers : wpc[w] = "exit"
    /\ main = "join" => \A w \in Workers : w < at => wpc[w] = "exit"
    /\ stop_ => main \in {"joinlog", "done"}
    /\ pc \in {"drain", "exit"} => stop_
    /\ main \in {"block", "create"} => pc = "off"
    /\ pc \in {"off", "check"} => ring = 1
    /\ pc = "drain" => \A w \in Workers : w < ring => head[w] = tail[w]
    /\ pc = "exit" => \A w \in Workers : head[w] = tail[w]
    /\ main = "done" => pc = "exit"

-----------------------------------------------------------------------------
(* Slots of a ring *)

\* Division with remainder, as the provers know it.
LEMMA DivMod ==
    ASSUME NEW C \in Nat \ {0}, NEW a \in Nat
    PROVE  a = C * (a \div C) + (a % C) /\ a % C \in 0 .. C - 1 /\ a \div C \in Int
BY SMT

\* A positive multiple of C is not less than C.
LEMMA Multiple ==
    ASSUME NEW C \in Nat \ {0}, NEW d \in Int, C * d > 0
    PROVE  C * d >= C
<1>1. CASE d <= 0
  BY <1>1, SMT
<1>2. CASE d >= 1
  BY <1>2, SMT
<1> QED BY <1>1, <1>2, SMTT(60)

\* Two counts less than a capacity apart have different slots
\* (head & capacity_mask_).
LEMMA SlotsDiffer ==
    ASSUME NEW C \in Nat \ {0}, NEW a \in Nat, NEW b \in Nat, a < b, b - a < C
    PROVE  a % C # b % C
<1> SUFFICES ASSUME a % C = b % C
             PROVE  FALSE
  OBVIOUS
<1> DEFINE p == a \div C
           q == b \div C
           x == C * p
           y == C * q
           z == C * (q - p)
<1>1. /\ a = x + (a % C) /\ b = y + (a % C)
      /\ p \in Int /\ q \in Int /\ a % C \in Int
  BY DivMod, SMTT(60)
<1> HIDE DEF p, q
<1>2. z = y - x /\ x \in Int /\ y \in Int /\ z \in Int
  BY <1>1, SMTT(60)
<1> HIDE DEF x, y, z
<1>3. z = b - a
  BY <1>1, <1>2, SMTT(60)
<1>4. z >= C
  BY <1>1, <1>3, Multiple, SMTT(60) DEF z
<1> QED BY <1>3, <1>4, SMTT(60)

\* A count has a slot in the ring.
LEMMA SlotInRing ==
    ASSUME NEW n \in Nat
    PROVE  n % Capacity \in 0 .. Capacity - 1
BY LogAssumption, DivMod

-----------------------------------------------------------------------------
(* Types, and what the counters of a ring mean *)

\* What the writer reads of a ring is lines.
LEMMA SlotsAreLines ==
    ASSUME TypeOK, RingInv, NEW r \in Workers, NEW n \in Nat, n <= head[r] - tail[r]
    PROVE  Slots(r, n) \in Seq(Lines)
<1> SUFFICES ASSUME NEW i \in 1 .. n
             PROVE  buf[r][(tail[r] + i - 1) % Capacity] \in Lines
  BY SMTT(60) DEF Slots
<1> DEFINE j == tail[r] + i - 1
<1>1. head[r] \in Nat /\ tail[r] \in Nat
  BY DEF TypeOK
<1>2. j \in Nat /\ tail[r] <= j /\ j < head[r]
  BY <1>1, SMTT(60)
<1> HIDE DEF j
<1>3. buf[r][j % Capacity] \in Lines
  BY <1>2 DEF RingInv
<1> QED BY <1>3 DEF j

LEMMA TypeInit == Init => TypeOK /\ RingInv
<1> SUFFICES ASSUME Init
             PROVE  TypeOK /\ RingInv
  OBVIOUS
<1> USE LogAssumption DEF Init
<1>1. TypeOK
  <2>1. 1 \in Workers /\ 0 \in 0 .. KBatch
    BY SMTT(60) DEF Workers
  <2>2. buf \in [Workers -> [0 .. Capacity - 1 -> Lines \cup {NoLine}]]
    OBVIOUS
  <2>3. file \in Seq(Lines)
    BY SMTT(60)
  <2>4. /\ wpc \in [Workers -> {"off", "run", "fill", "commit", "exit"}]
        /\ wstop \in [Workers -> BOOLEAN] /\ served \in [Workers -> Nat]
        /\ head \in [Workers -> Nat] /\ tail \in [Workers -> Nat]
    OBVIOUS
  <2> QED BY <2>1, <2>2, <2>3, <2>4 DEF TypeOK
<1>2. RingInv
  BY SMTT(60) DEF RingInv, Formatting, Workers
<1> QED BY <1>1, <1>2

\* The loops over the pool, and over the rings, stay inside.
LEMMA NextInPool ==
    /\ 1 \in Workers
    /\ \A w \in Workers : w < NWorkers => w + 1 \in Workers
BY LogAssumption, SMTT(60) DEF Workers

\* What listen() and stop() do leaves the rings alone.
LEMMA ServerTypes ==
    ASSUME TypeOK, RingInv, Server \/ RequestStop \/ Kill \/ Signal
    PROVE  TypeOK' /\ RingInv'
<1> USE LogAssumption
<1>1. CASE StartWorker
  <2>1. TypeOK'
    <3>1. at' \in Workers /\ main' \in {"start", "wait"}
      BY <1>1, NextInPool, SMTT(60) DEF StartWorker, TypeOK
    <3>2. wpc' \in [Workers -> {"off", "run", "fill", "commit", "exit"}]
      BY <1>1 DEF StartWorker, TypeOK
    <3>3. UNCHANGED <<stop_flag, sigterm, caller, wstop, served, ringVars, writerVars, stop_, file>>
      BY <1>1 DEF StartWorker
    <3> QED BY <3>1, <3>2, <3>3 DEF TypeOK, ringVars, writerVars
  <2>2. \A w \in Workers : Formatting(w)' => Formatting(w)
    BY <1>1 DEF StartWorker, Formatting, TypeOK
  <2>3. \A w \in Workers : wpc'[w] = "commit" => wpc[w] = "commit"
    BY <1>1 DEF StartWorker, TypeOK
  <2>4. RingInv'
    BY <1>1, <2>2, <2>3 DEF StartWorker, RingInv, ringVars, writerVars
  <2> QED BY <2>1, <2>4
<1>2. CASE CreateLog
  <2>1. TypeOK'
    BY <1>2 DEF TypeOK, CreateLog, workerVars, ringVars
  <2>2. RingInv'
    BY <1>2 DEF CreateLog, RingInv, Formatting, workerVars, ringVars
  <2> QED BY <2>1, <2>2
<1>3. CASE Block \/ Wait \/ SigWait \/ StopWorker \/ JoinWorker \/ StopLog \/ JoinLog
           \/ RequestStop \/ Kill \/ Signal
  <2>1. /\ UNCHANGED <<wpc, served, ringVars, writerVars, file>>
        /\ wstop' \in [Workers -> BOOLEAN]
    BY <1>3 DEF Block, Wait, SigWait, StopWorker, JoinWorker, StopLog, JoinLog,
                RequestStop, Kill, Signal, workerVars, TypeOK
  <2>2. /\ main' \in {"block", "create", "start", "wait", "sigwait", "stop", "join",
                      "stoplog", "joinlog", "done"}
        /\ at' \in Workers /\ caller' \in {"idle", "kill", "done"}
        /\ stop_flag' \in BOOLEAN /\ sigterm' \in BOOLEAN /\ stop_' \in BOOLEAN
    <3>1. CASE Block \/ Wait \/ SigWait \/ StopLog \/ JoinLog \/ RequestStop \/ Kill \/ Signal
      BY <3>1 DEF Block, Wait, SigWait, StopLog, JoinLog, RequestStop, Kill, Signal, TypeOK
    <3>2. CASE StopWorker \/ JoinWorker
      <4>a. at \in Workers
        BY DEF TypeOK
      <4>b. /\ at' = 1 \/ (at < NWorkers /\ at' = at + 1)
            /\ main' \in {"stop", "join", "stoplog"}
        BY <3>2 DEF StopWorker, JoinWorker
      <4>1. at' \in Workers /\ main' \in {"stop", "join", "stoplog"}
        BY <4>a, <4>b, NextInPool
      <4>2. UNCHANGED <<caller, stop_flag, sigterm, stop_>>
        BY <3>2 DEF StopWorker, JoinWorker
      <4> QED BY <4>1, <4>2 DEF TypeOK
    <3> QED BY <1>3, <3>1, <3>2
  <2>3. TypeOK'
    BY <2>1, <2>2 DEF TypeOK, ringVars, writerVars
  <2>4. RingInv'
    BY <2>1 DEF RingInv, Formatting, ringVars, writerVars
  <2> QED BY <2>3, <2>4
<1> QED BY <1>1, <1>2, <1>3 DEF Server

\* A worker writes only to the slot behind the last line, and moves its own
\* counter on only when a line is there.
LEMMA WorkerTypes ==
    ASSUME TypeOK, RingInv, NEW w \in Workers, Worker(w)
    PROVE  TypeOK' /\ RingInv'
<1> USE LogAssumption
<1>0. /\ head \in [Workers -> Nat] /\ tail \in [Workers -> Nat]
      /\ served \in [Workers -> Nat] /\ Requests \in [Workers -> Nat] /\ Capacity \in Nat \ {0}
  BY DEF TypeOK, Workers
<1>1. CASE Reserve(w)
  <2>1. TypeOK'
    <3>1. wpc' \in [Workers -> {"off", "run", "fill", "commit", "exit"}]
      BY <1>1 DEF Reserve, TypeOK
    <3>2. served' \in [Workers -> Nat]
      BY <1>1, <1>0, SMTT(60) DEF Reserve
    <3>3. UNCHANGED <<serverVars, wstop, ringVars, writerVars, stop_, file>>
      BY <1>1 DEF Reserve
    <3> QED BY <3>1, <3>2, <3>3, SMTT(30) DEF TypeOK, serverVars, ringVars, writerVars
  <2>2. ASSUME NEW v \in Workers, Formatting(v)'
        PROVE  (v # w /\ Formatting(v)) \/ (v = w /\ ~Full(w))
    <3>1. wpc' = [wpc EXCEPT ![w] = IF Full(w) THEN "run" ELSE "fill"]
          /\ wpc \in [Workers -> {"off", "run", "fill", "commit", "exit"}]
      BY <1>1 DEF Reserve, TypeOK
    <3>2. CASE v = w
      BY <2>2, <3>1, <3>2 DEF Formatting
    <3>3. CASE v # w
      <4>1. wpc'[v] = wpc[v]
        BY <3>1, <3>3
      <4> QED BY <2>2, <3>3, <4>1 DEF Formatting
    <3> QED BY <3>2, <3>3
  <2>3. \A v \in Workers : wpc'[v] = "commit" => wpc[v] = "commit"
    BY <1>1 DEF Reserve, TypeOK
  <2>4. \A v \in Workers : served'[v] = IF v = w THEN served[v] + 1 ELSE served[v]
    BY <1>1, <1>0 DEF Reserve
  <2>5. served[w] < Requests[w] /\ UNCHANGED <<head, tail, buf, pc, ring, iov>>
    BY <1>1 DEF Reserve, ringVars, writerVars
  <2>6. ~Full(w) => head[w] - tail[w] < Capacity
    BY <1>0, SMTT(60) DEF Full
  <2>7. RingInv'
    <3> SUFFICES ASSUME NEW v \in Workers
                 PROVE  /\ served'[v] <= Requests[v] /\ (Formatting(v)' => served'[v] >= 1)
                        /\ Formatting(v)' => head[v] - tail[v] < Capacity
      BY <2>3, <2>5 DEF RingInv
    <3>1. served'[v] <= Requests[v] /\ (v = w => served'[v] >= 1)
      BY <1>0, <2>4, <2>5, SMTT(60) DEF RingInv
    <3>2. Formatting(v)' => served'[v] >= 1
      BY <3>1, <2>2, <2>4 DEF RingInv
    <3> QED BY <3>1, <3>2, <2>2, <2>6 DEF RingInv
  <2> QED BY <2>1, <2>7
<1>2. CASE Fill(w)
  <2>1. <<w, served[w]>> \in Lines
    <3>1. served[w] \in 1 .. Requests[w]
      BY <1>2, <1>0, SMTT(60) DEF Fill, Formatting, RingInv
    <3> QED BY <3>1, SMTT(60) DEF Lines
  <2>2. head[w] \in Nat /\ head[w] % Capacity \in 0 .. Capacity - 1
    BY <1>0, SlotInRing
  <2>3. buf' \in [Workers -> [0 .. Capacity - 1 -> Lines \cup {NoLine}]]
    BY <1>2, <2>1, <2>2 DEF Fill, TypeOK
  <2>4. TypeOK'
    BY <1>2, <2>3, SMTT(30) DEF TypeOK, Fill, serverVars, writerVars
  <2>5. /\ \A v \in Workers : Formatting(v)' => Formatting(v)
        /\ \A v \in Workers : wpc'[v] = "commit" => v = w \/ wpc[v] = "commit"
        /\ UNCHANGED <<served, head, tail, pc, ring, iov>>
    BY <1>2 DEF Fill, Formatting, TypeOK, writerVars
  <2>6. buf'[w][head[w] % Capacity] \in Lines
    BY <1>2, <2>1, <2>2 DEF Fill, TypeOK
  <2>7. \A v \in Workers : v # w => buf'[v] = buf[v]
    BY <1>2 DEF Fill, TypeOK
  <2>8. \A j \in 0 .. Capacity - 1 : j # head[w] % Capacity => buf'[w][j] = buf[w][j]
    BY <1>2 DEF Fill, TypeOK
  <2>9. ASSUME NEW j \in Nat, tail[w] <= j, j < head[w]
        PROVE  buf'[w][j % Capacity] \in Lines
    <3>1. buf[w][j % Capacity] \in Lines /\ head[w] - tail[w] < Capacity
      BY <2>9, <1>2 DEF RingInv, Fill, Formatting
    <3>2. head[w] - j < Capacity
      BY <3>1, <2>9, <1>0, SMTT(60)
    <3>3. j % Capacity # head[w] % Capacity
      BY <3>2, <2>9, <2>2, <1>0, SlotsDiffer
    <3> QED BY <3>1, <3>3, <2>8, SlotInRing
  <2>10. RingInv'
    BY <2>5, <2>6, <2>7, <2>9 DEF RingInv
  <2> QED BY <2>4, <2>10
<1>3. CASE Commit(w)
  <2>1. TypeOK'
    <3>1. wpc' \in [Workers -> {"off", "run", "fill", "commit", "exit"}]
      BY <1>3 DEF Commit, TypeOK
    <3>2. head' \in [Workers -> Nat]
      BY <1>3, <1>0, SMTT(60) DEF Commit
    <3>3. UNCHANGED <<serverVars, wstop, served, tail, buf, writerVars, stop_, file>>
      BY <1>3 DEF Commit
    <3> QED BY <3>1, <3>2, <3>3, SMTT(30) DEF TypeOK, serverVars, writerVars
  <2>2. /\ \A v \in Workers : Formatting(v)' => v # w /\ Formatting(v)
        /\ \A v \in Workers : wpc'[v] = "commit" => v # w /\ wpc[v] = "commit"
        /\ UNCHANGED <<served, tail, buf, pc, ring, iov>>
    BY <1>3 DEF Commit, Formatting, TypeOK, writerVars
  <2>3. \A v \in Workers : head'[v] = IF v = w THEN head[v] + 1 ELSE head[v]
    BY <1>3, <1>0 DEF Commit
  <2>4. head[w] - tail[w] < Capacity /\ buf[w][head[w] % Capacity] \in Lines
    BY <1>3 DEF Commit, RingInv, Formatting
  <2>5. \A j \in Nat : tail[w] <= j /\ j < head[w] + 1 => buf[w][j % Capacity] \in Lines
    <3> SUFFICES ASSUME NEW j \in Nat, tail[w] <= j, j < head[w] + 1
                 PROVE  buf[w][j % Capacity] \in Lines
      OBVIOUS
    <3>1. j < head[w] \/ j = head[w]
      BY <1>0, SMTT(60)
    <3> QED BY <3>1, <2>4 DEF RingInv
  <2>6. RingInv'
    <3>1. \A v \in Workers :
            /\ served[v] <= Requests[v] /\ (Formatting(v)' => served[v] >= 1)
            /\ wpc'[v] = "commit" => buf[v][head'[v] % Capacity] \in Lines
            /\ \A j \in Nat : tail[v] <= j /\ j < head'[v] => buf[v][j % Capacity] \in Lines
      BY <2>2, <2>3, <2>5 DEF RingInv
    <3>2. ASSUME NEW v \in Workers
          PROVE  /\ tail[v] <= head'[v] /\ head'[v] - tail[v] <= Capacity
                 /\ Formatting(v)' => head'[v] - tail[v] < Capacity
      <4>1. /\ tail[v] <= head[v] /\ head[v] - tail[v] <= Capacity
            /\ Formatting(v) => head[v] - tail[v] < Capacity
        BY DEF RingInv
      <4>2. head[v] \in Nat /\ tail[v] \in Nat /\ Capacity \in Nat
        BY <1>0
      <4>3. CASE v = w
        BY <2>2, <2>3, <2>4, <4>1, <4>2, <4>3, SMTT(60)
      <4>4. CASE v # w
        BY <2>2, <2>3, <4>1, <4>2, <4>4
      <4> QED BY <4>3, <4>4
    <3>3. pc \in {"writev", "consume"} => 1 <= iov /\ iov <= head'[ring] - tail[ring]
      <4>1. ring \in Workers /\ iov \in Nat
        BY SMTT(60) DEF TypeOK
      <4>2. head[ring] <= head'[ring]
        BY <4>1, <2>3, <1>0, SMTT(60)
      <4>3. head[ring] \in Nat /\ tail[ring] \in Nat /\ head'[ring] \in Nat
        BY <4>1, <2>3, <1>0, SMTT(60)
      <4> QED BY <4>1, <4>2, <4>3, SMTT(60) DEF RingInv
    <3> QED BY <2>2, <3>1, <3>2, <3>3 DEF RingInv
  <2> QED BY <2>1, <2>6
<1>4. CASE Exit(w)
  <2>1. TypeOK'
    BY <1>4, SMTT(60) DEF TypeOK, Exit, serverVars, ringVars, writerVars
  <2>2. /\ \A v \in Workers : Formatting(v)' => Formatting(v)
        /\ \A v \in Workers : wpc'[v] = "commit" => wpc[v] = "commit"
        /\ UNCHANGED <<served, head, tail, buf, pc, ring, iov>>
    BY <1>4 DEF Exit, Formatting, TypeOK, ringVars, writerVars
  <2>3. RingInv'
    BY <2>2 DEF RingInv
  <2> QED BY <2>1, <2>3
<1> QED BY <1>1, <1>2, <1>3, <1>4 DEF Worker

\* The writer reads lines only, and moves its counter on by what it has read.
LEMMA WriterTypes ==
    ASSUME TypeOK, RingInv, Writer
    PROVE  TypeOK' /\ RingInv'
<1> USE LogAssumption
<1>0. /\ head \in [Workers -> Nat] /\ tail \in [Workers -> Nat] /\ ring \in Workers
      /\ iov \in Nat /\ Capacity \in Nat \ {0} /\ KBatch \in Nat
  BY SMTT(60) DEF TypeOK
<1>a. /\ head[ring] \in Nat /\ tail[ring] \in Nat /\ Pending(ring) \in Nat
      /\ Pending(ring) = head[ring] - tail[ring]
  BY <1>0, SMTT(60) DEF RingInv, Pending
<1>b. NextRing => ring' \in Workers /\ pc' \in {"peek", "check"}
  BY <1>0, NextInPool DEF NextRing
<1>c. UNCHANGED <<serverVars, workerVars, head, buf, stop_>>
  BY DEF Writer, Check, Peek, Writev, Interrupted, Consume, Drain, ringVars
<1>1. CASE Check
  <2>1. TypeOK'
    BY <1>1 DEF TypeOK, Check, serverVars, workerVars, ringVars
  <2>2. RingInv'
    BY <1>1 DEF Check, RingInv, Formatting, workerVars, ringVars
  <2> QED BY <2>1, <2>2
<1>2. CASE Peek
  <2>1. iov' = (IF Pending(ring) < KBatch THEN Pending(ring) ELSE KBatch)
    BY <1>2 DEF Peek
  <2>2. iov' \in 0 .. KBatch /\ iov' <= head[ring] - tail[ring]
    BY <2>1, <1>0, <1>a, SMTT(60)
  <2>3. \/ ring' \in Workers /\ pc' \in {"peek", "check"}
        \/ ring' = ring /\ pc' = "writev" /\ 1 <= iov'
    BY <1>2, <1>b, <2>2, SMTT(60) DEF Peek
  <2>4. UNCHANGED <<tail, file>>
    BY <1>2 DEF Peek, ringVars
  <2>5. TypeOK'
    BY <1>c, <2>2, <2>3, <2>4, <1>0, SMTT(60) DEF TypeOK, serverVars, workerVars
  <2>6. RingInv'
    BY <1>c, <2>2, <2>3, <2>4 DEF RingInv, Formatting, workerVars
  <2> QED BY <2>5, <2>6
<1>3. CASE Writev
  <2>1. iov <= head[ring] - tail[ring]
    BY <1>3 DEF Writev, RingInv
  <2>2. PICK k \in 0 .. iov : file' = file \o Slots(ring, k)
    BY <1>3 DEF Writev
  <2>3. k \in Nat /\ k <= head[ring] - tail[ring]
    BY <2>1, <2>2, <1>0, <1>a, SMTT(60)
  <2>4. file' \in Seq(Lines)
    <3>1. Slots(ring, k) \in Seq(Lines)
      BY <2>3, <1>0, SlotsAreLines
    <3>2. file \in Seq(Lines)
      BY DEF TypeOK
    <3> HIDE DEF Slots
    <3> QED BY <2>2, <3>1, <3>2, SMTT(60)
  <2>5. pc' = "consume" /\ pc = "writev" /\ UNCHANGED <<tail, ring, iov>>
    BY <1>3 DEF Writev, ringVars
  <2>6. TypeOK'
    BY <1>c, <2>4, <2>5 DEF TypeOK, serverVars, workerVars
  <2>7. RingInv'
    BY <1>c, <2>5 DEF RingInv, Formatting, workerVars
  <2> QED BY <2>6, <2>7
<1>4. CASE Interrupted
  <2>1. /\ ring' \in Workers /\ pc' \in {"peek", "check"}
        /\ UNCHANGED <<tail, iov, file>>
    BY <1>4, <1>b DEF Interrupted, ringVars
  <2>2. TypeOK'
    BY <1>c, <2>1, SMTT(60) DEF TypeOK, serverVars, workerVars
  <2>3. RingInv'
    BY <1>c, <2>1 DEF RingInv, Formatting, workerVars
  <2> QED BY <2>2, <2>3
<1>5. ASSUME NEW n \in Nat, n <= head[ring] - tail[ring],
             tail' = [tail EXCEPT ![ring] = @ + n], pc' \notin {"writev", "consume"}
      PROVE  tail' \in [Workers -> Nat] /\ RingInv'
  <2>1. tail' \in [Workers -> Nat]
    BY <1>5, <1>0, SMTT(60)
  <2>2. \A w \in Workers : tail'[w] = IF w = ring THEN tail[w] + n ELSE tail[w]
    BY <1>5, <1>0
  <2>3. \A w \in Workers : tail[w] <= tail'[w] /\ tail'[w] <= head[w]
    BY <1>0, <1>5, <2>2, SMTT(60) DEF RingInv
  <2>4. \A w \in Workers : /\ head[w] - tail'[w] <= head[w] - tail[w]
                           /\ tail[w] \in Nat /\ tail'[w] \in Nat /\ head[w] \in Nat
    BY <1>0, <2>1, <2>3, SMTT(60)
  <2>5. \A w \in Workers : /\ head[w] - tail'[w] <= Capacity
                           /\ Formatting(w) => head[w] - tail'[w] < Capacity
    BY <1>0, <2>4, SMTT(60) DEF RingInv
  <2>6. \A w \in Workers : \A j \in Nat :
          tail'[w] <= j /\ j < head[w] => buf[w][j % Capacity] \in Lines
    <3> SUFFICES ASSUME NEW w \in Workers, NEW j \in Nat, tail'[w] <= j, j < head[w]
                 PROVE  buf[w][j % Capacity] \in Lines
      OBVIOUS
    <3>1. tail[w] <= j
      BY <2>3, <2>4, SMTT(60)
    <3> QED BY <3>1 DEF RingInv
  <2>7. RingInv'
    BY <1>c, <1>5, <2>3, <2>5, <2>6 DEF RingInv, Formatting, workerVars
  <2> QED BY <2>1, <2>7
<1>6. CASE Consume
  <2>1. /\ iov <= head[ring] - tail[ring] /\ tail' = [tail EXCEPT ![ring] = @ + iov]
        /\ ring' \in Workers /\ pc' \in {"peek", "check"} /\ UNCHANGED <<iov, file>>
    BY <1>6, <1>b DEF Consume, RingInv
  <2>2. tail' \in [Workers -> Nat] /\ RingInv'
    BY <2>1, <1>0, <1>5
  <2>3. TypeOK'
    BY <1>c, <2>1, <2>2, SMTT(60) DEF TypeOK, serverVars, workerVars
  <2> QED BY <2>2, <2>3
<1>7. CASE Drain
  <2>1. CASE Pending(ring) > 0
    <3>1. /\ tail' = [tail EXCEPT ![ring] = @ + 1] /\ UNCHANGED <<pc, ring, iov>>
          /\ pc = "drain" /\ \E k \in 0 .. 1 : file' = file \o Slots(ring, k)
      BY <1>7, <2>1 DEF Drain
    <3>2. PICK k \in 0 .. 1 : file' = file \o Slots(ring, k)
      BY <3>1
    <3>3. k \in Nat /\ k <= head[ring] - tail[ring] /\ 1 <= head[ring] - tail[ring]
      BY <2>1, <3>2, <1>a, SMTT(60)
    <3>4. Slots(ring, k) \in Seq(Lines) /\ file \in Seq(Lines)
      BY <3>3, <1>0, SlotsAreLines DEF TypeOK
    <3> HIDE DEF Slots
    <3>5. file' \in Seq(Lines)
      BY <3>2, <3>4, SMTT(60)
    <3>6. tail' \in [Workers -> Nat] /\ RingInv'
      BY <3>1, <3>3, <1>5
    <3>7. TypeOK'
      BY <1>c, <3>1, <3>5, <3>6 DEF TypeOK, serverVars, workerVars
    <3> QED BY <3>6, <3>7
  <2>2. CASE ~(Pending(ring) > 0)
    <3>1. /\ UNCHANGED <<tail, file, iov>> /\ pc = "drain"
          /\ ring' \in Workers /\ pc' \in {"drain", "exit"}
      BY <1>7, <2>2, <1>0, NextInPool DEF Drain
    <3>2. TypeOK'
      BY <1>c, <3>1 DEF TypeOK, serverVars, workerVars
    <3>3. RingInv'
      BY <1>c, <3>1 DEF RingInv, Formatting, workerVars
    <3> QED BY <3>2, <3>3
  <2> QED BY <2>1, <2>2
<1> QED BY <1>1, <1>2, <1>3, <1>4, <1>6, <1>7 DEF Writer

LEMMA TypeStep == TypeOK /\ RingInv /\ [Next]_vars => TypeOK' /\ RingInv'
<1> SUFFICES ASSUME TypeOK, RingInv, [Next]_vars
             PROVE  TypeOK' /\ RingInv'
  OBVIOUS
<1>1. CASE Server \/ RequestStop \/ Kill \/ Signal
  BY <1>1, ServerTypes
<1>2. CASE \E w \in Workers : Worker(w)
  BY <1>2, WorkerTypes
<1>3. CASE Writer
  BY <1>3, WriterTypes
<1>4. CASE UNCHANGED vars
  BY <1>4, SMTT(60) DEF TypeOK, RingInv, Formatting, vars, serverVars, workerVars, ringVars, writerVars
<1> QED BY <1>1, <1>2, <1>3, <1>4 DEF Next, Terminated

\* Every variable keeps its type: the writer thread never takes a slot for a
\* line that no worker has formatted.
THEOREM TypeCorrect == Spec => []TypeOK
BY TypeInit, TypeStep, PTL DEF Spec

-----------------------------------------------------------------------------
(* The rings implement a bounded queue per worker *)

\* A step that leaves the queues and the file as they are is a stutter.
LEMMA Stutters ==
    ASSUME \A r \in Workers : Queued(r)' = Queued(r), UNCHANGED file
    PROVE  UNCHANGED <<[r \in Workers |-> Queued(r)], file>>
OBVIOUS

\* The lines that have left a ring lie between its counters.
LEMMA GoneInRing ==
    ASSUME TypeOK, RingInv, NEW r \in Workers
    PROVE  /\ Gone(r) \in Nat /\ tail[r] \in Nat /\ head[r] \in Nat
           /\ tail[r] <= Gone(r) /\ Gone(r) <= head[r] /\ head[r] - Gone(r) <= Capacity
<1>1. /\ tail[r] \in Nat /\ head[r] \in Nat /\ iov \in Nat /\ Capacity \in Nat
      /\ tail[r] <= head[r] /\ head[r] - tail[r] <= Capacity
  BY LogAssumption, SMTT(60) DEF TypeOK, RingInv
<1>2. CASE pc = "consume" /\ ring = r
  <2>1. Gone(r) = tail[r] + iov /\ iov <= head[r] - tail[r]
    BY <1>2 DEF Gone, RingInv
  <2> QED BY <1>1, <2>1, SMTT(60)
<1>3. CASE ~(pc = "consume" /\ ring = r)
  <2>1. Gone(r) = tail[r]
    BY <1>1, <1>3, SMTT(60) DEF Gone
  <2> QED BY <1>1, <2>1, SMTT(60)
<1> QED BY <1>2, <1>3

\* Formatting a line is not seen: its slot is not one of the queue's.
LEMMA FillStutters ==
    ASSUME TypeOK, RingInv, NEW w \in Workers, Fill(w), NEW r \in Workers
    PROVE  Queued(r)' = Queued(r)
<1> USE LogAssumption
<1>1. /\ UNCHANGED <<head, tail, pc, ring, iov>>
      /\ head[w] - tail[w] < Capacity
  BY DEF Fill, writerVars, RingInv, Formatting
<1>2. Gone(r)' = Gone(r)
  BY <1>1 DEF Gone
<1>3. Gone(r) \in Nat /\ head[r] \in Nat /\ tail[r] \in Nat /\ tail[r] <= Gone(r)
  BY GoneInRing
<1>4. ASSUME NEW i \in 1 .. head[r] - Gone(r)
      PROVE  buf'[r][(Gone(r) + i - 1) % Capacity] = buf[r][(Gone(r) + i - 1) % Capacity]
  <2> DEFINE j == Gone(r) + i - 1
  <2>1. j \in Nat /\ j < head[r] /\ tail[r] <= j
    BY <1>3, SMTT(60)
  <2> HIDE DEF j
  <2>2. buf'[r][j % Capacity] = buf[r][j % Capacity]
    <3>1. CASE r # w
      BY <3>1 DEF Fill, TypeOK
    <3>2. CASE r = w
      <4>1. head[w] - j < Capacity
        BY <1>1, <1>3, <2>1, <3>2, SMTT(60)
      <4>2. j % Capacity # head[w] % Capacity
        BY <4>1, <2>1, <1>3, <3>2, SlotsDiffer
      <4>3. j % Capacity \in 0 .. Capacity - 1
        BY <2>1, SlotInRing
      <4> QED BY <3>2, <4>2, <4>3 DEF Fill, TypeOK
    <3> QED BY <3>1, <3>2
  <2> QED BY <2>2 DEF j
<1> QED BY <1>1, <1>2, <1>4 DEF Queued

\* commit() puts the formatted line at the end of its worker's queue, which has
\* room for it.
LEMMA CommitLogs ==
    ASSUME TypeOK, RingInv, NEW w \in Workers, Commit(w)
    PROVE  Queue!Log(w)
<1> USE LogAssumption
<1> DEFINE q == Queued(w)
           l == buf[w][head[w] % Capacity]
<1>1. /\ UNCHANGED <<tail, buf, pc, ring, iov, file>>
      /\ head' = [head EXCEPT ![w] = @ + 1]
      /\ l \in Lines /\ head[w] - tail[w] < Capacity
  BY DEF Commit, writerVars, RingInv, Formatting
<1>2. /\ Gone(w) \in Nat /\ head[w] \in Nat /\ tail[w] \in Nat
      /\ tail[w] <= Gone(w) /\ Gone(w) <= head[w]
  BY GoneInRing
<1>3. \A r \in Workers : Gone(r)' = Gone(r)
  BY <1>1 DEF Gone
<1>4. head'[w] = head[w] + 1 /\ \A r \in Workers : r # w => head'[r] = head[r]
  BY <1>1 DEF TypeOK
<1>5. \A r \in Workers : r # w => Queued(r)' = Queued(r)
  BY <1>1, <1>3, <1>4 DEF Queued
<1>6. Len(q) = head[w] - Gone(w) /\ Len(q) < Capacity
  <2>1. head[w] - Gone(w) \in Nat
    BY <1>2, SMTT(60)
  <2>2. Len(q) = head[w] - Gone(w)
    BY <2>1, SMTT(60) DEF Queued
  <2> QED BY <1>1, <1>2, <2>2, SMTT(60)
<1>7. Queued(w)' = Append(q, l)
  <2> DEFINE n == head[w] - Gone(w)
  <2>1. n \in Nat /\ head[w] + 1 - Gone(w) = n + 1 /\ Gone(w) + (n + 1) - 1 = head[w]
    BY <1>2, SMTT(60)
  <2>2. Queued(w)' = [i \in 1 .. n + 1 |-> buf[w][(Gone(w) + i - 1) % Capacity]]
    <3>1. head'[w] - Gone(w)' = n + 1 /\ Gone(w)' = Gone(w) /\ buf' = buf
      BY <1>1, <1>2, <1>3, <1>4, <2>1, SMTT(60)
    <3> HIDE DEF n
    <3>2. Queued(w)' = [i \in 1 .. head'[w] - Gone(w)' |-> buf'[w][(Gone(w)' + i - 1) % Capacity]]
      BY DEF Queued
    <3> QED BY <3>1, <3>2
  <2>3. q = [i \in 1 .. n |-> buf[w][(Gone(w) + i - 1) % Capacity]]
    BY DEF Queued
  <2>4. Append(q, l) = [i \in 1 .. n + 1 |-> IF i = n + 1 THEN l ELSE q[i]]
    <3> HIDE DEF l, n
    <3> QED BY <2>1, <2>3, SMTT(60)
  <2>5. \A i \in 1 .. n + 1 : (IF i = n + 1 THEN l ELSE q[i]) = buf[w][(Gone(w) + i - 1) % Capacity]
    BY <2>1, <2>3, SMTT(60)
  <2> QED BY <2>2, <2>4, <2>5
<1>8. [r \in Workers |-> Queued(r)'] = [[r \in Workers |-> Queued(r)] EXCEPT ![w] = Append(@, l)]
  BY <1>5, <1>7
<1> QED BY <1>1, <1>6, <1>8 DEF Queue!Log

\* The first n lines of a queue are taken from it: what remains is the rest,
\* and the slots written are its first ones.
LEMMA TakeFlushes ==
    ASSUME TypeOK, RingInv, NEW w \in Workers, Gone(w) = tail[w],
           NEW n \in Nat \ {0}, n <= head[w] - tail[w], Gone(w)' = tail[w] + n,
           \E k \in 0 .. n : (k = n \/ WriteFails) /\ file' = file \o Slots(w, k),
           UNCHANGED <<head, buf>>,
           \A r \in Workers : r # w => Gone(r)' = Gone(r)
    PROVE  Queue!Next
<1> USE LogAssumption
<1>0. PICK k \in 0 .. n : (k = n \/ WriteFails) /\ file' = file \o Slots(w, k)
  OBVIOUS
<1> DEFINE q == Queued(w)
           m == head[w] - tail[w]
<1>1. head[w] \in Nat /\ tail[w] \in Nat /\ m \in Nat
  BY GoneInRing, SMTT(60)
<1>2. q = [i \in 1 .. m |-> buf[w][(tail[w] + i - 1) % Capacity]] /\ Len(q) = m
  BY <1>1, SMTT(60) DEF Queued
<1>3. Queued(w)' = [i \in 1 .. m - n |-> buf[w][(tail[w] + n + i - 1) % Capacity]]
  <2>1. head'[w] - Gone(w)' = m - n /\ Gone(w)' = tail[w] + n /\ buf' = buf
    BY <1>1, SMTT(60)
  <2> HIDE DEF m
  <2>2. Queued(w)' = [i \in 1 .. head'[w] - Gone(w)' |-> buf'[w][(Gone(w)' + i - 1) % Capacity]]
    BY DEF Queued
  <2> QED BY <2>1, <2>2
<1>4. Queued(w)' = SubSeq(q, n + 1, Len(q))
  <2>1. SubSeq(q, n + 1, m) = [i \in 1 .. m - n |-> q[n + i]]
    <3>1. SubSeq(q, n + 1, m) = [i \in 1 .. (1 + m - (n + 1)) |-> q[i + (n + 1) - 1]]
      <4>1. q = [i \in 1 .. m |-> q[i]] /\ Len(q) = m /\ m \in Nat /\ n <= m
        BY <1>1, <1>2
      <4> HIDE DEF q, m
      <4> QED BY <4>1, SMTT(30)
    <3>2. 1 + m - (n + 1) = m - n /\ \A i \in 1 .. m - n : i + (n + 1) - 1 = n + i
      BY <1>1, SMTT(60)
    <3> HIDE DEF q, m
    <3> QED BY <3>1, <3>2
  <2>2. ASSUME NEW i \in 1 .. m - n
        PROVE  q[n + i] = buf[w][(tail[w] + n + i - 1) % Capacity]
    <3>1. n + i \in 1 .. m
      BY ONLY <1>1, n \in Nat \ {0}, i \in 1 .. m - n, SMTT(60), ZenonT(30)
    <3>2. tail[w] + (n + i) - 1 = tail[w] + n + i - 1
      BY ONLY <1>1, n \in Nat \ {0}, i \in 1 .. m - n, SMTT(60), ZenonT(30)
    <3> HIDE DEF m, q
    <3> QED BY <3>1, <3>2, <1>2
  <2> HIDE DEF m, q
  <2> QED BY <1>2, <1>3, <2>1, <2>2
<1>5. Slots(w, k) = SubSeq(q, 1, k)
  <2>1. k \in Nat /\ k <= m
    BY <1>1, SMTT(60)
  <2>2. SubSeq(q, 1, k) = [i \in 1 .. k |-> q[i]]
    <3>1. SubSeq(q, 1, k) = [i \in 1 .. (1 + k - 1) |-> q[i + 1 - 1]]
      BY <1>1, <1>2, <2>1, SMTT(60)
    <3>2. 1 + k - 1 = k /\ \A i \in 1 .. k : i + 1 - 1 = i
      BY <2>1, SMTT(60)
    <3> HIDE DEF q
    <3> QED BY <3>1, <3>2
  <2>3. \A i \in 1 .. k : q[i] = buf[w][(tail[w] + i - 1) % Capacity]
    <3>1. \A i \in 1 .. k : i \in 1 .. m
      BY <1>1, <2>1, SMTT(60)
    <3> HIDE DEF m, q
    <3> QED BY <3>1, <1>2
  <2> QED BY <2>2, <2>3 DEF Slots
<1>6. \A r \in Workers : r # w => Queued(r)' = Queued(r)
  BY DEF Queued
<1>7. [r \in Workers |-> Queued(r)'] =
        [[r \in Workers |-> Queued(r)] EXCEPT ![w] = SubSeq(@, n + 1, Len(@))]
  <2> HIDE DEF m
  <2> QED BY <1>4, <1>6
<1>8. Queue!Flush(w, n, k)
  BY <1>0, <1>5, <1>7 DEF Queue!Flush
<1>9. n \in 1 .. Len(q)
  BY <1>1, <1>2, SMTT(60)
<1> QED BY <1>8, <1>9 DEF Queue!Next

\* Every step of the writer takes lines from the front of one queue or is not
\* seen.
LEMMA WriterRefines ==
    ASSUME TypeOK, RingInv, Writer
    PROVE  [Queue!Next]_<<[r \in Workers |-> Queued(r)], file>>
<1>0. /\ head \in [Workers -> Nat] /\ tail \in [Workers -> Nat] /\ ring \in Workers /\ iov \in Nat
  BY SMTT(60) DEF TypeOK
<1>1. UNCHANGED <<head, buf>>
  BY DEF Writer, Check, Peek, Writev, Interrupted, Consume, Drain, ringVars
<1>2. ASSUME UNCHANGED <<tail, file>>, pc # "consume", pc' # "consume"
      PROVE  UNCHANGED <<[r \in Workers |-> Queued(r)], file>>
  BY <1>1, <1>2, Stutters DEF Queued, Gone
<1>3. CASE Check \/ Peek \/ Interrupted
  <2>1. UNCHANGED <<tail, file>> /\ pc # "consume" /\ pc' # "consume"
    BY <1>3 DEF Check, Peek, Interrupted, NextRing, ringVars
  <2> QED BY <1>2, <2>1
<1>4. CASE Writev
  <2>1. \E k \in 0 .. iov : (k = iov \/ WriteFails) /\ file' = file \o Slots(ring, k)
    BY <1>4 DEF Writev
  <2>2. /\ pc = "writev" /\ pc' = "consume" /\ UNCHANGED <<tail, ring, iov>>
        /\ iov \in Nat \ {0} /\ iov <= head[ring] - tail[ring]
    BY <1>0, <1>4, SMTT(60) DEF Writev, ringVars, RingInv
  <2>3. /\ Gone(ring) = tail[ring] /\ Gone(ring)' = tail[ring] + iov
        /\ \A r \in Workers : r # ring => Gone(r)' = Gone(r)
    BY <1>0, <2>2, SMTT(60) DEF Gone
  <2>4. Queue!Next
    BY <1>0, <1>1, <2>1, <2>2, <2>3, TakeFlushes
  <2> QED BY <2>4
<1>5. CASE Consume
  <2>1. /\ pc = "consume" /\ pc' # "consume" /\ tail' = [tail EXCEPT ![ring] = @ + iov]
        /\ UNCHANGED file
    BY <1>5 DEF Consume, NextRing
  <2>2. \A r \in Workers : Gone(r)' = Gone(r)
    BY <1>0, <2>1, SMTT(60) DEF Gone
  <2> QED BY <1>1, <2>1, <2>2, Stutters DEF Queued
<1>6. CASE Drain
  <2>1. CASE Pending(ring) > 0
    <3>1. /\ tail' = [tail EXCEPT ![ring] = @ + 1] /\ UNCHANGED <<pc, ring, iov>> /\ pc = "drain"
          /\ \E k \in 0 .. 1 : (k = 1 \/ WriteFails) /\ file' = file \o Slots(ring, k)
      BY <1>6, <2>1 DEF Drain
    <3>2. PICK one \in Nat \ {0} : one = 1
      BY SMTT(60)
    <3>3. \E k \in 0 .. one : (k = one \/ WriteFails) /\ file' = file \o Slots(ring, k)
      BY <3>1, <3>2
    <3>4. /\ Gone(ring) = tail[ring] /\ Gone(ring)' = tail[ring] + one
          /\ \A r \in Workers : r # ring => Gone(r)' = Gone(r)
      BY <1>0, <3>1, <3>2, SMTT(60) DEF Gone
    <3>5. one <= head[ring] - tail[ring]
      BY <1>0, <2>1, <3>2, SMTT(60) DEF Pending
    <3>6. UNCHANGED <<head, buf>>
      BY <1>1
    <3>7. Queue!Next
      BY <1>0, <3>1, <3>3, <3>4, <3>5, <3>6, TakeFlushes
    <3> QED BY <3>7
  <2>2. CASE ~(Pending(ring) > 0)
    <3>1. UNCHANGED <<tail, file>> /\ pc # "consume" /\ pc' # "consume"
      BY <1>6, <2>2 DEF Drain
    <3> QED BY <1>2, <3>1
  <2> QED BY <2>1, <2>2
<1> QED BY <1>3, <1>4, <1>5, <1>6 DEF Writer

-----------------------------------------------------------------------------
(* The order in which listen() takes things down *)

LEMMA ShutdownInit == Init => ShutdownInv
BY DEF Init, ShutdownInv, Leaving

LEMMA ShutdownStep == TypeOK /\ RingInv /\ ShutdownInv /\ [Next]_vars => ShutdownInv'
<1> SUFFICES ASSUME TypeOK, RingInv, ShutdownInv, [Next]_vars
             PROVE  ShutdownInv'
  OBVIOUS
<1> USE LogAssumption DEF Leaving
<1>0. /\ at \in Workers /\ ring \in Workers /\ NWorkers \in Nat
      /\ wpc \in [Workers -> {"off", "run", "fill", "commit", "exit"}]
      /\ head \in [Workers -> Nat] /\ tail \in [Workers -> Nat]
  BY DEF TypeOK
<1>1. CASE Block \/ Wait \/ SigWait \/ StopWorker \/ RequestStop \/ Kill \/ Signal
  <2>1. UNCHANGED <<wpc, head, tail, pc, ring, stop_>>
    BY <1>1 DEF Block, Wait, SigWait, StopWorker, RequestStop, Kill, Signal,
                workerVars, ringVars, writerVars
  <2>2. \/ UNCHANGED <<main, at>>
        \/ main \notin {"joinlog", "done"} /\ main' \in {"start", "sigwait", "stop"}
        \/ main = "block" /\ main' = "create"
        \/ main = "stop" /\ main' = "join" /\ at' = 1
    BY <1>1 DEF Block, Wait, SigWait, StopWorker, RequestStop, Kill, Signal
  <2>3. \A w \in Workers : ~(w < 1)
    BY SMTT(60) DEF Workers
  <2> QED BY <2>1, <2>2, <2>3 DEF ShutdownInv
<1>2. CASE CreateLog
  BY <1>2 DEF CreateLog, ShutdownInv, workerVars, ringVars
<1>3. CASE StartWorker
  <2>1. /\ main = "start" /\ main' \in {"start", "wait"}
        /\ UNCHANGED <<head, tail, pc, ring, stop_>>
    BY <1>3 DEF StartWorker, ringVars, writerVars
  <2> QED BY <2>1 DEF ShutdownInv
<1>4. CASE JoinWorker
  <2>1. /\ main = "join" /\ wpc[at] = "exit" /\ UNCHANGED <<wpc, head, tail, pc, ring, stop_>>
        /\ \/ main' = "join" /\ at' = at + 1
           \/ main' = "stoplog" /\ at = NWorkers
    BY <1>0, <1>4, SMTT(60) DEF JoinWorker, workerVars, ringVars, writerVars, Workers
  <2>2. \A w \in Workers : w < at + 1 => w < at \/ w = at
    BY <1>0, SMTT(60) DEF Workers
  <2>3. \A w \in Workers : w < NWorkers \/ w = NWorkers
    BY SMTT(60) DEF Workers
  <2> QED BY <2>1, <2>2, <2>3 DEF ShutdownInv
<1>5. CASE StopLog \/ JoinLog
  BY <1>5 DEF StopLog, JoinLog, ShutdownInv, workerVars, ringVars, writerVars
<1>6. ASSUME NEW w \in Workers, Worker(w)
      PROVE  ShutdownInv'
  <2>1. UNCHANGED <<main, at, stop_, pc, ring, tail>> /\ wpc[w] # "exit"
    BY <1>6 DEF Worker, Reserve, Fill, Commit, Exit, serverVars, writerVars, ringVars
  <2>2. \A v \in Workers : v # w => wpc'[v] = wpc[v] /\ head'[v] = head[v]
    BY <1>0, <1>6 DEF Worker, Reserve, Fill, Commit, Exit, ringVars
  <2>3. main \notin Leaving /\ pc \notin {"drain", "exit"}
    BY <2>1 DEF ShutdownInv
  <2> QED BY <2>1, <2>2, <2>3 DEF ShutdownInv
<1>7. CASE Writer
  <2>1. UNCHANGED <<main, at, stop_, wpc, head>> /\ pc \notin {"off", "exit"}
    BY <1>7 DEF Writer, Check, Peek, Writev, Interrupted, Consume, Drain,
                serverVars, workerVars, ringVars
  <2>2. CASE Check
    <3>1. /\ UNCHANGED <<tail, ring>> /\ pc = "check"
          /\ pc' = (IF stop_ THEN "drain" ELSE "peek")
      BY <2>2 DEF Check, ringVars
    <3>2. ring = 1 /\ \A w \in Workers : ~(w < 1)
      BY <3>1, SMTT(60) DEF ShutdownInv, Workers
    <3> QED BY <2>1, <3>1, <3>2 DEF ShutdownInv
  <2>3. CASE Peek \/ Writev \/ Interrupted \/ Consume
    <3>1. /\ pc' \in {"peek", "writev", "consume", "check"}
          /\ pc' = "check" => ring' = 1
      BY <2>3 DEF Peek, Writev, Interrupted, Consume, NextRing
    <3>2. pc \in {"peek", "writev", "consume"}
      BY <2>3 DEF Peek, Writev, Interrupted, Consume
    <3> QED BY <2>1, <3>1, <3>2 DEF ShutdownInv
  <2>4. CASE Drain /\ Pending(ring) > 0
    <3>1. pc = "drain" /\ UNCHANGED <<pc, ring>> /\ tail' = [tail EXCEPT ![ring] = @ + 1]
      BY <2>4 DEF Drain
    <3>2. \A w \in Workers : w < ring => tail'[w] = tail[w]
      BY <1>0, <3>1, SMTT(60) DEF Workers
    <3> QED BY <2>1, <3>1, <3>2 DEF ShutdownInv
  <2>5. CASE Drain /\ ~(Pending(ring) > 0)
    <3>1. /\ pc = "drain" /\ UNCHANGED tail
          /\ \/ ring' = ring + 1 /\ pc' = "drain"
             \/ ring = NWorkers /\ pc' = "exit"
      BY <1>0, <2>5, SMTT(60) DEF Drain, Workers
    <3>2. head[ring] = tail[ring]
      BY <2>5, <1>0, SMTT(60) DEF Pending, RingInv
    <3>3. \A w \in Workers : /\ w < ring + 1 => w < ring \/ w = ring
                             /\ w < NWorkers \/ w = NWorkers
      BY <1>0, SMTT(60) DEF Workers
    <3> QED BY <2>1, <3>1, <3>2, <3>3 DEF ShutdownInv
  <2> QED BY <1>7, <2>2, <2>3, <2>4, <2>5 DEF Writer
<1>8. CASE UNCHANGED vars
  BY <1>8 DEF ShutdownInv, vars, serverVars, workerVars, ringVars, writerVars
<1> QED BY <1>1, <1>2, <1>3, <1>4, <1>5, <1>6, <1>7, <1>8 DEF Next, Server, Terminated

LEMMA StepRefines ==
    TypeOK /\ RingInv /\ ShutdownInv /\ [Next]_vars => [Queue!Next]_<<[r \in Workers |-> Queued(r)], file>>
<1> SUFFICES ASSUME TypeOK, RingInv, ShutdownInv, [Next]_vars
             PROVE  [Queue!Next]_<<[r \in Workers |-> Queued(r)], file>>
  OBVIOUS
<1>1. ASSUME UNCHANGED <<head, tail, buf, ring, iov, file>>, (pc = "consume") <=> (pc' = "consume")
      PROVE  UNCHANGED <<[r \in Workers |-> Queued(r)], file>>
  BY <1>1, Stutters DEF Queued, Gone
<1>2. CASE Server \/ RequestStop \/ Kill \/ Signal
  <2>1. UNCHANGED <<head, tail, buf, ring, iov, file>>
    BY <1>2 DEF Server, Block, CreateLog, StartWorker, Wait, SigWait, StopWorker, JoinWorker,
                StopLog, JoinLog, RequestStop, Kill, Signal, ringVars, writerVars
  <2>2. (pc = "consume") <=> (pc' = "consume")
    <3>1. CASE CreateLog
      <4>1. pc = "off"
        BY <3>1 DEF CreateLog, ShutdownInv
      <4> QED BY <3>1, <4>1 DEF CreateLog
    <3>2. CASE ~CreateLog
      BY <1>2, <3>2 DEF Server, Block, StartWorker, Wait, SigWait, StopWorker, JoinWorker,
                StopLog, JoinLog, RequestStop, Kill, Signal, writerVars
    <3> QED BY <3>1, <3>2
  <2> QED BY <1>1, <2>1, <2>2
<1>3. CASE \E w \in Workers : Worker(w)
  <2>1. PICK w \in Workers : Worker(w)
    BY <1>3
  <2>2. CASE Reserve(w) \/ Exit(w)
    BY <2>2, <1>1 DEF Reserve, Exit, ringVars, writerVars
  <2>3. CASE Fill(w)
    <3>1. UNCHANGED file
      BY <2>3 DEF Fill
    <3> QED BY <2>3, <3>1, FillStutters, Stutters
  <2>4. CASE Commit(w)
    BY <2>4, CommitLogs DEF Queue!Next
  <2> QED BY <2>1, <2>2, <2>3, <2>4 DEF Worker
<1>4. CASE Writer
  BY <1>4, WriterRefines
<1>5. CASE UNCHANGED vars
  BY <1>1, <1>5 DEF vars, ringVars, writerVars
<1> QED BY <1>2, <1>3, <1>4, <1>5 DEF Next, Terminated

LEMMA InitRefines == Init => Queue!Init
<1> SUFFICES ASSUME Init
             PROVE  Queue!Init
  OBVIOUS
<1>1. \A r \in Workers : head[r] - Gone(r) = 0
  BY SMTT(60) DEF Init, Gone
<1>2. \A r \in Workers : Queued(r) = << >>
  BY <1>1, SMTT(60) DEF Queued
<1> QED BY <1>2 DEF Init, Queue!Init

\* However the workers and the writer thread interleave on the two counters of
\* a ring, the rings are bounded first-in first-out queues into the file.
THEOREM Refinement == Spec => IsBoundedQueue
<1>1. Init => TypeOK /\ RingInv /\ ShutdownInv
  BY TypeInit, ShutdownInit
<1>2. TypeOK /\ RingInv /\ ShutdownInv /\ [Next]_vars => (TypeOK /\ RingInv /\ ShutdownInv)'
  BY TypeStep, ShutdownStep
<1> QED BY <1>1, <1>2, InitRefines, StepRefines, PTL DEF Spec, IsBoundedQueue, Queue!Spec

\* When listen() returns nothing that a worker has logged is left in a ring:
\* the writer's last look at every ring comes after the last worker's end.
THEOREM LogIsDrained == Spec => []NothingLeftBehind
<1>1. Init => TypeOK /\ RingInv /\ ShutdownInv
  BY TypeInit, ShutdownInit
<1>2. TypeOK /\ RingInv /\ ShutdownInv /\ [Next]_vars => (TypeOK /\ RingInv /\ ShutdownInv)'
  BY TypeStep, ShutdownStep
<1>3. ShutdownInv => NothingLeftBehind
  BY DEF ShutdownInv, NothingLeftBehind
<1> QED BY <1>1, <1>2, <1>3, PTL DEF Spec
=============================================================================
