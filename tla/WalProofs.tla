------------------------------ MODULE WalProofs ------------------------------
(***************************************************************************)
(* Proofs about the write-ahead log, for any set of records, any number of *)
(* crashes and compactions and every fsync mode.                           *)
(***************************************************************************)
EXTENDS Wal, TLAPS

\* A step is first-order unless it names the SMT solver.
USE ZenonT(30)

-----------------------------------------------------------------------------
(* The file operations *)

\* A write at or past the end of the file keeps every cell it had.
LEMMA WriteAtFacts ==
    ASSUME NEW f \in Seq(Cell), NEW p \in Nat, Len(f) <= p, NEW c \in Cell
    PROVE  /\ WriteAt(f, p, c) \in Seq(Cell)
           /\ Len(WriteAt(f, p, c)) = p + 1
           /\ \A i \in 1..Len(f) : WriteAt(f, p, c)[i] = f[i]
           /\ WriteAt(f, p, c)[p + 1] = c
<1> DEFINE w == WriteAt(f, p, c)
<1>1. w = [i \in 1..(p + 1) |->
             IF i = p + 1 THEN c ELSE IF i <= Len(f) THEN f[i] ELSE Hole]
  BY SMTT(60) DEF WriteAt
<1>2. Hole \in Cell
  BY DEF Cell
<1>3. \A i \in 1..(p + 1) : w[i] \in Cell
  BY <1>1, <1>2, SMTT(60)
<1>4. w \in Seq(Cell) /\ Len(w) = p + 1
  BY <1>1, <1>3, SMTT(60)
<1> QED BY <1>1, <1>4, SMTT(60)

\* Cutting the file keeps the cells up to the cut.
LEMMA CutFacts ==
    ASSUME NEW f \in Seq(Cell), NEW n \in 0..Len(f)
    PROVE  /\ SubSeq(f, 1, n) \in Seq(Cell)
           /\ Len(SubSeq(f, 1, n)) = n
           /\ \A i \in 1..n : SubSeq(f, 1, n)[i] = f[i]
BY SMTT(60)

LEMMA CellTypes ==
    /\ TornCell \in Cell
    /\ \A r \in Recs, n \in Nat : RecCell(r, n) \in Cell
    /\ \A c \in Cell : IsRec(c) => c.rec \in Recs /\ c.seq \in Nat
BY SMTT(60) DEF TornCell, Hole, RecCell, Cell, IsRec

-----------------------------------------------------------------------------
(* Type correctness *)

LEMMA TypeInit == Init => TypeOK
BY WalAssumption, SMTT(60) DEF Init, TypeOK

\* Every step of the log, the file and their failures keeps the types, the
\* synced prefix inside the file and flushed_seq_ at most appended_seq_.
LEMMA TypeStep == TypeOK /\ [Next]_vars => TypeOK'
<1> SUFFICES ASSUME TypeOK, [Next]_vars PROVE TypeOK'
  OBVIOUS
<1> USE WalAssumption
<1>0. file \in Seq(Cell) /\ pos \in Nat /\ Len(file) \in Nat
  BY SMTT(60) DEF TypeOK
<1>1. ASSUME NEW r \in Recs, TakeSeq(r) PROVE TypeOK'
  BY <1>1, SMTT(60) DEF TypeOK, TakeSeq, fileVars, lifeVars
<1>2. ASSUME NEW r \in Recs, WriteRecord(r) PROVE TypeOK'
  <2>1. RecCell(r, seqOf[r]) \in Cell /\ Len(file) <= pos /\ phase = "up"
    BY <1>2, CellTypes DEF TypeOK, WriteRecord, LockFree
  <2>2. file' \in Seq(Cell) /\ Len(file') = pos + 1
    <3> HIDE WalAssumption
    <3>1. file' = WriteAt(file, pos, RecCell(r, seqOf[r]))
      BY <1>2 DEF WriteRecord
    <3> QED BY <1>0, <2>1, <3>1, WriteAtFacts
  <2>3. waiters' \subseteq [rec : Recs, off : Nat]
    <3>1. [rec |-> r, off |-> cur + 1] \in [rec : Recs, off : Nat]
      BY SMTT(60) DEF TypeOK
    <3> QED BY <1>2, <3>1 DEF TypeOK, WriteRecord
  <2>4. /\ writer' \in Recs \cup {NoRec}
        /\ call' \in [Recs -> {"idle", "seq", "sync", "done", "failed", "gone"}]
    BY <1>2 DEF TypeOK, WriteRecord
  <2>5. /\ pos' \in Nat
        /\ cur' \in Nat /\ cur' <= Len(file') /\ Len(file') <= pos'
        /\ synced' \in Nat /\ synced' <= Len(file')
    BY <1>0, <1>2, <2>1, <2>2, SMTT(60) DEF TypeOK, WriteRecord
  <2> QED BY <1>2, <2>2, <2>3, <2>4, <2>5
       DEF TypeOK, WriteRecord, seqVars, lifeVars
<1>3. ASSUME NEW r \in Recs, ShortWrite(r) PROVE TypeOK'
  <2>1. Len(file) <= pos /\ phase = "up"
    BY <1>3 DEF TypeOK, ShortWrite, LockFree
  <2>2. file' \in Seq(Cell) /\ Len(file) <= Len(file') /\ Len(file') <= pos' /\ pos' \in Nat
    <3>1. CASE UNCHANGED <<file, pos>>
      BY <1>0, <2>1, <3>1, SMTT(60)
    <3>2. CASE file' = WriteAt(file, pos, TornCell) /\ pos' = pos + 1
      <4>1. file' \in Seq(Cell) /\ Len(file') = pos + 1
        <5>1. TornCell \in Cell
          BY CellTypes
        <5> HIDE WalAssumption
        <5> QED BY <1>0, <2>1, <3>2, <5>1, WriteAtFacts
      <4> QED BY <1>0, <2>1, <3>2, <4>1, SMTT(60)
    <3> QED BY <1>3, <3>1, <3>2 DEF ShortWrite
  <2> QED BY <1>3, <2>1, <2>2, SMTT(60) DEF TypeOK, ShortWrite, seqVars, lifeVars
<1>4. ASSUME NEW r \in Recs, SyncAlways(r) PROVE TypeOK'
  BY <1>4, SMTT(60) DEF TypeOK, SyncAlways, seqVars, lifeVars
<1>5. ASSUME NEW r \in Recs, FlushToPg(r) PROVE TypeOK'
  BY <1>5 DEF TypeOK, FlushToPg, fileVars, seqVars, callVars, lifeVars
<1>6. CASE GroupCommit
  BY <1>6, SMTT(60) DEF TypeOK, GroupCommit, Fdatasync, Covered, seqVars, lifeVars
<1>7. ASSUME NEW n \in 1..appended, MarkFlushed(n) PROVE TypeOK'
  BY <1>7, SMTT(60) DEF TypeOK, MarkFlushed, UpTo, fileVars, callVars, lifeVars
<1>8. CASE Compact
  BY <1>8, SMTT(60) DEF TypeOK, Compact, LockFree, seqVars, callVars
<1>9. CASE Kill
  <2>1. file' \in Seq(Cell) /\ Len(file) <= Len(file')
    BY <1>9, WriteAtFacts, CellTypes, SMTT(60) DEF TypeOK, Kill, LockFree
  <2> QED BY <1>9, <2>1, SMTT(60) DEF TypeOK, Kill, Down, seqVars
<1>10. CASE PowerLoss
  <2>1. file' \in Seq(Cell) /\ synced' = Len(file')
    <3>1. PICK n \in synced..Len(file) :
             /\ \/ file' = SubSeq(file, 1, n)
                \/ file' = Append(SubSeq(file, 1, n), TornCell)
             /\ synced' = Len(file')
      BY <1>10 DEF PowerLoss
    <3>2. SubSeq(file, 1, n) \in Seq(Cell)
      BY CutFacts, SMTT(60) DEF TypeOK
    <3> QED BY <3>1, <3>2, CellTypes, SMTT(60)
  <2> QED BY <1>10, <2>1, SMTT(60) DEF TypeOK, PowerLoss, Down, seqVars
<1>11. CASE Shutdown
  BY <1>11, SMTT(30) DEF TypeOK, Shutdown, Down, Covered, seqVars
<1>12. CASE Open
  BY <1>12, SMTT(60) DEF TypeOK, Open, callVars
<1>13. ASSUME NEW ok \in BOOLEAN, ReplayRecord(ok) PROVE TypeOK'
  <2>1. file[scan] \in Cell /\ IsRec(file[scan])
    BY <1>13, SMTT(60) DEF TypeOK, ReplayRecord, AtRecord
  <2>2. file[scan].rec \in Recs /\ file[scan].seq \in Nat
    BY <2>1, CellTypes
  <2>3. pg' \subseteq Recs /\ scan' \in Nat \ {0}
    BY <1>13, <2>2, SMTT(60) DEF TypeOK, ReplayRecord
  <2>4. appended' \in Nat /\ flushed' \in Nat /\ flushed' <= appended'
    BY <1>13, <2>2, SMTT(60) DEF TypeOK, ReplayRecord
  <2>5. UNCHANGED <<fileVars, callVars, durable, lifeVars, phase>>
    BY <1>13 DEF ReplayRecord
  <2> QED BY <2>3, <2>4, <2>5 DEF TypeOK, fileVars, callVars, lifeVars
<1>14. CASE ReplayEnd
  BY <1>14 DEF TypeOK, ReplayEnd, fileVars, seqVars, callVars, lifeVars
<1>15. CASE UNCHANGED vars
  BY <1>15 DEF TypeOK, vars, fileVars, seqVars, callVars, lifeVars
<1> QED
  BY <1>1, <1>2, <1>3, <1>4, <1>5, <1>6, <1>7, <1>8, <1>9, <1>10, <1>11, <1>12,
     <1>13, <1>14, <1>15 DEF Next

\* The log's variables keep their types, offsets stay inside the file and
\* pending_records() never wraps around (wal.h).
THEOREM TypeCorrect == Spec => []TypeOK
BY TypeInit, TypeStep, PTL DEF Spec

-----------------------------------------------------------------------------
(* A flipped handle names a record that is safe *)

Grows == /\ Len(file) <= Len(file')
         /\ \A i \in 1..Len(file) : file'[i] = file[i]

\* A record stays where it is when the file only grows.
LEMMA GrowsKeeps ==
    ASSUME TypeOK, TypeOK', Grows, synced <= synced', NEW r
    PROVE  /\ InFile(r) => InFile(r)'
           /\ InSynced(r) => InSynced(r)'
<1>1. /\ Len(file) \in Nat /\ Len(file') \in Nat /\ synced \in Nat /\ synced' \in Nat
      /\ synced <= Len(file)
  <2>1. file \in Seq(Cell) /\ file' \in Seq(Cell)
    BY DEF TypeOK
  <2>2. synced \in Nat /\ synced' \in Nat /\ synced <= Len(file)
    BY DEF TypeOK
  <2> QED BY <2>1, <2>2, SMTT(60)
<1>2. ASSUME NEW i \in 1..Len(file), IsRec(file[i]) /\ file[i].rec = r
      PROVE  i \in 1..Len(file') /\ IsRec(file'[i]) /\ file'[i].rec = r
  BY <1>1, <1>2, SMTT(60) DEF Grows, IsRec
<1>3. InFile(r) => InFile(r)'
  BY <1>2 DEF InFile
<1>4. ASSUME NEW i \in 1..synced, IsRec(file[i]) /\ file[i].rec = r
      PROVE  i \in 1..synced' /\ IsRec(file'[i]) /\ file'[i].rec = r
  <2>1. i \in 1..Len(file) /\ i \in 1..synced'
    BY <1>1, SMTT(60)
  <2> QED BY <1>2, <1>4, <2>1
<1>5. InSynced(r) => InSynced(r)'
  BY <1>4 DEF InSynced
<1> QED BY <1>3, <1>5

\* An fdatasync makes every record of the file stable.
LEMMA SyncKeeps ==
    ASSUME TypeOK, file' = file, synced' = Len(file), NEW r
    PROVE  /\ InFile(r) => InFile(r)' /\ InSynced(r)'
           /\ InSynced(r) => InSynced(r)'
<1>1. Len(file) \in Nat /\ synced \in Nat /\ synced <= Len(file)
  BY SMTT(60) DEF TypeOK
<1>2. 1..synced \subseteq 1..Len(file)
  BY <1>1, SMTT(60)
<1>3. InFile(r) => InFile(r)' /\ InSynced(r)'
  BY DEF InFile, InSynced
<1>4. InSynced(r) => InFile(r)
  BY <1>2 DEF InFile, InSynced
<1> QED BY <1>3, <1>4

\* writev at the descriptor's position overwrites nothing.
LEMMA WritesGrow ==
    ASSUME TypeOK, NEW r \in Recs,
           WriteRecord(r) \/ ShortWrite(r)
    PROVE  Grows
<1>1. file \in Seq(Cell) /\ pos \in Nat /\ Len(file) \in Nat /\ Len(file) <= pos
  BY SMTT(60) DEF TypeOK, WriteRecord, ShortWrite, LockFree
<1>2. \/ UNCHANGED file
      \/ \E c \in Cell : file' = WriteAt(file, pos, c)
  BY CellTypes DEF TypeOK, WriteRecord, ShortWrite
<1>3. ASSUME NEW c \in Cell, file' = WriteAt(file, pos, c) PROVE Grows
  <2>1. Len(file') = pos + 1 /\ \A i \in 1..Len(file) : file'[i] = file[i]
    BY <1>1, <1>3, WriteAtFacts
  <2> QED BY <1>1, <2>1, SMTT(60) DEF Grows
<1> QED BY <1>1, <1>2, <1>3, SMTT(60) DEF Grows

\* The cell that WriteRecord wrote holds its record.
LEMMA WriteLands ==
    ASSUME TypeOK, TypeOK', NEW r \in Recs, WriteRecord(r)
    PROVE  InFile(r)'
<1>1. file \in Seq(Cell) /\ pos \in Nat /\ Len(file) <= pos /\ RecCell(r, seqOf[r]) \in Cell
  BY CellTypes DEF TypeOK, WriteRecord, LockFree
<1>2. file' = WriteAt(file, pos, RecCell(r, seqOf[r]))
  BY DEF WriteRecord
<1>3. Len(file') = pos + 1 /\ file'[pos + 1] = RecCell(r, seqOf[r])
  BY <1>1, <1>2, WriteAtFacts
<1>4. IsRec(file'[pos + 1]) /\ file'[pos + 1].rec = r /\ pos + 1 \in 1..Len(file')
  BY <1>1, <1>3, SMTT(60) DEF IsRec, RecCell
<1> QED BY <1>4 DEF InFile

LEMMA CommitInit == Init => CommitInv
BY DEF Init, CommitInv, WrittenKept, FlushedInPg, CallsInStep, AckSound, InCall

\* Every step keeps what a flip relies on: the record is in the file until
\* PostgreSQL has it, and flushed_seq_ passes only what PostgreSQL has.
LEMMA CommitStep ==
    TypeOK /\ TypeOK' /\ CommitInv /\ [Next]_vars => CommitInv'
<1> SUFFICES ASSUME TypeOK, TypeOK', CommitInv, [Next]_vars PROVE CommitInv'
  OBVIOUS
<1>0. NoRec \notin Recs
  BY WalAssumption
<1> USE <1>0 DEF InCall
<1> USE DEF CommitInv
<1>1. ASSUME NEW r \in Recs, TakeSeq(r) PROVE CommitInv'
  BY <1>1, SMTT(60) DEF TypeOK, TakeSeq, WrittenKept, FlushedInPg, CallsInStep, AckSound,
              InFile, InSynced, fileVars
<1>2. ASSUME NEW r \in Recs, WriteRecord(r) PROVE CommitInv'
  <2>1. /\ \A q \in Recs : InFile(q) => InFile(q)'
        /\ \A q \in Recs : InSynced(q) => InSynced(q)'
    <3>1. Grows
      BY <1>2, WritesGrow
    <3>2. synced <= synced'
      BY <1>2, SMTT(60) DEF WriteRecord, TypeOK
    <3> QED BY <3>1, <3>2, GrowsKeeps
  <2>2. InFile(r)'
    BY <1>2, WriteLands
  <2>3. WrittenKept'
    BY <1>2, <2>1, <2>2 DEF TypeOK, WriteRecord, WrittenKept
  <2>4. FlushedInPg'
    BY <1>2 DEF TypeOK, WriteRecord, FlushedInPg, seqVars
  <2>5. CallsInStep'
    <3>1. phase' = "up" /\ \A q \in Recs : call'[q] = "sync" => writer' = q
      BY <1>2, SMTT(60) DEF TypeOK, WriteRecord, CallsInStep, LockFree
    <3>2. \A w \in waiters' : call'[w.rec] = "done"
      BY <1>2, SMTT(60) DEF TypeOK, WriteRecord, CallsInStep
    <3>3. \A q \in durable' : call'[q] \in {"done", "gone"}
      BY <1>2 DEF TypeOK, WriteRecord, CallsInStep
    <3> QED BY <3>1, <3>2, <3>3 DEF CallsInStep
  <2>6. AckSound'
    <3>1. r \notin durable
      BY <1>2 DEF WriteRecord, CallsInStep
    <3> QED BY <1>2, <2>1, <3>1 DEF TypeOK, WriteRecord, AckSound
  <2> QED BY <2>3, <2>4, <2>5, <2>6
<1>3. ASSUME NEW r \in Recs, ShortWrite(r) PROVE CommitInv'
  <2>1. /\ \A q \in Recs : InFile(q) => InFile(q)'
        /\ \A q \in Recs : InSynced(q) => InSynced(q)'
    <3>1. Grows
      BY <1>3, WritesGrow
    <3>2. synced <= synced'
      BY <1>3, SMTT(60) DEF ShortWrite, TypeOK
    <3> QED BY <3>1, <3>2, GrowsKeeps
  <2> QED BY <1>3, <2>1 DEF TypeOK, ShortWrite, WrittenKept, FlushedInPg,
          CallsInStep, AckSound, seqVars
<1>4. ASSUME NEW r \in Recs, SyncAlways(r) PROVE CommitInv'
  <2>1. \A q \in Recs : (InFile(q) => InFile(q)' /\ InSynced(q)')
    BY <1>4, SyncKeeps DEF SyncAlways
  <2>2. \A q \in Recs : InSynced(q) => InSynced(q)'
    BY <1>4, SyncKeeps DEF SyncAlways
  <2> QED BY <1>4, <2>1, <2>2, SMTT(60) DEF TypeOK, SyncAlways, WrittenKept, FlushedInPg,
          CallsInStep, AckSound, seqVars
<1>5. ASSUME NEW r \in Recs, FlushToPg(r) PROVE CommitInv'
  BY <1>5 DEF TypeOK, FlushToPg, WrittenKept, FlushedInPg, CallsInStep, AckSound,
              InFile, InSynced, fileVars, seqVars, callVars
<1>6. CASE GroupCommit
  <2>1. \A q \in Recs : (InFile(q) => InFile(q)' /\ InSynced(q)')
    BY <1>6, SyncKeeps DEF GroupCommit, Fdatasync
  <2>2. \A q \in Recs : InSynced(q) => InSynced(q)'
    BY <1>6, SyncKeeps DEF GroupCommit, Fdatasync
  <2>3. \A q \in durable' : q \in durable \/ call[q] = "done"
    <3>1. \A q \in durable' : q \in durable \/ \E v \in waiters : q = v.rec
      BY <1>6 DEF GroupCommit, Fdatasync, Covered
    <3> QED BY <3>1, SMTT(60) DEF CallsInStep
  <2> QED BY <1>6, <2>1, <2>2, <2>3 DEF TypeOK, GroupCommit, Fdatasync, Covered,
          WrittenKept, FlushedInPg, CallsInStep, AckSound, seqVars
<1>7. ASSUME NEW n \in 1..appended, MarkFlushed(n) PROVE CommitInv'
  BY <1>7 DEF TypeOK, MarkFlushed, UpTo, WrittenKept, FlushedInPg, CallsInStep,
              AckSound, InFile, InSynced, fileVars, callVars
<1>8. CASE Compact
  <2>1. \A q \in Recs : call[q] \in {"sync", "done"} => q \in pg
    BY <1>8, SMTT(60) DEF TypeOK, Compact, LockFree, FlushedInPg
  <2> QED BY <1>8, <2>1 DEF TypeOK, Compact, WrittenKept, FlushedInPg, CallsInStep,
          AckSound, seqVars, callVars
<1>9. CASE Kill \/ PowerLoss \/ Shutdown
  <2>1. \A q \in Recs : call'[q] \in {"idle", "gone"}
    BY <1>9 DEF Kill, PowerLoss, Shutdown, Down
  <2>2. waiters' = {}
    BY <1>9 DEF Kill, PowerLoss, Shutdown
  <2>3. \A q \in durable' : call'[q] = "gone"
    <3>1. \A q \in durable' : q \in durable \/ \E w \in waiters : q = w.rec
      BY <1>9 DEF Kill, PowerLoss, Shutdown, Covered
    <3>2. \A q \in durable' : q \in Recs /\ call[q] # "idle"
      <4> HIDE <1>0
      <4>1. durable \subseteq Recs /\ \A w \in waiters : w.rec \in Recs
        BY DEF TypeOK
      <4>2. \A q \in durable : call[q] # "idle"
        BY DEF CallsInStep
      <4>3. \A w \in waiters : call[w.rec] # "idle"
        BY DEF CallsInStep
      <4> QED BY <3>1, <4>1, <4>2, <4>3
    <3> QED BY <1>9, <3>2 DEF Kill, PowerLoss, Shutdown, Down
  <2> QED BY <2>1, <2>2, <2>3 DEF TypeOK, WrittenKept, FlushedInPg, CallsInStep, AckSound
<1>10. CASE Open \/ ReplayEnd \/ \E ok \in BOOLEAN : ReplayRecord(ok)
  <2>1. \A q \in Recs : call'[q] \notin InCall
    BY <1>10 DEF Open, ReplayEnd, ReplayRecord, CallsInStep, callVars
  <2>2. waiters' = waiters /\ durable' = durable /\ call' = call
    BY <1>10 DEF Open, ReplayEnd, ReplayRecord, callVars
  <2> QED BY <2>1, <2>2 DEF TypeOK, WrittenKept, FlushedInPg, CallsInStep, AckSound
<1>11. CASE UNCHANGED vars
  BY <1>11 DEF vars, WrittenKept, FlushedInPg, CallsInStep, AckSound, InFile, InSynced,
               fileVars, seqVars, callVars
<1> QED
  BY <1>1, <1>2, <1>3, <1>4, <1>5, <1>6, <1>7, <1>8, <1>9, <1>10, <1>11 DEF Next

\* A durability handle is flipped only for a record that is on stable storage
\* or in PostgreSQL, through any torn writes, compactions, crashes and
\* rejected recoveries, in every fsync mode (do_fdatasync_unlocked, append).
THEOREM AckSoundness == Spec => []AckSound
<1>1. Init => TypeOK /\ CommitInv
  BY TypeInit, CommitInit
<1>2. TypeOK /\ CommitInv /\ [Next]_vars => TypeOK' /\ CommitInv'
  BY TypeStep, CommitStep
<1>3. CommitInv => AckSound
  BY DEF CommitInv
<1> QED BY <1>1, <1>2, <1>3, PTL DEF Spec

-----------------------------------------------------------------------------
(* Without torn writes and compaction nothing reported durable is ever lost *)

LEMMA WholeInit == Init => WholeFile
BY SMTT(60) DEF Init, WholeFile

LEMMA WholeMeansRecoverable == TypeOK /\ WholeFile => AckedRecoverable
<1> SUFFICES ASSUME TypeOK, WholeFile, NEW r \in durable, r \notin pg
             PROVE  Recoverable(r)
  BY DEF AckedRecoverable
<1>1. PICK i \in 1..synced : IsRec(file[i]) /\ file[i].rec = r
  BY DEF WholeFile, InSynced
<1>2. Len(file) \in Nat /\ synced \in Nat /\ synced <= Len(file)
  BY SMTT(60) DEF TypeOK
<1>3. Intact(i)
  BY <1>2, SMTT(60) DEF Intact, WholeFile
<1> QED BY <1>1, <1>3 DEF Recoverable

LEMMA CompactsGrow == [Next]_vars => compacts' = compacts \/ compacts' = compacts + 1
BY DEF Next, TakeSeq, WriteRecord, ShortWrite, SyncAlways, FlushToPg, GroupCommit,
       MarkFlushed, Compact, Kill, PowerLoss, Shutdown, Down, Open, ReplayRecord,
       ReplayEnd, lifeVars, vars

LEMMA FaultsKept == [Next]_vars => faults' = faults
BY DEF Next, TakeSeq, WriteRecord, ShortWrite, SyncAlways, FlushToPg, GroupCommit,
       MarkFlushed, Compact, Kill, PowerLoss, Shutdown, Down, Open, ReplayRecord,
       ReplayEnd, lifeVars, vars

\* What WriteRecord does to a file whose end the descriptor stands at.
LEMMA WriteAtEnd ==
    ASSUME file \in Seq(Cell), pos = Len(file), NEW r \in Recs, seqOf[r] \in Nat, WriteRecord(r)
    PROVE  /\ Len(file') = pos + 1
           /\ \A i \in 1..Len(file) : file'[i] = file[i]
           /\ file'[pos + 1] = RecCell(r, seqOf[r])
<1>1. RecCell(r, seqOf[r]) \in Cell
  BY CellTypes
<1>2. file' = WriteAt(file, pos, RecCell(r, seqOf[r]))
  BY DEF WriteRecord
<1>3. pos \in Nat /\ Len(file) <= pos
  BY SMTT(60)
<1> HIDE DEF WriteRecord
<1> QED BY ONLY file \in Seq(Cell), <1>1, <1>2, <1>3, WriteAtFacts, SMTT(60), ZenonT(30)

\* Every step but a torn write and a compaction keeps the file whole, and a
\* crash cuts it only behind what was synced.
LEMMA WholeStep ==
    ASSUME "torn" \notin faults
    PROVE  TypeOK /\ TypeOK' /\ CommitInv /\ (compacts = 0 => WholeFile) /\ [Next]_vars
             => (compacts' = 0 => WholeFile')
<1> SUFFICES ASSUME TypeOK, TypeOK', CommitInv, compacts = 0 => WholeFile, [Next]_vars,
                    compacts' = 0
             PROVE  WholeFile'
  OBVIOUS
<1>a. /\ file \in Seq(Cell) /\ file' \in Seq(Cell) /\ pos \in Nat
      /\ synced \in Nat /\ synced <= Len(file)
  BY DEF TypeOK
<1>b. Len(file) \in Nat /\ Len(file') \in Nat
  BY <1>a, SMTT(60)
<1>d. WholeFile
  BY CompactsGrow, SMTT(60) DEF TypeOK
<1>1. ASSUME NEW r \in Recs, WriteRecord(r) PROVE WholeFile'
  <2>1. pos = Len(file) /\ RecCell(r, seqOf[r]) \in Cell
    BY <1>1, CellTypes, <1>d DEF WholeFile, WriteRecord, LockFree, TypeOK
  <2>2. file' = WriteAt(file, pos, RecCell(r, seqOf[r]))
    BY <1>1 DEF WriteRecord
  <2>3. /\ Len(file') = pos + 1
        /\ \A i \in 1..Len(file) : file'[i] = file[i]
        /\ file'[pos + 1] = RecCell(r, seqOf[r])
    <3>1. seqOf[r] \in Nat
      BY DEF TypeOK
    <3> QED BY <1>1, <1>a, <2>1, <3>1, WriteAtEnd
  <2>4. IsRec(RecCell(r, seqOf[r]))
    BY DEF IsRec, RecCell
  <2>5. \A i \in 1..Len(file') : IsRec(file'[i])
    BY <1>b, <2>1, <2>3, <2>4, <1>d, SMTT(60) DEF WholeFile, IsRec
  <2>6. pos' = Len(file')
    BY <1>1, <2>3 DEF WriteRecord
  <2>7. \A q \in durable' : q \in pg' \/ InSynced(q)'
    <3>1. Grows
      BY <1>b, <2>1, <2>3, SMTT(60) DEF Grows
    <3>2. synced <= synced' /\ durable' = durable /\ pg' = pg
      BY <1>1, <1>a, SMTT(60) DEF WriteRecord
    <3> QED BY <3>1, <3>2, GrowsKeeps, <1>d DEF WholeFile
  <2> QED BY <2>5, <2>6, <2>7, <1>d DEF WholeFile
<1>2. ASSUME NEW r \in Recs, SyncAlways(r) PROVE WholeFile'
  <2>1. \A q \in Recs : InFile(q) \/ InSynced(q) => InSynced(q)'
    BY <1>2, SyncKeeps DEF SyncAlways
  <2>2. \A q \in durable' : q \in Recs /\ (q \in pg \/ InFile(q) \/ InSynced(q))
    <3>1. durable' = durable \cup {r} /\ call[r] = "sync"
      BY <1>2 DEF SyncAlways
    <3>2. \A q \in durable : q \in Recs /\ (q \in pg \/ InSynced(q))
      BY <1>d DEF WholeFile, TypeOK
    <3>3. r \in pg \/ InFile(r)
      BY <3>1 DEF CommitInv, WrittenKept
    <3> QED BY <3>1, <3>2, <3>3
  <2> QED BY <1>2, <2>1, <2>2, <1>d DEF SyncAlways, WholeFile
<1>3. CASE GroupCommit
  <2>1. \A q \in Recs : InFile(q) \/ InSynced(q) => InSynced(q)'
    BY <1>3, SyncKeeps DEF GroupCommit, Fdatasync
  <2>2. \A q \in durable' : q \in Recs /\ (q \in pg \/ InFile(q) \/ InSynced(q))
    <3>1. \A q \in durable' : q \in durable \/ \E v \in waiters : q = v.rec
      BY <1>3 DEF GroupCommit, Fdatasync, Covered
    <3>2. \A v \in waiters : v.rec \in Recs /\ call[v.rec] = "done"
      BY DEF TypeOK, CommitInv, CallsInStep
    <3>3. \A q \in durable : q \in Recs /\ (q \in pg \/ InSynced(q))
      BY <1>d DEF WholeFile, TypeOK
    <3>4. \A q \in Recs : call[q] = "done" => q \in pg \/ InFile(q)
      BY DEF CommitInv, WrittenKept
    <3> QED BY <3>1, <3>2, <3>3, <3>4
  <2> QED BY <1>3, <2>1, <2>2, <1>d DEF GroupCommit, Fdatasync, WholeFile
<1>4. CASE Shutdown
  <2>1. \A q \in Recs : InFile(q) \/ InSynced(q) => InSynced(q)'
    BY <1>4, SyncKeeps DEF Shutdown
  <2>2. \A q \in durable' : q \in Recs /\ (q \in pg \/ InFile(q) \/ InSynced(q))
    <3>1. \A q \in durable' : q \in durable \/ \E w \in waiters : q = w.rec
      BY <1>4 DEF Shutdown, Covered
    <3>2. \A w \in waiters : w.rec \in Recs /\ call[w.rec] = "done"
      BY DEF TypeOK, CommitInv, CallsInStep
    <3>3. \A q \in durable : q \in Recs /\ (q \in pg \/ InSynced(q))
      BY <1>d DEF WholeFile, TypeOK
    <3>4. \A q \in Recs : call[q] = "done" => q \in pg \/ InFile(q)
      BY DEF CommitInv, WrittenKept
    <3> QED BY <3>1, <3>2, <3>3, <3>4
  <2>3. \A q \in durable' : q \in pg' \/ InSynced(q)'
    BY <1>4, <2>1, <2>2 DEF Shutdown
  <2>4. file' = file /\ phase' = "down"
    BY <1>4 DEF Shutdown, Down
  <2> QED BY <2>3, <2>4, <1>d DEF WholeFile
<1>5. CASE Kill
  BY <1>5, <1>d DEF Kill, Down, WholeFile, InSynced
<1>6. CASE PowerLoss
  <2>1. PICK n \in synced..Len(file) : file' = SubSeq(file, 1, n) /\ synced' = Len(file')
    BY <1>6 DEF PowerLoss
  <2>2. n \in 0..Len(file)
    BY <1>a, <1>b, SMTT(60)
  <2>3. Len(file') = n /\ \A i \in 1..n : file'[i] = file[i]
    BY <1>a, <2>1, <2>2, CutFacts
  <2>4. \A i \in 1..Len(file') : IsRec(file'[i])
    BY <1>b, <2>2, <2>3, <1>d, SMTT(60) DEF WholeFile, IsRec
  <2>5. \A q : InSynced(q) => InSynced(q)'
    BY <1>a, <1>b, <2>1, <2>2, <2>3, SMTT(60) DEF InSynced, IsRec
  <2> QED BY <1>6, <2>4, <2>5, <1>d DEF PowerLoss, Down, WholeFile
<1>7. CASE Open
  BY <1>7, <1>d DEF Open, WholeFile, InSynced
<1>8. ASSUME NEW r \in Recs, TakeSeq(r) \/ FlushToPg(r) \/ ShortWrite(r) PROVE WholeFile'
  BY <1>8, <1>d DEF TakeSeq, FlushToPg, ShortWrite, WholeFile, InSynced, fileVars
<1>9. ASSUME NEW n \in 1..appended, MarkFlushed(n) PROVE WholeFile'
  BY <1>9, <1>d DEF MarkFlushed, WholeFile, InSynced, fileVars
<1>10. CASE Compact
  BY <1>10, SMTT(60) DEF Compact, TypeOK
<1>11. CASE ReplayEnd \/ \E ok \in BOOLEAN : ReplayRecord(ok)
  BY <1>11, <1>d DEF ReplayEnd, ReplayRecord, WholeFile, InSynced, fileVars
<1>12. CASE UNCHANGED vars
  BY <1>12, <1>d DEF vars, WholeFile, InSynced, fileVars
<1> QED
  BY <1>1, <1>2, <1>3, <1>4, <1>5, <1>6, <1>7, <1>8, <1>9, <1>10, <1>11, <1>12 DEF Next

-----------------------------------------------------------------------------
(* Without faults a finished replay() has delivered everything *)

\* Every step but a compaction keeps what replay() has delivered, and what
\* append() of this life has yet to deliver.
LEMMA ReplayStep ==
    ASSUME faults = {}
    PROVE  TypeOK /\ TypeOK' /\ (compacts = 0 => WholeFile /\ Replayed) /\ [Next]_vars
             => (compacts' = 0 => Replayed')
<1> SUFFICES ASSUME TypeOK, TypeOK', compacts = 0 => WholeFile /\ Replayed, [Next]_vars, compacts' = 0
             PROVE  Replayed'
  OBVIOUS
<1>a. /\ file \in Seq(Cell) /\ file' \in Seq(Cell) /\ pos \in Nat /\ scan \in Nat /\ cur \in Nat
      /\ Len(file) \in Nat /\ Len(file') \in Nat
  BY SMTT(30) DEF TypeOK
<1>b. WholeFile /\ Replayed
  <2>1. compacts \in Nat
    BY DEF TypeOK
  <2> QED BY <2>1, CompactsGrow, SMTT(60)
<1>c. \A i \in 1..Len(file) : file[i] \in Cell /\ IsRec(file[i]) /\ file[i].rec \in Recs
  <2>1. \A i \in 1..Len(file) : file[i] \in Cell
    BY <1>a, SMTT(60)
  <2>2. \A i \in 1..Len(file) : IsRec(file[i])
    BY <1>b DEF WholeFile
  <2> QED BY <2>1, <2>2, CellTypes
<1>1. ASSUME NEW r \in Recs, WriteRecord(r) PROVE Replayed'
  <2>1. phase = "up" /\ phase' = "up" /\ pos = Len(file)
    BY <1>1, <1>b DEF WholeFile, WriteRecord, LockFree
  <2>2. pg' = pg
    BY <1>1 DEF WriteRecord
  <2>3. /\ Len(file') = pos + 1
        /\ \A i \in 1..Len(file) : file'[i] = file[i]
        /\ file'[pos + 1] = RecCell(r, seqOf[r])
    <3>1. seqOf[r] \in Nat
      BY DEF TypeOK
    <3> QED BY <1>1, <1>a, <2>1, <3>1, WriteAtEnd
  <2>4. call'[r] \in {"sync", "done"} /\ \A q \in Recs : q # r => call'[q] = call[q]
    BY <1>1 DEF WriteRecord, TypeOK
  <2>5. file'[pos + 1].rec = r
    BY <2>3, SMTT(30) DEF RecCell
  <2>6. ASSUME NEW i \in 1..Len(file') PROVE file'[i].rec \in pg' \/ call'[file'[i].rec] \in {"sync", "done"}
    <3>1. i = pos + 1 \/ i \in 1..Len(file)
      BY <1>a, <2>1, <2>3, SMTT(60)
    <3>2. CASE i = pos + 1
      BY <2>4, <2>5, <3>2
    <3>3. CASE i \in 1..Len(file)
      <4>1. file'[i] = file[i] /\ file[i].rec \in Recs
        BY <1>c, <2>3, <3>3
      <4>2. file[i].rec \in pg \/ call[file[i].rec] \in {"sync", "done"}
        BY <1>b, <2>1, <3>3 DEF Replayed
      <4> QED BY <2>2, <2>4, <4>1, <4>2
    <3> QED BY <3>1, <3>2, <3>3
  <2> QED BY <2>1, <2>6 DEF Replayed
<1>2. ASSUME NEW r \in Recs, TakeSeq(r) \/ SyncAlways(r) \/ FlushToPg(r) PROVE Replayed'
  <2>1. file' = file /\ phase' = phase /\ pg \subseteq pg' /\ scan' = scan /\ cur' = cur
    BY <1>2 DEF TakeSeq, SyncAlways, FlushToPg, fileVars
  <2>2. \A q \in Recs : call[q] \in {"sync", "done"} => call'[q] \in {"sync", "done"}
    BY <1>2 DEF TakeSeq, SyncAlways, FlushToPg, callVars, TypeOK
  <2> QED BY <1>b, <1>c, <2>1, <2>2 DEF Replayed
<1>3. CASE GroupCommit \/ \E n \in 1..appended : MarkFlushed(n)
  <2>1. UNCHANGED <<phase, cur, file, scan, pg, call>>
    BY <1>3 DEF GroupCommit, Fdatasync, MarkFlushed, fileVars, callVars
  <2> QED BY <1>b, <2>1 DEF Replayed
<1>4. CASE Kill \/ PowerLoss \/ Shutdown
  BY <1>4 DEF Kill, PowerLoss, Shutdown, Down, Replayed
<1>5. CASE Open
  BY <1>5, <1>a, SMTT(30) DEF Open, Replayed
<1>6. CASE ReplayRecord(TRUE)
  <2>1. /\ phase = "replay" /\ phase' = "replay" /\ file' = file /\ cur' = cur /\ scan' = scan + 1
        /\ pg' = pg \cup {file[scan].rec}
    BY <1>6 DEF ReplayRecord, fileVars
  <2>2. \A i \in 1..Len(file) : i < scan' => i < scan \/ i = scan
    BY <1>a, <2>1, SMTT(60)
  <2> QED BY <1>b, <2>1, <2>2 DEF Replayed
<1>7. CASE ReplayEnd
  <2>1. phase = "replay" /\ phase' = "up" /\ UNCHANGED <<file, pg, call>> /\ ~AtRecord
    BY <1>7 DEF ReplayEnd, fileVars, callVars
  <2>2. cur = Len(file) /\ \A i \in 1..Len(file) : i < scan => file[i].rec \in pg
    BY <1>b, <2>1 DEF Replayed
  <2>3. scan \notin 1..Len(file)
    BY <1>c, <2>1, <2>2, SMTT(60) DEF AtRecord
  <2>4. scan >= 1
    BY SMTT(60) DEF TypeOK
  <2>5. \A i \in 1..Len(file) : i < scan
    BY <1>a, <2>3, <2>4, SMTT(60)
  <2> QED BY <2>1, <2>2, <2>5 DEF Replayed
<1>8. CASE UNCHANGED vars
  BY <1>8, <1>b DEF vars, Replayed, fileVars, callVars
<1>9. CASE Compact
  BY <1>9, SMTT(60) DEF Compact, TypeOK
<1> QED BY <1>1, <1>2, <1>3, <1>4, <1>5, <1>6, <1>7, <1>8, <1>9 DEF Next, ShortWrite

\* Together: the whole file while nothing is torn, and what replay() delivers
\* while nothing goes wrong at all.
RecoveryInv ==
    /\ "torn" \notin faults /\ compacts = 0 => WholeFile
    /\ faults = {} /\ compacts = 0 => Replayed

LEMMA RecoveryInvariant == Spec => [](TypeOK /\ CommitInv /\ RecoveryInv)
<1>1. Init => TypeOK /\ CommitInv /\ RecoveryInv
  <2>1. Init => Replayed
    BY SMTT(60) DEF Init, Replayed
  <2> QED BY <2>1, TypeInit, CommitInit, WholeInit DEF RecoveryInv
<1>2. TypeOK /\ CommitInv /\ RecoveryInv /\ [Next]_vars => TypeOK' /\ CommitInv' /\ RecoveryInv'
  <2> SUFFICES ASSUME TypeOK, CommitInv, RecoveryInv, [Next]_vars PROVE TypeOK' /\ CommitInv' /\ RecoveryInv'
    OBVIOUS
  <2>1. TypeOK' /\ CommitInv'
    BY TypeStep, CommitStep
  <2>2. faults' = faults
    BY FaultsKept
  <2>3. "torn" \notin faults => (compacts' = 0 => WholeFile')
    BY <2>1, WholeStep DEF RecoveryInv
  <2>4. faults = {} => (compacts' = 0 => Replayed')
    BY <2>1, ReplayStep DEF RecoveryInv
  <2> QED BY <2>1, <2>2, <2>3, <2>4 DEF RecoveryInv
<1> QED BY <1>1, <1>2, PTL DEF Spec

\* Before the first compaction, on a device that does not tear a write, a record
\* reported durable is in PostgreSQL or within reach of replay() at every
\* moment: after any number of kills, power losses and rejected replays.  When
\* none is rejected, a finished replay() has delivered all of them.
THEOREM NothingAckedIsLost == Spec => []SoundRecovery
<1>1. TypeOK /\ RecoveryInv => SoundRecovery
  <2> SUFFICES ASSUME TypeOK, RecoveryInv PROVE SoundRecovery
    OBVIOUS
  <2>1. "torn" \notin faults => RecoverableUncompacted
    BY WholeMeansRecoverable DEF RecoveryInv, RecoverableUncompacted
  <2>2. ASSUME faults = {}, phase = "up", compacts = 0, NEW r \in durable, call[r] = "gone" PROVE r \in pg
    <3>1. WholeFile /\ Replayed
      BY <2>2 DEF RecoveryInv
    <3>2. SUFFICES ASSUME InSynced(r) PROVE r \in pg
      BY <3>1 DEF WholeFile
    <3>3. PICK i \in 1..synced : file[i].rec = r
      BY <3>2 DEF InSynced
    <3>4. i \in 1..Len(file)
      BY SMTT(60) DEF TypeOK
    <3> QED BY <2>2, <3>1, <3>3, <3>4 DEF Replayed
  <2> QED BY <2>1, <2>2 DEF SoundRecovery, RecoveredAll
<1> QED BY <1>1, RecoveryInvariant, PTL

\* The first compact() of a log that runs without faults drops nothing that
\* PostgreSQL does not have, whoever is inside append() by then: flushed_seq_
\* has passed every number drawn, and earlier lives were replayed.
THEOREM CompactionKeeps == Spec => SoundCompaction
<1> DEFINE Keeps == faults = {} /\ compacts = 0 /\ compacts' # compacts
                      => \A r \in Recs : InFile(r) => r \in pg
<1>1. TypeOK /\ CommitInv /\ RecoveryInv /\ [Next]_vars => [Keeps]_vars
  <2> SUFFICES ASSUME TypeOK, CommitInv, RecoveryInv, Next, faults = {}, compacts = 0, compacts' # compacts,
                      NEW r \in Recs, InFile(r)
               PROVE  r \in pg
    OBVIOUS
  <2>1. Compact
    BY DEF Next, TakeSeq, WriteRecord, ShortWrite, SyncAlways, FlushToPg, GroupCommit,
           MarkFlushed, Kill, PowerLoss, Shutdown, Down, Open, ReplayRecord, ReplayEnd, lifeVars
  <2>2. phase = "up" /\ flushed >= appended
    BY <2>1 DEF Compact, LockFree
  <2>3. r \in pg \/ call[r] \in {"sync", "done"}
    BY <2>2 DEF RecoveryInv, Replayed, InFile
  <2>4. call[r] \in InCall => seqOf[r] <= appended /\ (seqOf[r] <= flushed => r \in pg)
    BY DEF CommitInv, FlushedInPg
  <2>5. seqOf[r] \in Nat /\ appended \in Nat /\ flushed \in Nat
    BY DEF TypeOK
  <2> QED BY <2>2, <2>3, <2>4, <2>5, SMTT(60) DEF InCall
<1> QED BY <1>1, RecoveryInvariant, PTL DEF Spec, SoundCompaction

=============================================================================
