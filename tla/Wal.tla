-------------------------------- MODULE Wal --------------------------------
(***************************************************************************)
(* The write-ahead log of spido-pg: WalManager (src/spido-pg/src/wal.cpp)  *)
(* with its appending threads, its group-commit thread, the file it writes *)
(* and the failures that file goes through.                                *)
(*                                                                         *)
(* The file is a sequence of cells after the 8-byte magic.  One record is  *)
(* one cell and offsets count cells: what the code does with bytes depends *)
(* only on whether the cell at an offset is a whole record, the torn rest  *)
(* of one, or the zeroes a write past the end of the file leaves behind.   *)
(* A record is appended at most once; `call` follows its append() call.    *)
(***************************************************************************)
EXTENDS Integers, Sequences, FiniteSets

CONSTANTS
    Recs,        \* the records the service may append
    Modes,       \* values of cfg_.fsync_mode a life of the process may have
    NoRec,       \* "no appender holds write_mtx_"
    Faults,      \* of "torn": a writev may stop halfway (kill, power loss, ENOSPC),
                 \* and "reject": the replay callback may return false
    MaxCompact,  \* bound on compaction passes that reclaim something
    MaxCrash     \* bound on process ends

ASSUME WalAssumption ==
    /\ NoRec \notin Recs
    /\ Modes \subseteq {"OsBuffered", "FdatasyncInterval", "FdatasyncAlways"}
    /\ Faults \subseteq {"torn", "reject"}
    /\ MaxCompact \in Nat
    /\ MaxCrash \in Nat

VARIABLES
    file,        \* contents of wal.log after the magic, as read() sees them
    synced,      \* how many leading cells are on stable storage
    phase,       \* "down", "replay" (inside replay()) or "up"
    pos,         \* file position of fd_
    cur,         \* current_offset_
    appended,    \* appended_seq_
    flushed,     \* flushed_seq_
    waiters,     \* waiters_
    writer,      \* the appender holding write_mtx_ across an fdatasync
    call,        \* where each record's append() call is
    seqOf,       \* the sequence number the call drew
    scan,        \* replay()'s off: the next cell to read
    pg,          \* records PostgreSQL has applied
    durable,     \* history: records whose handle was ever flipped durable
    mode,        \* cfg_.fsync_mode of this life of the process
    compacts, crashes,
    faults       \* those of Faults that may happen, chosen once

fileVars == <<file, synced, pos, cur>>
seqVars  == <<appended, flushed>>
callVars == <<call, seqOf, waiters, writer>>
lifeVars == <<mode, compacts, crashes, faults>>
vars == <<fileVars, seqVars, callVars, lifeVars, durable, phase, scan, pg>>

-----------------------------------------------------------------------------
(* The file *)

Hole     == [kind |-> "hole"]
TornCell == [kind |-> "torn"]
RecCell(r, n) == [kind |-> "rec", rec |-> r, seq |-> n]
Cell == {Hole, TornCell} \cup [kind : {"rec"}, rec : Recs, seq : Nat]

IsRec(c) == c.kind = "rec"

\* A write at position p: bytes between the end of the file and p read as zero.
WriteAt(f, p, c) ==
    [i \in 1..(IF p < Len(f) THEN Len(f) ELSE p + 1) |->
        IF i = p + 1 THEN c ELSE IF i <= Len(f) THEN f[i] ELSE Hole]

InFile(r)   == \E i \in 1..Len(file) : IsRec(file[i]) /\ file[i].rec = r
InSynced(r) == \E i \in 1..synced : IsRec(file[i]) /\ file[i].rec = r

\* replay() gets past every cell before i: it stops at the first damaged one.
Intact(i) == \A j \in 1..i : IsRec(file[j])
Recoverable(r) ==
    \E i \in 1..synced : Intact(i) /\ file[i].rec = r

-----------------------------------------------------------------------------
(* append(): draw a sequence number, then write under write_mtx_ *)

InCall == {"seq", "sync", "done"}      \* calls of the running process

Init ==
    /\ file = <<>> /\ synced = 0 /\ pos = 0 /\ cur = 0
    /\ phase = "up" /\ scan = 1
    /\ appended = 0 /\ flushed = 0
    /\ waiters = {} /\ writer = NoRec
    /\ call = [r \in Recs |-> "idle"] /\ seqOf = [r \in Recs |-> 0]
    /\ pg = {} /\ durable = {}
    /\ mode \in Modes /\ compacts = 0 /\ crashes = 0 /\ faults \in SUBSET Faults

LockFree == phase = "up" /\ writer = NoRec

TakeSeq(r) ==
    /\ phase = "up" /\ call[r] = "idle"
    /\ appended' = appended + 1
    /\ seqOf' = [seqOf EXCEPT ![r] = appended + 1]
    /\ call' = [call EXCEPT ![r] = "seq"]
    /\ UNCHANGED <<fileVars, durable, lifeVars, flushed, waiters, writer,
                   phase, scan, pg>>

\* With group commit the caller leaves with a queued waiter; with one fdatasync
\* per append the lock is kept until SyncAlways.
WriteRecord(r) ==
    /\ LockFree /\ call[r] = "seq"
    /\ file' = WriteAt(file, pos, RecCell(r, seqOf[r]))
    /\ pos' = pos + 1
    /\ cur' = cur + 1
    /\ \/ /\ mode = "FdatasyncAlways"
          /\ writer' = r
          /\ call' = [call EXCEPT ![r] = "sync"]
          /\ UNCHANGED waiters
       \/ /\ mode # "FdatasyncAlways"
          /\ waiters' = waiters \cup {[rec |-> r, off |-> cur + 1]}
          /\ call' = [call EXCEPT ![r] = "done"]
          /\ UNCHANGED writer
    /\ UNCHANGED <<seqVars, durable, lifeVars, synced, seqOf, phase, scan, pg>>

\* writev returned short: append() throws after the number is drawn and
\* (if anything was written) the position has moved, current_offset_ has not.
ShortWrite(r) ==
    /\ "torn" \in faults
    /\ LockFree /\ call[r] = "seq"
    /\ call' = [call EXCEPT ![r] = "failed"]
    /\ \/ UNCHANGED <<file, pos>>
       \/ file' = WriteAt(file, pos, TornCell) /\ pos' = pos + 1
    /\ UNCHANGED <<seqVars, durable, lifeVars, synced, cur, seqOf, waiters,
                   writer, phase, scan, pg>>

AckBeforeSync(r) ==
    /\ writer = r /\ call[r] = "sync"
    /\ durable' = durable \cup {r}
    /\ writer' = NoRec
    /\ call' = [call EXCEPT ![r] = "done"]
    /\ UNCHANGED <<seqVars, lifeVars, fileVars, seqOf, waiters,
                   phase, scan, pg>>

SyncAlways(r) ==
    /\ writer = r /\ call[r] = "sync"
    /\ synced' = Len(file)
    /\ durable' = durable \cup {r}
    /\ writer' = NoRec
    /\ call' = [call EXCEPT ![r] = "done"]
    /\ UNCHANGED <<seqVars, lifeVars, file, pos, cur, seqOf, waiters,
                   phase, scan, pg>>

-----------------------------------------------------------------------------
(* The group-commit thread: one iteration of fsync_loop() *)

CoveredOffByOne == {w \in waiters : w.off < cur}

Covered == {w \in waiters : w.off <= cur}

Fdatasync ==
    /\ synced' = Len(file)
    /\ durable' = durable \cup {w.rec : w \in Covered}
    /\ waiters' = waiters \ Covered

GroupCommit ==
    /\ mode = "FdatasyncInterval"
    /\ LockFree
    /\ Fdatasync
    /\ UNCHANGED <<seqVars, lifeVars, file, pos, cur, call, seqOf, writer, phase, scan, pg>>

-----------------------------------------------------------------------------
(* The drain into PostgreSQL.  No code in the repository calls              *)
(* mark_flushed() or compact() outside tests, so the caller follows the     *)
(* contract in wal.h: n may be marked once everything up to n is in PG.     *)

FlushToPg(r) ==
    /\ phase = "up" /\ call[r] = "done" /\ r \notin pg
    /\ pg' = pg \cup {r}
    /\ UNCHANGED <<fileVars, seqVars, callVars, durable, lifeVars, phase, scan>>

UpTo(n) == {r \in Recs : call[r] \in InCall /\ seqOf[r] <= n}

MarkFlushed(n) ==
    /\ phase = "up" /\ UpTo(n) \subseteq pg
    /\ flushed < n
    /\ flushed' = n
    /\ UNCHANGED <<fileVars, callVars, lifeVars, appended, durable, phase,
                   scan, pg>>

CompactInReplay ==
    /\ compacts < MaxCompact
    /\ phase # "down" /\ writer = NoRec
    /\ flushed >= appended /\ cur > 0
    /\ file' = <<>> /\ synced' = 0 /\ cur' = 0
    /\ compacts' = compacts + 1
    /\ UNCHANGED <<seqVars, callVars, durable, pos, phase, scan, pg, mode, crashes, faults>>

\* ftruncate() back to the magic: the position of fd_ and the waiters stay.
Compact ==
    /\ compacts < MaxCompact
    /\ LockFree
    /\ flushed >= appended /\ cur > 0
    /\ file' = <<>> /\ synced' = 0 /\ cur' = 0
    /\ compacts' = compacts + 1
    /\ UNCHANGED <<seqVars, callVars, durable, pos, phase, scan, pg, mode, crashes, faults>>

-----------------------------------------------------------------------------
(* The process ends: kill -9, power loss, or ~WalManager *)

Down ==
    /\ crashes < MaxCrash
    /\ crashes' = crashes + 1
    /\ phase' = "down"
    /\ call' = [r \in Recs |-> IF call[r] = "idle" THEN "idle" ELSE "gone"]
    /\ writer' = NoRec
    /\ UNCHANGED <<seqVars, seqOf, pos, cur, scan, mode, compacts, faults>>

\* The page cache survives; the writev under way may have written a part.
Kill ==
    /\ phase # "down"
    /\ \/ UNCHANGED file
       \/ /\ "torn" \in faults /\ LockFree /\ \E r \in Recs : call[r] = "seq"
          /\ file' = WriteAt(file, pos, TornCell)
    /\ waiters' = {}
    /\ Down
    /\ UNCHANGED <<synced, durable, pg>>

\* What was not synced survives up to some point, the cell there maybe in part.
PowerLoss ==
    /\ phase # "down"
    /\ \E n \in synced..Len(file) :
        /\ \/ file' = SubSeq(file, 1, n)
           \/ "torn" \in faults /\ n < Len(file) /\ file' = Append(SubSeq(file, 1, n), TornCell)
        /\ synced' = Len(file')
    /\ waiters' = {}
    /\ Down
    /\ UNCHANGED <<durable, pg>>

\* The fsync thread serves the queue once more, or saw stop_ first; then the
\* destructor's own fdatasync.
Shutdown ==
    /\ LockFree /\ \A r \in Recs : call[r] # "seq"
    /\ synced' = Len(file)
    /\ waiters' = {}
    /\ \/ UNCHANGED durable
       \/ mode = "FdatasyncInterval" /\ durable' = durable \cup {w.rec : w \in Covered}
    /\ Down
    /\ UNCHANGED <<file, pg>>

-----------------------------------------------------------------------------
(* Restart: open_or_create(), then replay() before the service runs *)

OpenTruncates ==
    /\ phase = "down"
    /\ phase' = "replay"
    /\ cur' = 0 /\ pos' = 0 /\ file' = <<>> /\ synced' = 0
    /\ appended' = 0 /\ flushed' = 0
    /\ scan' = 1
    /\ mode' \in Modes
    /\ UNCHANGED <<callVars, durable, compacts, crashes, faults, pg>>

Open ==
    /\ phase = "down"
    /\ phase' = "replay"
    /\ cur' = Len(file) /\ pos' = Len(file)
    /\ appended' = 0 /\ flushed' = 0
    /\ scan' = 1
    /\ mode' \in Modes
    /\ UNCHANGED <<callVars, durable, compacts, crashes, faults, file, synced, pg>>

AtRecord == scan <= cur /\ IsRec(file[scan])

ReplayRecord(ok) ==
    /\ phase = "replay" /\ AtRecord
    /\ pg' = IF ok THEN pg \cup {file[scan].rec} ELSE pg
    /\ flushed' = IF ok THEN file[scan].seq ELSE flushed
    /\ appended' = IF appended < file[scan].seq THEN file[scan].seq ELSE appended
    /\ scan' = scan + 1
    /\ UNCHANGED <<fileVars, callVars, durable, lifeVars, phase>>

ReplayEnd ==
    /\ phase = "replay" /\ ~AtRecord
    /\ phase' = "up"
    /\ UNCHANGED <<fileVars, seqVars, callVars, durable, lifeVars, scan, pg>>

-----------------------------------------------------------------------------
Next ==
    \/ \E r \in Recs : \/ TakeSeq(r)
                       \/ WriteRecord(r)
                       \/ ShortWrite(r)
                       \/ SyncAlways(r)
                       \/ FlushToPg(r)
    \/ GroupCommit
    \/ \E n \in 1..appended : MarkFlushed(n)
    \/ Compact
    \/ Kill
    \/ PowerLoss
    \/ Shutdown
    \/ Open
    \/ ReplayRecord(TRUE)
    \/ "reject" \in faults /\ ReplayRecord(FALSE)
    \/ ReplayEnd

Spec == Init /\ [][Next]_vars

\* The fsync thread ticks every interval, an appender that has drawn a number
\* is not preempted forever, and a recovery that was begun goes on.
Fairness ==
    /\ WF_vars(GroupCommit)
    /\ \A r \in Recs : WF_vars(WriteRecord(r)) /\ WF_vars(SyncAlways(r))
    /\ WF_vars(ReplayRecord(TRUE)) /\ WF_vars(ReplayEnd)

-----------------------------------------------------------------------------
(* Properties *)

\* Every variable has its type, the synced prefix and current_offset_ lie
\* inside the file, writes never land before its end, and flushed_seq_ never
\* passes appended_seq_, so that pending_records() does not wrap around.
TypeOK ==
    /\ file \in Seq(Cell)
    /\ pos \in Nat
    /\ synced \in Nat /\ synced <= Len(file)
    /\ cur \in Nat /\ (phase # "down" => cur <= Len(file) /\ Len(file) <= pos)
    /\ phase \in {"down", "replay", "up"}
    /\ scan \in Nat \ {0}
    /\ appended \in Nat /\ flushed \in Nat /\ flushed <= appended
    /\ waiters \subseteq [rec : Recs, off : Nat]
    /\ writer \in Recs \cup {NoRec}
    /\ call \in [Recs -> {"idle", "seq", "sync", "done", "failed", "gone"}]
    /\ seqOf \in [Recs -> Nat]
    /\ pg \subseteq Recs /\ durable \subseteq Recs
    /\ mode \in Modes /\ compacts \in Nat /\ crashes \in Nat /\ faults \subseteq Faults

\* A durability handle the running process holds is flipped only for a record
\* that is on stable storage or already in PostgreSQL, whatever the writes,
\* compactions, crashes and failed recoveries before it (append,
\* do_fdatasync_unlocked, compact).
AckSound ==
    \A r \in durable : call[r] = "done" => r \in pg \/ InSynced(r)

\* A record that was ever reported durable is in PostgreSQL, or replay() after
\* a power loss at this very moment would get to it: it is on stable storage
\* and no damaged cell lies before it.
AckedRecoverable ==
    \A r \in durable : r \in pg \/ Recoverable(r)

\* That is so up to the first compaction.
RecoverableUncompacted == compacts = 0 => AckedRecoverable

\* Once replay() is over, every record an earlier life of the process reported
\* durable has reached PostgreSQL, as long as the log was not compacted.
RecoveredAll ==
    phase = "up" /\ compacts = 0 => \A r \in durable : call[r] = "gone" => r \in pg

\* Up to the first compaction, nothing that was reported durable is lost when
\* no write is torn (append, do_fdatasync_unlocked, open_or_create), and when
\* no replay is refused either, a finished replay() has delivered all that
\* earlier lives of the process reported durable.
SoundRecovery ==
    /\ "torn" \notin faults => RecoverableUncompacted
    /\ faults = {} => RecoveredAll

\* Without faults the first compact() drops no record that PostgreSQL does not
\* have, not even one whose append() is still under way; a record whose replay
\* callback refused it may be dropped (wal.cpp:321).
SoundCompaction ==
    [][faults = {} /\ compacts = 0 /\ compacts' # compacts
        => \A r \in Recs : InFile(r) => r \in pg]_vars

-----------------------------------------------------------------------------
(* The inductive invariant behind AckSound *)

\* What an append() that got past its writev wrote is in the file until
\* PostgreSQL has it.
WrittenKept ==
    \A r \in Recs : call[r] \in {"sync", "done"} => r \in pg \/ InFile(r)

\* The numbers of the running calls are at most appended_seq_, and those that
\* flushed_seq_ has passed are in PostgreSQL.
FlushedInPg ==
    \A r \in Recs : call[r] \in InCall =>
        seqOf[r] <= appended /\ (seqOf[r] <= flushed => r \in pg)

\* No append() call is under way outside "up", only the lock holder is inside
\* its own fdatasync, every waiter's call has returned, and so has that of
\* every record reported durable.
CallsInStep ==
    /\ phase # "up" => \A r \in Recs : call[r] \notin InCall
    /\ \A r \in Recs : call[r] = "sync" => writer = r
    /\ \A w \in waiters : call[w.rec] = "done"
    /\ \A r \in durable : call[r] \in {"done", "gone"}

\* The state of the log that makes every later flip sound.
CommitInv == WrittenKept /\ FlushedInPg /\ CallsInStep /\ AckSound

(* The inductive invariant behind AckedRecoverable, when no write is torn  *)
(* and the log is never compacted: the file is whole records, the position *)
(* of the descriptor is its end, and what was reported durable is safe.    *)
WholeFile ==
    /\ \A i \in 1..Len(file) : IsRec(file[i])
    /\ phase # "down" => pos = Len(file)
    /\ \A r \in durable : r \in pg \/ InSynced(r)

\* Without faults either: replay() delivers cell by cell up to the end of the
\* file, and outside of it a record in the file is in PostgreSQL or comes from
\* an append() of this life.
Replayed ==
    /\ phase = "replay" =>
         cur = Len(file) /\ \A i \in 1..Len(file) : i < scan => file[i].rec \in pg
    /\ phase = "up" =>
         \A i \in 1..Len(file) : file[i].rec \in pg \/ call[file[i].rec] \in {"sync", "done"}
=============================================================================
