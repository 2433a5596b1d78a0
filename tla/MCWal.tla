------------------------------- MODULE MCWal -------------------------------
(***************************************************************************)
(* Wal for TLC.  Either nothing goes wrong but crashes, and the log runs   *)
(* with group commit; or writes may be torn, the replay callback may       *)
(* refuse and the fsync mode may change at a restart.  With faults there   *)
(* are two records and two process ends, or three records and one.         *)
(***************************************************************************)
EXTENDS Wal, TLC

CONSTANTS r1, r2, r3

GroupCommitOnly == mode = "FdatasyncInterval"

MCInit == Init /\ faults \in {{}, Faults} /\ (faults = {} => GroupCommitOnly)

MCNext ==
    /\ Next
    /\ IF faults = {} THEN GroupCommitOnly' ELSE call'[r3] = "idle" \/ crashes' <= 1

MCSpec == MCInit /\ [][MCNext]_vars /\ Fairness

Queued(r) == \E w \in waiters : w.rec = r

\* With group commit, the handle of a queued waiter is flipped by a later round
\* of the fsync thread, unless the process ends or the log is compacted first.
SoundDurable ==
    \A r \in Recs : (GroupCommitOnly /\ Queued(r)) ~> (compacts > 0 \/ ~Queued(r))
=============================================================================
