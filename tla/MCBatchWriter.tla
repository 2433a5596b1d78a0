--------------------------- MODULE MCBatchWriter ---------------------------
(***************************************************************************)
(* BatchWriter for TLC, rows over two keys.  Either the table is a State   *)
(* table with versions and four rows, one of them written by write_sync(), *)
(* and statements may be refused; or it is an Event table with three rows, *)
(* connections may break as well and the process may be killed.            *)
(***************************************************************************)
EXTENDS BatchWriter

CONSTANTS w1, w2, w3, w4, k1, k2

Rows == {w1, w2, w3, w4}

\* w1, w2 and w4 write the same key and may be enqueued in any order; two of
\* them have the same version.
RowKey == [w \in Writes |-> IF w = w3 THEN k2 ELSE k1]
RowVersion == [w \in Writes |-> IF w \in {w1, w4} THEN 2 ELSE 1]

MCInit ==
    /\ Init
    /\ \/ table = "Event" /\ faults = Faults /\ size = 2
       \/ table = "Versioned" /\ faults = {"refuse"} /\ size # 2

MCNext ==
    /\ Next
    /\ \/ table = "Event" /\ size' = 2 /\ call'[w4] = "no"
       \/ table = "Versioned" /\ size' # 2

MCSpec ==
    /\ MCInit /\ [][MCNext]_vars
    /\ WF_vars(table # "Event" /\ Flusher)
    /\ \A w \in Writes : WF_vars(table # "Event" /\ (Enqueue(w) \/ FlushNow(w)))
=============================================================================
