---------------------------- MODULE MCQueryCache ----------------------------
(***************************************************************************)
(* QueryCache for TLC.  Either the threads do anything, three calls in     *)
(* all; or five calls crowd the slots of one table: w2 queries k2, w1      *)
(* queries k1, and then w1 queries k2 or changes the table, or another     *)
(* instance does, while w2 is putting its result.                          *)
(***************************************************************************)
EXTENDS QueryCache

CONSTANTS w1, w2, n, a, b, k1, k2, k3

VARIABLE workload

TagOf == [k \in Keys |-> IF k = k3 THEN b ELSE a]
HomeOf == [k \in Keys |-> IF k = k3 THEN 2 ELSE 1]

MCInit == Init /\ workload \in {"mixed", "crowded"}

Crowding ==
    /\ pg'[a] <= 2 /\ pg'[b] = 0 /\ UNCHANGED dirty
    /\ \A t \in Threads : l1'[t] = << >>
    /\ calls' > calls =>
         CASE calls = 0 -> loc'[w2].key = k2
           [] calls = 1 -> loc'[w1].key = k1
           [] OTHER     -> loc'[w2] = loc[w2] /\ loc'[w1].key \notin {k1, k3} \ {loc[w1].key}

MCNext ==
    /\ Next /\ UNCHANGED workload
    /\ IF workload = "mixed" THEN calls' <= 3 ELSE Crowding

MCSpec == MCInit /\ [][MCNext]_<<vars, workload>> /\ Fairness
=============================================================================
