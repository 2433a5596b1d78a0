---------------------------- MODULE MCAdmission ----------------------------
(***************************************************************************)
(* Instances of Admission.  `workload` is chosen at the start: "bucket" has *)
(* threads that take tokens while the clock and the controller run,         *)
(* "signals" has everything the controller may be told, and no requests.    *)
(* In the first, the steps in which the controller only observes, which      *)
(* touch no bucket, are not interleaved with others, and a behaviour ends   *)
(* with the first race that WithinBudget excludes.                          *)
(***************************************************************************)
EXTENDS Admission

CONSTANTS c1, c2

VARIABLE workload

MCPrio == <<"normal", "critical">>

\* Rates per priority: those of a normal endpoint fall to nothing.
MCBudget ==
    [l \in Levels |-> [critical |-> <<2, 2, 1, 1, 1>>[l + 1], normal |-> <<2, 1, 0, 0, 0>>[l + 1]]]

MCInit == Init /\ workload \in {"bucket", "signals"}

MCNext ==
    /\ Next /\ UNCHANGED workload
    /\ workload = "bucket" =>
           /\ ~raced /\ (tpc \in {"idle", "errors", "ops"} => tpc' # tpc)
           /\ policy'[1] /\ \A e \in Endpoints \ {1} : ~policy'[e] /\ ~buckets'[e].made
           /\ events' <= 1 /\ max_ms' # 1 /\ pool' = pool /\ window' = window /\ errors' = 0 /\ ~stop'
    /\ workload = "signals" => now' = 0 /\ acquires' = 0

MCSpec == MCInit /\ [][MCNext]_<<vars, workload>> /\ WF_<<vars, workload>>(Controller /\ UNCHANGED workload)
=============================================================================
