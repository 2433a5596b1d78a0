------------------------------ MODULE MCPgPool ------------------------------
(***************************************************************************)
(* PgPool for TLC.  With faults the health thread runs, connects fail,     *)
(* connections break and the server may refuse a PREPARE; without them     *)
(* there is one client more, with or without the health thread.  A new     *)
(* connection gets the lowest descriptor, as the kernel has it, and with   *)
(* faults the third client comes only while no statement has been          *)
(* prepared.                                                               *)
(***************************************************************************)
EXTENDS PgPool

CONSTANTS t1, t2, t3, t4, f1, f2, f3, f4

\* The first descriptor that is free.
Lowest == IF f1 \notin open THEN f1 ELSE IF f2 \notin open THEN f2
          ELSE IF f3 \notin open THEN f3 ELSE f4

MCInit == Init /\ open \subseteq {f1} /\ (faults = {} \/ (faults = Faults /\ health))

MCNext ==
    /\ Next /\ open' \subseteq open \cup {Lowest}
    /\ \/ faults = {} /\ ~health
       \/ faults = {} /\ pc'[t4] = "out"
       \/ pc'[t4] = "out" /\ (pc'[t3] = "out" \/ prepared' = {})

MCSpec == MCInit /\ [][MCNext]_vars /\ Fairness

Blocked == \E t \in Clients : pc[t] = "wait"

\* Without faults and without the health thread, borrowers that return their
\* connections get some blocked checkout() going again, without help from a
\* deadline.
CalmBlockedThenWoken ==
    (faults = {} /\ ~health /\ Blocked) ~> ((\E t \in Clients : pc[t] = "woken") \/ ~Blocked)
=============================================================================
