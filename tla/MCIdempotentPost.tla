-------------------------- MODULE MCIdempotentPost --------------------------
(***************************************************************************)
(* IdempotentPost for TLC: a request and its retries, and one of another   *)
(* key.  In the first regime every statement may be refused and any        *)
(* connection break, one retry is malformed and the process may be killed; *)
(* in the second the outcome of the INSERT is known; in the third only the *)
(* statements fail whose failure the handler cleans up after.              *)
(***************************************************************************)
EXTENDS IdempotentPost, TLC

CONSTANTS r1, r2, r3, r4, k1, k2

RequestKey == [r \in Requests |-> IF r = r4 THEN k2 ELSE k1]
Retries == Permutations({r1, r2})

RegimesChecked ==
    {[refuse |-> Statements, break |-> Statements, malformed |-> {r3}, crash |-> TRUE],
     [refuse |-> Statements, break |-> Statements \ {"insert"},
      malformed |-> {r3}, crash |-> TRUE],
     [refuse |-> {"claim", "fetch", "insert"}, break |-> {"fetch", "insert"},
      malformed |-> {}, crash |-> FALSE]}
=============================================================================
