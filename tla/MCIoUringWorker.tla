-------------------------- MODULE MCIoUringWorker --------------------------
(* IoUringWorker for TLC *)
EXTENDS IoUringWorker

CONSTANTS k1, k2

Dialogues == [k \in Clients |-> IF k = k1 THEN <<"keep", "close">> ELSE <<"bad">>]
=============================================================================
