----------------------------- MODULE MCAccessLog -----------------------------
(* Instances of AccessLog for model checking. *)
EXTENDS AccessLog

\* One busy worker, whose ring fills up, and a quiet one.
BusyAndQuiet == <<3, 1>>
=============================================================================
