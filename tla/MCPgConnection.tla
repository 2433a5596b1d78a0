--------------------------- MODULE MCPgConnection ---------------------------
(* Instances of PgConnection for model checking. *)
EXTENDS PgConnection
=============================================================================
