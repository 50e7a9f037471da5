------------------------------ MODULE MCStore -------------------------------
(* Instances of SqliteStore for TLC.                                       *)
EXTENDS SqliteStore
=============================================================================
