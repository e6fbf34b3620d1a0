------------------------------ MODULE MCRolling ------------------------------
(* Scopes for model checking RollingWorker.                                 *)
EXTENDS RollingProperties
=============================================================================
