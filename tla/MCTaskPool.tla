----------------------------- MODULE MCTaskPool -----------------------------
(* Small instances of TaskPool: all sets are model values of the cfg.      *)
EXTENDS TaskPool
=============================================================================
