------------------------------ MODULE MCEvent -------------------------------
(* Small instances of Event: the threads are model values of the cfg.      *)
EXTENDS Event
=============================================================================
