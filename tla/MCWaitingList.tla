---------------------------- MODULE MCWaitingList ----------------------------
(* Small instances of WaitingList: threads are model values.               *)
EXTENDS WaitingList, TLC

Symmetry == Permutations(Workers)
=============================================================================
