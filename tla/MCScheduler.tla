---------------------------- MODULE MCScheduler -----------------------------
(* Small instances of Scheduler: workers and job slots are model values.   *)
EXTENDS Scheduler, TLC

\* Workers and job slots are interchangeable.
Symmetry == Permutations(Workers) \union Permutations(Jobs)
=============================================================================
