----------------------------- MODULE MCMDAccessor ----------------------------
(* Small instances of MDAccessor.                                          *)
EXTENDS MDAccessor, TLC

Symmetry ==
    Permutations(Workers) \union Permutations(Sessions) \union Permutations(Objects)
=============================================================================
