------------------------- MODULE MCGroupDuplicates --------------------------
(* Small instances of GroupDuplicates: the workers are model values.       *)
EXTENDS GroupDuplicates
=============================================================================
