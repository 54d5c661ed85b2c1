---------------------------- MODULE MCSearchJobs ----------------------------
(***************************************************************************)
(* A query of two groups: group 1 aggregates the table of group 2, and its *)
(* result must be sorted.  The second stage splits the aggregate in a      *)
(* global one over a local one, in a group of its own.  A hash aggregate   *)
(* is optimized first and its result is sorted afterwards; the global one  *)
(* merges sorted input and keeps its order.                                *)
(***************************************************************************)
EXTENDS SearchJobs, TLC

MCLogical == {"agg", "global", "local", "table"}
MCExprs == MCLogical \union
    {"hash", "merge", "partial", "scan", "sort1", "sort2", "sort3"}

MCGroupOf ==
    [x \in MCExprs |->
        CASE x \in {"agg", "global", "hash", "merge", "sort1"} -> 1
          [] x \in {"table", "scan", "sort2"} -> 2
          [] OTHER -> 3]

MCKids ==
    [x \in MCExprs |->
        CASE x \in {"agg", "hash", "local", "partial", "sort2"} -> <<2>>
          [] x \in {"global", "merge", "sort3"} -> <<3>>
          [] x = "sort1" -> <<1>>
          [] OTHER -> <<>>]

MCImplement(x) ==
    CASE x = "agg" -> {"tohash"}
      [] x = "global" -> {"tomerge"}
      [] x = "local" -> {"topartial"}
      [] x = "table" -> {"toscan"}

MCXforms ==
    [explore |-> [n \in 1..2 |->
        [x \in MCLogical |-> IF x = "agg" /\ n = 2 THEN {"split"} ELSE {}]],
     implement |-> [n \in 1..2 |-> [x \in MCLogical |-> MCImplement(x)]]]

MCResult ==
    [split |-> {"global", "local"}, tohash |-> {"hash"},
     tomerge |-> {"merge"}, topartial |-> {"partial"}, toscan |-> {"scan"}]

MCMadeWith == <<"agg", "table", "local">>
MCHeight ==
    [c \in (1..3) \X {"any", "sorted"} |->
        <<3, 0, 1>>[c[1]] + IF c[2] = "sorted" THEN 1 ELSE 0]

MCReqs == {"any", "sorted"}
MCAccepts == (MCExprs \X MCReqs) \ ({"sort1", "sort2", "sort3"} \X {"any"})
MCKidReq ==
    [x \in MCExprs |-> [r \in MCReqs |->
        <<IF x = "merge" THEN "sorted" ELSE "any">>]]
MCEnforcing ==
    [x \in MCExprs |-> [r \in MCReqs |->
        IF r = "sorted" /\ x \in {"hash", "partial", "scan"} THEN "required" ELSE "unnecessary"]]
MCEnforcers ==
    [g \in 1..3 |-> [r \in MCReqs |->
        IF r = "any" THEN {} ELSE {<<"sort1", "sort2", "sort3">>[g]}]]
MCCost ==
    [x \in MCExprs |->
        CASE x = "hash" -> 2 [] x = "sort2" -> 9 [] x = "sort1" -> 4 [] OTHER -> 1]
MCThresholds == <<0, 0>>
=============================================================================
