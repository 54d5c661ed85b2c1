------------------------------- MODULE MCMemo --------------------------------
(* Small instances of Memo.                                                 *)
EXTENDS Memo

Leaf(o) == [op |-> o, kids |-> <<>>]
Over(o, g) == [op |-> o, kids |-> <<g>>]
Tree(g, ops, b) == [group |-> g, ops |-> ops, base |-> b]

\* Two leaves, and above each of them f and h.
MCMemoOfQuery == <<Leaf("a"), Leaf("b"), Over("f", 1), Over("f", 2), Over("h", 3), Over("h", 4)>>

MCResults ==
    {Tree(1, <<"b">>, NoGroup),          \* group 1 is a duplicate of group 2
     Tree(3, <<"h">>, 3),                \* group 3 of group 5
     Tree(5, <<"f">>, 2),                \* group 5 of group 4
     Tree(6, <<"s", "f">>, NoGroup),     \* a new scalar group below group 6
     Tree(4, <<"k", "m">>, 3),           \* a new group for k over group 3
     Tree(6, <<"k">>, 3)}                \* the root is a duplicate of that group
=============================================================================
