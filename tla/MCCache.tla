------------------------------- MODULE MCCache -------------------------------
(* Small instances of Cache: workers and entries are model values.         *)
EXTENDS Cache

CONSTANTS e1, e2, e3

\* A cache as the metadata cache, whose quota may be lifted; and one that allows
\* several entries of a key and whose entries are marked for deletion.
MetadataCache ==
    [unique |-> TRUE, mayMark |-> FALSE, entries |-> {e1, e2}, keys |-> {1, 2},
     quotas |-> {0, 10}]
SharedKeyCache ==
    [unique |-> FALSE, mayMark |-> TRUE, entries |-> {e1, e2, e3}, keys |-> {1},
     quotas |-> {10}]

MCEntries == {e1, e2, e3}
MCKinds == {MetadataCache, SharedKeyCache}
=============================================================================
