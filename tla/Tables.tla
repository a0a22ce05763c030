------------------------------- MODULE Tables -------------------------------
(***************************************************************************)
(* A table whose primary key is a running number is a sequence: the key of *)
(* a row is its position, and a deleted row is Gone.                       *)
(***************************************************************************)
EXTENDS Integers, Sequences

CONSTANT Gone

Rows(table) == {i \in DOMAIN table : table[i] # Gone}

\* QuerySet.first() orders by primary key: the lowest, if there is a row.
First(ids) == {i \in ids : \A other \in ids : i <= other}

=============================================================================
