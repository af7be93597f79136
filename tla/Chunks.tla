------------------------------- MODULE Chunks -------------------------------
(***************************************************************************)
(* Walks over a table in the order of its keys, which are numbers: a chunk *)
(* holds the first keys after a cursor, and the last of them is the next   *)
(* cursor (the paged walks of db/mod.rs and the rebuilds of db/store.rs).  *)
(***************************************************************************)
EXTENDS Integers, FiniteSets, FiniteSetsExt

AheadOf(S, cursor) == {k \in S : k > cursor}
\* The first n elements.
FirstOf(n, S) == {k \in S : Cardinality({j \in S : j < k}) < n}
=============================================================================
