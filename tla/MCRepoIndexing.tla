--------------------------- MODULE MCRepoIndexing ---------------------------
(***************************************************************************)
(* RepoIndexing for TLC: two or three POSTs and up to two DELETEs as model *)
(* values.  They are interchangeable, which the run without liveness uses. *)
(***************************************************************************)
EXTENDS RepoIndexingProps, TLC

Symmetry == Permutations(Posts) \cup Permutations(Deletes)
=============================================================================
