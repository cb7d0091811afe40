--------------------------- MODULE MCReviewContext ---------------------------
(***************************************************************************)
(* ReviewContext for TLC.  Diffs with queries have one hunk; diffs without *)
(* text in their hunks ask nothing, and try all choices of up to three     *)
(* hunks, with two deletions among them.                                   *)
(***************************************************************************)
EXTENDS ReviewContext

Hunk == [start : 1..7, length : {1, 2, 4}]

Deletions == {[start |-> 0, length |-> 0], [start |-> 4, length |-> 0]}

MCDiffs ==
    {[queries |-> q, hunks |-> {[start |-> 2, length |-> 2]}] : q \in 1..2}
    \cup {[queries |-> 0, hunks |-> {h, i, j} \cup d] :
            h \in Hunk, i \in Hunk, j \in Hunk, d \in {{}, Deletions}}

ModelSymmetry == Permutations(Models)

MCCost == <<1, 2, 3>>
=============================================================================
