-------------------------- MODULE MCReviewPipeline --------------------------
(* ReviewPipeline on small instances: jobs are interchangeable.            *)
EXTENDS ReviewPipeline, TLC

JobSymmetry == Permutations(Jobs)
=============================================================================
