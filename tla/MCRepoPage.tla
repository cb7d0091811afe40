----------------------------- MODULE MCRepoPage -----------------------------
(***************************************************************************)
(* RepoPage for TLC.                                                       *)
(***************************************************************************)
EXTENDS RepoPage
=============================================================================
