------------------------------ MODULE MCPosting ------------------------------
(***************************************************************************)
(* Posting for TLC: two located findings with a cap of one, so that one of *)
(* them is a bullet when both are posted; one is dismissed at first.       *)
(***************************************************************************)
EXTENDS Posting
=============================================================================
