---------------------------- MODULE MCJobStream ----------------------------
(***************************************************************************)
(* JobStream for TLC.  One connection is enough: handlers share nothing,   *)
(* and a publication reaches each of them alike.                           *)
(***************************************************************************)
EXTENDS JobStream
=============================================================================
