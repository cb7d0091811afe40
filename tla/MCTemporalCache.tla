-------------------------- MODULE MCTemporalCache --------------------------
(***************************************************************************)
(* TemporalCache for TLC: a cap of one, more sources than that, and        *)
(* lookups that overlap on the same source and on different ones.          *)
(***************************************************************************)
EXTENDS TemporalCache
=============================================================================
