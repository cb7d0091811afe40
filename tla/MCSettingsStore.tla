-------------------------- MODULE MCSettingsStore --------------------------
(***************************************************************************)
(* SettingsStore for TLC: one plain and one secret setting, one or two     *)
(* POSTs, each process started once or twice.                              *)
(***************************************************************************)
EXTENDS SettingsStore, TLC

Symmetry == Permutations(Posts)
=============================================================================
