----------------------------- MODULE MCLocalRpc -----------------------------
(* Small instances of LocalRpc for TLC. *)
EXTENDS LocalRpc, TLC

ThreadSymmetry == Permutations(Workers)
=============================================================================
