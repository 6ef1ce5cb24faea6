----------------------------- MODULE MCGateway ------------------------------
(* Small instances of Gateway for TLC. *)
EXTENDS Gateway

MCIncomingTraces == {-1}
MCIncomingSpans == {-2}

ThreadSymmetry == Permutations(Workers)
=============================================================================
