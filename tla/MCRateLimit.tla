---------------------------- MODULE MCRateLimit -----------------------------
(* Small instances of RateLimit for TLC. *)
EXTENDS RateLimit, TLC

CONSTANTS w1, w2, w3, gw1, gw2

\* One process with three threads.
OneProcess == w1 :> gw1 @@ w2 :> gw1 @@ w3 :> gw1
OneClock == gw1 :> 0

\* Two processes with one thread each.
TwoProcesses == w1 :> gw1 @@ w2 :> gw2
\* ... on one host: one steady clock.
SameHost == gw1 :> 0 @@ gw2 :> 0
\* ... on two hosts, the second booted earlier.
TwoHosts == gw1 :> 0 @@ gw2 :> 10

\* The first process falls back on its own buckets when Redis fails, the second
\* rejects.
OneFailsOpen == gw1 :> TRUE @@ gw2 :> FALSE
AllFailOpen == [i \in Instances |-> TRUE]

ThreadSymmetry == Permutations(Workers)
=============================================================================
