---------------------------- MODULE MCGovernance ----------------------------
(* Small instances of Governance for TLC. *)
EXTENDS Governance, TLC

CONSTANT Bad

Loader == INSTANCE ConfigLoader WITH LoginPath <- <<"login">>

\* The governance section of a file, as main hands it on.
FromFile(section) == Loader!GovernanceOf(Loader!LoadFromFile([governance |-> section])[1])

NoFallback == [fallback |-> [enabled |-> FALSE]]

\* configs/gateway.yaml without its fallback: breaker and retry on.
Deployed == FromFile(NoFallback)

\* Governance switched off: Forward only passes the request on.
Disabled == FromFile(NoFallback @@ [enabled |-> FALSE])

\* Everything that can be retried is, without a pause, and fallback answers.
Eager == FromFile([retry |-> [backoff_ms |-> 0, retry_non_idempotent |-> TRUE]])

\* No breaker, and a max_attempts that is not used, for retry is off.
NoBreaker == FromFile(NoFallback @@ [circuit_breaker |-> [enabled |-> FALSE],
                                     retry |-> [enabled |-> FALSE]])

WorkerSymmetry == Permutations(Workers)

MCConfigs == {Deployed, Disabled, Eager, NoBreaker}
MCDeployed == {Deployed}
MCDebugHeaders == {{}, {"sleep"}, {"force"}}
MCNoDebug == {{}}
=============================================================================
