--------------------------- MODULE CircuitBreaker ---------------------------
(***************************************************************************)
(* What a circuit breaker promises, with neither threads, clocks nor       *)
(* locks: a breaker opens after an unbroken run of FailureThreshold        *)
(* failures, an open breaker ignores every result until it is probed, and  *)
(* a probed breaker closes after an unbroken run of                        *)
(* HalfOpenSuccessThreshold successes or opens again at the first failure. *)
(* Every run is counted from the moment the breaker entered its mode.      *)
(***************************************************************************)
EXTENDS Naturals

CONSTANTS
    Upstreams,                  \* names of the upstream services
    FailureThreshold,           \* circuit_breaker.failure_threshold
    HalfOpenSuccessThreshold    \* circuit_breaker.half_open_success_threshold

VARIABLES
    mode,   \* mode[u]: "CLOSED", "OPEN" or "HALF_OPEN"
    run     \* run[u]: length of the run of results that may end this mode

vars == <<mode, run>>

Init ==
    /\ mode = [u \in Upstreams |-> "CLOSED"]
    /\ run = [u \in Upstreams |-> 0]

Enter(u, m) ==
    /\ mode' = [mode EXCEPT ![u] = m]
    /\ run' = [run EXCEPT ![u] = 0]

Stay(u, n) ==
    /\ run' = [run EXCEPT ![u] = n]
    /\ UNCHANGED mode

Failure(u) ==
    \/ /\ mode[u] = "CLOSED"
       /\ IF run[u] + 1 >= FailureThreshold
            THEN Enter(u, "OPEN")
            ELSE Stay(u, run[u] + 1)
    \/ mode[u] = "HALF_OPEN" /\ Enter(u, "OPEN")

Success(u) ==
    \/ mode[u] = "CLOSED" /\ Stay(u, 0)
    \/ /\ mode[u] = "HALF_OPEN"
       /\ IF run[u] + 1 >= HalfOpenSuccessThreshold
            THEN Enter(u, "CLOSED")
            ELSE Stay(u, run[u] + 1)

Probe(u) == mode[u] = "OPEN" /\ Enter(u, "HALF_OPEN")

Next == \E u \in Upstreams : Failure(u) \/ Success(u) \/ Probe(u)

Spec == Init /\ [][Next]_vars
=============================================================================
