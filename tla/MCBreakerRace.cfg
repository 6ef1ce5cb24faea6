\* Two workers race on one breaker.
CONSTANTS
    Workers = {w1, w2}
    Upstreams = {u1}
    Methods = {"GET"}
    DebugHeaders <- MCNoDebug
    Timeouts = {2}
    Configs <- MCDeployed
    FailureThreshold = 2
    OpenSeconds = 1
    HalfOpenSuccessThreshold = 2
    MaxTime = 3
    Bad = Bad
SPECIFICATION Spec
SYMMETRY WorkerSymmetry
INVARIANTS
    TypeOK
    BreakerConsistent
    OpenAdmitsNobody
PROPERTY ImplementsCircuitBreaker
