\* One worker takes every path of Forward and of the inner client, under every
\* configuration and fair scheduling.
CONSTANTS
    Workers = {w1}
    Upstreams = {u1}
    Methods = {"GET", "POST"}
    DebugHeaders <- MCDebugHeaders
    Timeouts = {1, 2}
    Configs <- MCConfigs
    FailureThreshold = 2
    OpenSeconds = 1
    HalfOpenSuccessThreshold = 2
    MaxTime = 3
    Operations <- MCOperations
    MaxIds = 1
    Bad = Bad
SPECIFICATION FFairSpec
INVARIANTS
    CallsBounded
    OutcomesRecorded
    SuccessIsTimely
    AtMostOnce
    LostAnswersAreLate
PROPERTIES
    ForwardReturns
    BreakerRecovers
