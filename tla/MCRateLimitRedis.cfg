\* Two processes on one host share a Redis that may fail at any command; one
\* of them falls back on its own buckets then, the other rejects.
CONSTANTS
    w1 = w1  w2 = w2  w3 = w3  gw1 = gw1  gw2 = gw2
    Workers = {w1, w2}
    Instances = {gw1, gw2}
    InstanceOf <- TwoProcesses
    Offset <- SameHost
    Keys = {k1}
    Limits = {3}
    Window = 2
    RedisEnabled = TRUE
    FailOpen <- OneFailsOpen
    StartTime = 2
    MaxTime = 4
    MaxCount = 4
SPECIFICATION Spec
INVARIANTS
    ClusterQuota
    KeysExpire
