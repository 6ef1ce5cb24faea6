\* Three threads of one process share two path limits on one bucket.
CONSTANTS
    w1 = w1  w2 = w2  w3 = w3  gw1 = gw1  gw2 = gw2
    Workers = {w1, w2, w3}
    Instances = {gw1}
    InstanceOf <- OneProcess
    Offset <- OneClock
    Keys = {k1}
    Limits = {1, 2}
    Window = 2
    RedisEnabled = FALSE
    FailOpen <- AllFailOpen
    StartTime = 1
    MaxTime = 7
    MaxCount = 3
SPECIFICATION Spec
SYMMETRY ThreadSymmetry
INVARIANTS
    TypeOK
    LocalQuota
PROPERTY WindowsApart
