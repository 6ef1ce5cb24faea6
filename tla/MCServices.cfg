\* Two threads, four requests: records are created, changed and read at once.
CONSTANTS
    Workers = {w1, w2}
    Events = {e1, e2}
    MaxIds = 2
    MaxRequests = 4
SPECIFICATION Spec
SYMMETRY ThreadSymmetry
INVARIANTS
    TypeOK
    FailuresHaveNoEffect
    EveryIdIssuedOnce
    ReadsAreWhole
    IssuedIdsAreHeard
