\* Two threads, two requests; the user service in the gateway's process, over
\* mysql and in a process of its own that crashes once.
CONSTANTS
    Workers = {w1, w2}
    Events = {e1}
    MaxIds = 1
    MaxRequests = 2
    Modes = {"memory", "mysql", "remote"}
    UserIds <- MCUserIds
    AdminId = 1
    IdSpan = 4
    MaxCrashes = 1
SPECIFICATION UFairSpec
INVARIANTS
    VerdictsAreReal
PROPERTIES
    RequestsAnswered
    ImplementsLocalRpc
