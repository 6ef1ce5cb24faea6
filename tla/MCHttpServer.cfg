\* Two connections share one worker thread, under fair scheduling.
CONSTANTS
    Sessions = {s1, s2}
    WorkerThreads = 1
    MaxStale = 1
    MaxRequests = 2
SPECIFICATION FairSpec
INVARIANTS
    TypeOK
    OneStage
    AnsweredInOrder
PROPERTIES
    NobodyWaitsForever
    TakenIsAnswered
