\* One connection and a signal.
CONSTANTS
    Sessions = {s1}
    WorkerThreads = 1
    MaxStale = 1
    MaxRequests = 1
SPECIFICATION Spec
INVARIANT GracefulExit
