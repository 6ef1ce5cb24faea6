\* Two threads and two requests, which may join a client's trace.
CONSTANTS
    Workers = {w1, w2}
    IncomingTraces <- MCIncomingTraces
    IncomingSpans <- MCIncomingSpans
    MaxFinishedSpans = 2
    ExporterEnabled = TRUE
    MaxRequests = 2
SPECIFICATION Spec
SYMMETRY ThreadSymmetry
INVARIANTS
    TypeOK
    RingHoldsNewest
    SpanIdsUnique
    TracesConnected
    MetricsAddUp
