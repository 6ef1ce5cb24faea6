\* The same instance: what does the collector receive?
CONSTANTS
    Workers = {w1, w2}
    IncomingTraces <- MCIncomingTraces
    IncomingSpans <- MCIncomingSpans
    MaxFinishedSpans = 2
    ExporterEnabled = TRUE
    MaxRequests = 2
SPECIFICATION Spec
INVARIANT ExportsFinishedSpans
