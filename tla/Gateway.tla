------------------------------ MODULE Gateway -------------------------------
(***************************************************************************)
(* GatewayHandler::Handle with what it leaves behind: the metrics registry *)
(* and the tracer's ring of finished spans and its exporter threads.       *)
(* Worker threads run Handle concurrently; MetricsRegistry and Tracer each *)
(* have a mutex, and every step below is one critical section or the code  *)
(* between two.  Routing, authentication, rate limiting and forwarding are *)
(* taken by their outcomes.                                                *)
(***************************************************************************)
EXTENDS Integers, Sequences, SequencesExt, FiniteSets

CONSTANTS
    Workers,            \* threads of the worker pool
    IncomingTraces,     \* trace ids that clients send along
    IncomingSpans,      \* parent span ids that clients send along
    MaxFinishedSpans,   \* tracing.max_finished_spans
    ExporterEnabled,    \* tracing.otlp_exporter_enabled
    MaxRequests         \* bound: requests in a behaviour

ASSUME GatewayAssumption ==
    /\ MaxFinishedSpans \in Nat \ {0} /\ MaxRequests \in Nat
    /\ ExporterEnabled \in BOOLEAN

\* runtime.worker_threads is a number: the pool is finite.
ASSUME PoolAssumption == IsFiniteSet(Workers)

\* An id the gateway generates is a positive number (random digits and the
\* counter, of which the counter makes it unique); one a client sent is
\* negative; 0 is the empty string.
ASSUME IdAssumption ==
    \A x \in IncomingTraces \cup IncomingSpans : x \in Int /\ x < 0

VARIABLES
    pc,             \* where each worker is in Handle
    gatewaySpan,    \* gateway_span of each worker
    upstreamSpan,   \* upstream_span of each worker
    status,         \* class of the response: "ok", "rejected", "failed"
    idCounter,      \* Tracer::id_counter_
    finishedSpans,  \* Tracer::finished_spans_
    exporters,      \* detached exporter threads: <<number, span they send>>
    metrics,        \* MetricsRegistry::requests_: status -> count
    \* History, read by properties only:
    arrived,        \* requests handled so far
    answered,       \* responses returned so far
    completed,      \* every span FinishSpan has recorded, in order
    exported        \* every span the collector has received

tracer == <<idCounter, finishedSpans, exporters, completed>>
vars == <<pc, gatewaySpan, upstreamSpan, status, tracer, metrics, arrived,
          answered, exported>>

NoId == 0
Statuses == {"ok", "rejected", "failed"}

\* A default TraceSpan, also what a moved-from FinishedSpan looks like.
EmptySpan == [trace |-> NoId, span |-> NoId, parent |-> NoId, kind |-> "none"]

Init ==
    /\ pc = [w \in Workers |-> "idle"]
    /\ gatewaySpan = [w \in Workers |-> EmptySpan]
    /\ upstreamSpan = [w \in Workers |-> EmptySpan]
    /\ status = [w \in Workers |-> "ok"]
    /\ idCounter = 0
    /\ finishedSpans = <<>>
    /\ exporters = {}
    /\ metrics = [s \in Statuses |-> 0]
    /\ arrived = 0
    /\ answered = 0
    /\ completed = <<>>
    /\ exported = {}

Goto(w, step) == pc' = [pc EXCEPT ![w] = step]

-----------------------------------------------------------------------------
(* StartServerSpan *)

\* Handle begins.  An unsampled request has no ids.  A sampled one takes the
\* trace id and the parent its client sent, each if there is one; without a
\* trace id GenerateTraceId is next.
Arrive(w) ==
    /\ pc[w] = "idle"
    /\ arrived < MaxRequests
    /\ arrived' = arrived + 1
    /\ \/ Goto(w, "route") /\ UNCHANGED gatewaySpan
       \/ \E t \in IncomingTraces \cup {NoId}, p \in IncomingSpans \cup {NoId} :
            /\ gatewaySpan' = [gatewaySpan EXCEPT ![w] =
                 [trace |-> t, span |-> NoId, parent |-> p, kind |-> "server"]]
            /\ Goto(w, IF t = NoId THEN "traceId" ELSE "spanId")
    /\ UNCHANGED <<upstreamSpan, status, tracer, metrics, answered, exported>>

GenerateTraceId(w) ==
    /\ pc[w] = "traceId"
    /\ idCounter' = idCounter + 1
    /\ gatewaySpan' = [gatewaySpan EXCEPT ![w].trace = idCounter']
    /\ Goto(w, "spanId")
    /\ UNCHANGED <<upstreamSpan, status, finishedSpans, exporters, completed, metrics,
                   arrived, answered, exported>>

GenerateSpanId(w) ==
    /\ pc[w] = "spanId"
    /\ idCounter' = idCounter + 1
    /\ gatewaySpan' = [gatewaySpan EXCEPT ![w].span = idCounter']
    /\ Goto(w, "route")
    /\ UNCHANGED <<upstreamSpan, status, finishedSpans, exporters, completed, metrics,
                   arrived, answered, exported>>

-----------------------------------------------------------------------------
(* The pipeline of Handle *)

\* Mutation: a rejected request is answered without finish.
RejectUnfinished(w) ==
    /\ pc[w] = "route"
    /\ status' = [status EXCEPT ![w] = "rejected"]
    /\ Goto(w, "done")
    /\ UNCHANGED <<gatewaySpan, upstreamSpan, tracer, metrics, arrived, answered, exported>>

\* No route, no authentication or over the limit: finish with a rejection.
Reject(w) ==
    /\ pc[w] = "route"
    /\ status' = [status EXCEPT ![w] = "rejected"]
    /\ Goto(w, "metrics")
    /\ UNCHANGED <<gatewaySpan, upstreamSpan, tracer, metrics, arrived, answered, exported>>

\* Mutation: the child's id is the counter as it stands.
StartClientSpanUncounted(w) ==
    /\ pc[w] = "route"
    /\ IF gatewaySpan[w].trace # NoId
         THEN upstreamSpan' = [upstreamSpan EXCEPT ![w] =
                [trace |-> gatewaySpan[w].trace, span |-> idCounter,
                 parent |-> gatewaySpan[w].span, kind |-> "client"]]
         ELSE UNCHANGED upstreamSpan
    /\ Goto(w, "forward")
    /\ UNCHANGED <<gatewaySpan, status, tracer, metrics, arrived, answered, exported>>

\* All filters pass; StartClientSpan makes a child of the gateway's span.
StartClientSpan(w) ==
    /\ pc[w] = "route"
    /\ IF gatewaySpan[w].trace # NoId
         THEN /\ idCounter' = idCounter + 1
              /\ upstreamSpan' = [upstreamSpan EXCEPT ![w] =
                   [trace |-> gatewaySpan[w].trace, span |-> idCounter',
                    parent |-> gatewaySpan[w].span, kind |-> "client"]]
         ELSE UNCHANGED <<idCounter, upstreamSpan>>
    /\ Goto(w, "forward")
    /\ UNCHANGED <<gatewaySpan, status, finishedSpans, exporters, completed, metrics,
                   arrived, answered, exported>>

\* The upstream client answers.
Forward(w) ==
    /\ pc[w] = "forward"
    /\ \E s \in {"ok", "failed"} : status' = [status EXCEPT ![w] = s]
    /\ Goto(w, "finishClient")
    /\ UNCHANGED <<gatewaySpan, upstreamSpan, tracer, metrics, arrived, answered, exported>>

\* Mutation: nothing is dropped.
PushedWithoutLimit(s) == Append(finishedSpans, s)

\* Mutation: a full ring takes no more spans.
PushedUntilFull(s) ==
    IF Len(finishedSpans) = MaxFinishedSpans THEN finishedSpans
    ELSE Append(finishedSpans, s)

\* finished_spans_ after a span was pushed and the oldest ones dropped.
Pushed(s) ==
    LET all == Append(finishedSpans, s) IN
    IF Len(all) > MaxFinishedSpans THEN Tail(all) ELSE all

\* What the exporter thread captures: the FinishedSpan after it was moved into
\* finished_spans_, its strings empty.
Captured(s) == EmptySpan

\* FinishSpan under the tracer's mutex; a span without ids is not recorded.
FinishSpan(s) ==
    IF s.trace = NoId \/ s.span = NoId
      THEN UNCHANGED <<finishedSpans, exporters, completed>>
      ELSE /\ finishedSpans' = Pushed(s)
           /\ completed' = Append(completed, s)
           /\ exporters' = IF ExporterEnabled
                             THEN exporters \cup {<<Len(completed), Captured(s)>>}
                             ELSE exporters

FinishClientSpan(w) ==
    /\ pc[w] = "finishClient"
    /\ FinishSpan(upstreamSpan[w])
    /\ Goto(w, "metrics")
    /\ UNCHANGED <<gatewaySpan, upstreamSpan, status, idCounter, metrics, arrived,
                   answered, exported>>

\* finish: the metrics registry first, then the gateway's span.
RecordRequest(w) ==
    /\ pc[w] = "metrics"
    /\ metrics' = [metrics EXCEPT ![status[w]] = @ + 1]
    /\ Goto(w, "finishServer")
    /\ UNCHANGED <<gatewaySpan, upstreamSpan, status, tracer, arrived, answered, exported>>

\* Mutation: only a rejected request finishes the gateway's span.
FinishServerSpanIfRejected(w) ==
    /\ pc[w] = "finishServer"
    /\ IF status[w] = "rejected"
         THEN FinishSpan(gatewaySpan[w])
         ELSE UNCHANGED <<finishedSpans, exporters, completed>>
    /\ Goto(w, "done")
    /\ UNCHANGED <<gatewaySpan, upstreamSpan, status, idCounter, metrics, arrived,
                   answered, exported>>

FinishServerSpan(w) ==
    /\ pc[w] = "finishServer"
    /\ FinishSpan(gatewaySpan[w])
    /\ Goto(w, "done")
    /\ UNCHANGED <<gatewaySpan, upstreamSpan, status, idCounter, metrics, arrived,
                   answered, exported>>

Return(w) ==
    /\ pc[w] = "done"
    /\ answered' = answered + 1
    /\ gatewaySpan' = [gatewaySpan EXCEPT ![w] = EmptySpan]
    /\ upstreamSpan' = [upstreamSpan EXCEPT ![w] = EmptySpan]
    /\ status' = [status EXCEPT ![w] = "ok"]
    /\ Goto(w, "idle")
    /\ UNCHANGED <<tracer, metrics, arrived, exported>>

\* A detached thread runs ExportSpan: the collector gets the span, or an
\* exception is logged and the span is lost.
Export(x) ==
    /\ x \in exporters
    /\ exporters' = exporters \ {x}
    /\ exported' \in {exported, exported \cup {x[2]}}
    /\ UNCHANGED <<pc, gatewaySpan, upstreamSpan, status, idCounter, finishedSpans,
                   completed, metrics, arrived, answered>>

\* All requests of the bound were answered.
Finished == arrived = MaxRequests /\ answered = arrived /\ exporters = {} /\ UNCHANGED vars

Next ==
    \/ \E w \in Workers :
         \/ Arrive(w) \/ GenerateTraceId(w) \/ GenerateSpanId(w) \/ Reject(w)
         \/ StartClientSpan(w) \/ Forward(w) \/ FinishClientSpan(w)
         \/ RecordRequest(w) \/ FinishServerSpan(w) \/ Return(w)
    \/ \E x \in exporters : Export(x)
    \/ Finished

Spec == Init /\ [][Next]_vars

-----------------------------------------------------------------------------
(* Properties *)

SpanType == [trace : Int, span : Int, parent : Int, kind : {"none", "server", "client"}]

\* Every variable has its type; the ring never grows past its size.
TypeOK ==
    /\ pc \in [Workers -> {"idle", "traceId", "spanId", "route", "forward",
                           "finishClient", "metrics", "finishServer", "done"}]
    /\ gatewaySpan \in [Workers -> SpanType]
    /\ upstreamSpan \in [Workers -> SpanType]
    /\ status \in [Workers -> Statuses]
    /\ idCounter \in Nat
    /\ finishedSpans \in Seq(SpanType) /\ Len(finishedSpans) <= MaxFinishedSpans
    /\ exporters \subseteq Nat \X SpanType
    /\ metrics \in [Statuses -> Nat]
    /\ arrived \in 0 .. MaxRequests /\ answered \in 0 .. arrived
    /\ completed \in Seq(SpanType)
    /\ exported \subseteq SpanType

\* /debug/traces shows the most recent spans, all of them up to the ring's
\* size, in the order in which they finished (FinishSpan).
RingHoldsNewest ==
    /\ IsSuffix(finishedSpans, completed)
    /\ Len(finishedSpans) = IF Len(completed) < MaxFinishedSpans
                              THEN Len(completed) ELSE MaxFinishedSpans

\* No two recorded spans have the same id, although several threads generate
\* ids and clients send their own (GenerateSpanId).
SpanIdsUnique ==
    \A m, n \in DOMAIN completed : completed[m].span = completed[n].span => m = n

\* A trace is complete: the gateway span a client span hangs from belongs to
\* the same trace and is recorded after it, or its handler is still running.
TracesConnected ==
    \A m \in DOMAIN completed : completed[m].kind = "client" =>
        \/ \E w \in Workers : gatewaySpan[w].span = completed[m].parent
        \/ \E n \in m + 1 .. Len(completed) :
             /\ completed[n].span = completed[m].parent
             /\ completed[n].trace = completed[m].trace
             /\ completed[n].kind = "server"

\* Every answered request is counted in the metrics exactly once, whichever
\* way through Handle it took.
MetricsAddUp ==
    metrics["ok"] + metrics["rejected"] + metrics["failed"]
      = answered + Cardinality({w \in Workers : pc[w] \in {"finishServer", "done"}})

\* Every request that came in was answered or is in the hands of one worker.
RequestsInHand == arrived = answered + Cardinality({w \in Workers : pc[w] # "idle"})

\* The parts of the inductive invariant behind the properties above.
\* What Handle has made of its two spans at each step: ids only after they were
\* generated, and a client span that is a child of the gateway span.
LiveSpan(w) ==
    LET g == gatewaySpan[w]
        u == upstreamSpan[w]
    IN
    /\ g.span \in 0 .. idCounter /\ u.span \in 0 .. idCounter
    /\ g.span # NoId => g.trace # NoId /\ g.kind = "server"
    /\ u.span # NoId =>
         /\ g.span # NoId /\ u.parent = g.span
         /\ u.trace = g.trace /\ u.kind = "client"
    /\ pc[w] = "idle" => g.trace = NoId
    /\ pc[w] \in {"traceId", "spanId"} => g.kind = "server"
    /\ pc[w] = "spanId" => g.trace # NoId
    /\ pc[w] \in {"idle", "traceId", "spanId"} => g.span = NoId
    /\ pc[w] \in {"idle", "traceId", "spanId", "route"} => u.span = NoId
    /\ pc[w] \notin {"traceId", "spanId"} /\ g.trace # NoId => g.span # NoId

\* The spans of the running handlers have ids of their own, and none of them is
\* recorded before its handler's FinishSpan.
IdsApart ==
    /\ \A v, w \in Workers :
         /\ gatewaySpan[v].span = gatewaySpan[w].span => v = w \/ gatewaySpan[v].span = NoId
         /\ upstreamSpan[v].span = upstreamSpan[w].span => v = w \/ upstreamSpan[v].span = NoId
         /\ gatewaySpan[v].span = upstreamSpan[w].span => gatewaySpan[v].span = NoId
    /\ \A m \in DOMAIN completed :
         /\ completed[m].span \in 1 .. idCounter
         /\ \A w \in Workers :
              /\ completed[m].span = gatewaySpan[w].span => pc[w] = "done"
              /\ completed[m].span = upstreamSpan[w].span =>
                   pc[w] \in {"metrics", "finishServer", "done"}

\* The handler a recorded client span waits for has its gateway span still to
\* record, in the same trace.
ParentsToCome ==
    \A m \in DOMAIN completed : completed[m].kind = "client" =>
        /\ completed[m].parent # NoId
        /\ \/ \E w \in Workers :
                /\ pc[w] # "done"
                /\ gatewaySpan[w].span = completed[m].parent
                /\ gatewaySpan[w].trace = completed[m].trace
           \/ \E n \in m + 1 .. Len(completed) :
                /\ completed[n].span = completed[m].parent
                /\ completed[n].trace = completed[m].trace
                /\ completed[n].kind = "server"

\* What the collector receives is a span that was finished: the exporter sends
\* the span FinishSpan was called for.
ExportsFinishedSpans == exported \subseteq Range(completed)
=============================================================================
