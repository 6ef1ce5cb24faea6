--------------------------- MODULE Gateway_proofs ---------------------------
(***************************************************************************)
(* Proofs about Gateway, for every finite worker pool, every number of     *)
(* requests, every size of the ring of finished spans and whatever ids     *)
(* clients send.                                                           *)
(***************************************************************************)
EXTENDS Gateway, FiniteSetTheorems, TLAPS

\* A sequence whose elements are the last ones of another is its suffix.
LEMMA SuffixAt ==
    ASSUME NEW S, NEW s \in Seq(S), NEW t \in Seq(S), Len(s) <= Len(t),
           \A i \in 1 .. Len(s) : s[i] = t[Len(t) - Len(s) + i]
    PROVE  IsSuffix(s, t)
<1> DEFINE rs == Reverse(s)
           rt == Reverse(t)
<1>1. ASSUME NEW q \in Seq(S)
      PROVE  /\ Reverse(q) \in Seq(S) /\ Len(Reverse(q)) = Len(q)
             /\ \A i \in 1 .. Len(q) : Reverse(q)[i] = q[(Len(q) - i) + 1]
  <2>1. Reverse(q) = [i \in 1 .. Len(q) |-> q[(Len(q) - i) + 1]]
    BY DEF Reverse
  <2>2. Len(q) \in Nat /\ \A i \in 1 .. Len(q) : q[(Len(q) - i) + 1] \in S
    OBVIOUS
  <2> QED BY <2>1, <2>2
<1>2. /\ rs \in Seq(S) /\ Len(rs) = Len(s)
      /\ \A i \in 1 .. Len(s) : rs[i] = s[(Len(s) - i) + 1]
  BY <1>1
<1>3. /\ rt \in Seq(S) /\ Len(rt) = Len(t)
      /\ \A i \in 1 .. Len(t) : rt[i] = t[(Len(t) - i) + 1]
  BY <1>1
<1> HIDE DEF rs, rt
<1>4. \A i \in 1 .. Len(s) : rs[i] = rt[i]
  <2> SUFFICES ASSUME NEW i \in 1 .. Len(s) PROVE rs[i] = rt[i]
    OBVIOUS
  <2>1. (Len(s) - i) + 1 \in 1 .. Len(s) /\ i \in 1 .. Len(t)
    OBVIOUS
  <2>2. s[(Len(s) - i) + 1] = t[Len(t) - Len(s) + ((Len(s) - i) + 1)]
    BY <2>1
  <2>3. Len(t) - Len(s) + ((Len(s) - i) + 1) = (Len(t) - i) + 1
    OBVIOUS
  <2> QED BY <1>2, <1>3, <2>1, <2>2, <2>3
<1>5. SubSeq(rs, 1, Len(rs)) = SubSeq(rt, 1, Len(rs))
  BY <1>2, <1>3, <1>4
<1>6. IsPrefix(rs, rt)
  BY <1>2, <1>3, <1>5 DEF IsPrefix
<1> QED BY <1>6 DEF IsSuffix, rs, rt

\* FinishSpan records a span with ids in the ring and in the history, and
\* leaves all alone for a span without.
LEMMA FinishDoes ==
    ASSUME TypeOK, NEW s \in SpanType, FinishSpan(s)
    PROVE  \/ /\ s.trace = NoId \/ s.span = NoId
              /\ UNCHANGED <<finishedSpans, exporters, completed>>
           \/ /\ s.trace # NoId /\ s.span # NoId
              /\ finishedSpans' = Pushed(s)
              /\ completed' = Append(completed, s)
              /\ exporters' \subseteq exporters \cup {<<Len(completed), EmptySpan>>}
  BY DEF FinishSpan, Captured

\* The ring after a push: one longer until it is full, then shifted by one.
LEMMA PushedDoes ==
    ASSUME TypeOK, NEW s \in SpanType
    PROVE  /\ Pushed(s) \in Seq(SpanType)
           /\ Len(finishedSpans) < MaxFinishedSpans =>
                Pushed(s) = Append(finishedSpans, s)
           /\ Len(finishedSpans) = MaxFinishedSpans =>
                /\ Len(Pushed(s)) = MaxFinishedSpans
                /\ \A i \in 1 .. MaxFinishedSpans :
                     Pushed(s)[i] = IF i = MaxFinishedSpans THEN s ELSE finishedSpans[i + 1]
           /\ Len(Pushed(s)) <= MaxFinishedSpans
<1> DEFINE all == Append(finishedSpans, s)
<1>1. /\ finishedSpans \in Seq(SpanType) /\ Len(finishedSpans) <= MaxFinishedSpans
      /\ MaxFinishedSpans \in Nat \ {0}
  BY GatewayAssumption DEF TypeOK
<1>2. /\ all \in Seq(SpanType) /\ Len(all) = Len(finishedSpans) + 1
      /\ \A i \in 1 .. Len(finishedSpans) : all[i] = finishedSpans[i]
      /\ all[Len(finishedSpans) + 1] = s
  BY <1>1
<1>3. Pushed(s) = IF Len(all) > MaxFinishedSpans THEN Tail(all) ELSE all
  BY DEF Pushed
<1> HIDE DEF all
<1>4. CASE Len(finishedSpans) < MaxFinishedSpans
  BY <1>1, <1>2, <1>3, <1>4 DEF all
<1>5. CASE Len(finishedSpans) = MaxFinishedSpans
  <2>1. Pushed(s) = Tail(all) /\ all # <<>>
    BY <1>1, <1>2, <1>3, <1>5
  <2>2. /\ Tail(all) \in Seq(SpanType) /\ Len(Tail(all)) = MaxFinishedSpans
        /\ \A i \in 1 .. MaxFinishedSpans : Tail(all)[i] = all[i + 1]
    BY <1>1, <1>2, <1>5, <2>1
  <2>3. \A i \in 1 .. MaxFinishedSpans :
          all[i + 1] = IF i = MaxFinishedSpans THEN s ELSE finishedSpans[i + 1]
    BY <1>1, <1>2, <1>5
  <2> QED BY <1>1, <1>5, <2>1, <2>2, <2>3
<1> QED BY <1>1, <1>4, <1>5

\* Workers are counted one by one.
LEMMA CountWorkers ==
    ASSUME NEW A \in SUBSET Workers
    PROVE  /\ Cardinality(A) \in Nat
           /\ \A w \in Workers \ A : Cardinality(A \cup {w}) = Cardinality(A) + 1
           /\ \A w \in A : Cardinality(A \ {w}) = Cardinality(A) - 1 /\ Cardinality(A) > 0
<1>1. IsFiniteSet(A)
  BY PoolAssumption, FS_Subset
<1>2. Cardinality(A) \in Nat
  BY <1>1, FS_CardinalityType
<1>3. ASSUME NEW w \in Workers \ A PROVE Cardinality(A \cup {w}) = Cardinality(A) + 1
  BY <1>1, <1>3, FS_AddElement
<1>4. ASSUME NEW w \in A
      PROVE  Cardinality(A \ {w}) = Cardinality(A) - 1 /\ Cardinality(A) > 0
  <2>1. Cardinality(A \ {w}) = Cardinality(A) - 1
    BY <1>1, <1>4, FS_RemoveElement
  <2>2. Cardinality(A \ {w}) \in Nat
    BY <1>1, FS_Subset, FS_CardinalityType
  <2> QED BY <1>2, <2>1, <2>2
<1> QED BY <1>2, <1>3, <1>4

\* A worker's step between two places of Handle.
LEMMA GotoDoes ==
    ASSUME TypeOK, NEW w \in Workers, NEW step, Goto(w, step)
    PROVE  /\ pc'[w] = step
           /\ \A v \in Workers : v # w => pc'[v] = pc[v]
  BY DEF TypeOK, Goto

\* Giving a span an id leaves it a span.
LEMMA SpanTyped ==
    /\ EmptySpan \in SpanType
    /\ \A s \in SpanType, n \in Int :
         [s EXCEPT !.trace = n] \in SpanType /\ [s EXCEPT !.span = n] \in SpanType
    /\ \A t, n, p \in Int, k \in {"server", "client"} :
         [trace |-> t, span |-> n, parent |-> p, kind |-> k] \in SpanType
    /\ \A s \in SpanType : s.trace \in Int /\ s.span \in Int
  BY DEF SpanType, EmptySpan, NoId

\* Every step keeps the types, and every request in one worker's hands: a
\* response is returned only for a request that came in.
LEMMA TypeStep ==
    TypeOK /\ RequestsInHand /\ [Next]_vars => TypeOK' /\ RequestsInHand'
<1> SUFFICES ASSUME TypeOK, RequestsInHand, [Next]_vars PROVE TypeOK' /\ RequestsInHand'
  OBVIOUS
<1> DEFINE InHand == {w \in Workers : pc[w] # "idle"}
<1>a. InHand \in SUBSET Workers /\ arrived = answered + Cardinality(InHand)
  BY DEF RequestsInHand
<1>b. EmptySpan \in SpanType /\ NoId = 0
  BY DEF EmptySpan, SpanType, NoId
\* A worker that goes on inside Handle keeps the request in hand.
<1>c. ASSUME NEW w \in Workers, pc[w] # "idle", NEW step, step # "idle", Goto(w, step),
             UNCHANGED <<arrived, answered>>
      PROVE  RequestsInHand'
  <2>1. {v \in Workers : pc'[v] # "idle"} = InHand
    BY <1>c, GotoDoes
  <2> QED BY <1>a, <1>c, <2>1 DEF RequestsInHand
<1>d. ASSUME NEW w \in Workers, NEW s \in SpanType, FinishSpan(s)
      PROVE  /\ finishedSpans' \in Seq(SpanType) /\ Len(finishedSpans') <= MaxFinishedSpans
             /\ exporters' \subseteq Nat \X SpanType
             /\ completed' \in Seq(SpanType)
  <2>1. CASE UNCHANGED <<finishedSpans, exporters, completed>>
    BY <2>1 DEF TypeOK
  <2>2. CASE /\ finishedSpans' = Pushed(s)
             /\ completed' = Append(completed, s)
             /\ exporters' \subseteq exporters \cup {<<Len(completed), EmptySpan>>}
    <3>1. finishedSpans' \in Seq(SpanType) /\ Len(finishedSpans') <= MaxFinishedSpans
      BY <2>2, PushedDoes
    <3>2. completed' \in Seq(SpanType) /\ Len(completed) \in Nat
      BY <2>2 DEF TypeOK
    <3>3. exporters' \subseteq Nat \X SpanType
      BY <1>b, <2>2, <3>2 DEF TypeOK
    <3> QED BY <3>1, <3>2, <3>3
  <2> QED BY <1>d, <2>1, <2>2, FinishDoes
<1> HIDE DEF InHand
<1>1. ASSUME NEW w \in Workers, Arrive(w) PROVE TypeOK' /\ RequestsInHand'
  <2>1. gatewaySpan' \in [Workers -> SpanType]
    <3>1. ASSUME NEW t \in IncomingTraces \cup {NoId}, NEW p \in IncomingSpans \cup {NoId},
                 gatewaySpan' = [gatewaySpan EXCEPT ![w] =
                   [trace |-> t, span |-> NoId, parent |-> p, kind |-> "server"]]
          PROVE  gatewaySpan' \in [Workers -> SpanType]
      <4>1. t \in Int /\ p \in Int
        BY <1>b, IdAssumption
      <4>2. [trace |-> t, span |-> NoId, parent |-> p, kind |-> "server"] \in SpanType
        BY <1>b, <4>1 DEF SpanType
      <4> QED BY <3>1, <4>2 DEF TypeOK
    <3>2. CASE UNCHANGED gatewaySpan
      BY <3>2 DEF TypeOK
    <3> QED BY <1>1, <3>1, <3>2 DEF Arrive
  <2>2. pc' \in [Workers -> {"route", "traceId", "spanId"} \cup
          {"idle", "forward", "finishClient", "metrics", "finishServer", "done"}]
        /\ pc'[w] # "idle" /\ \A v \in Workers : v # w => pc'[v] = pc[v]
    BY <1>1 DEF Arrive, TypeOK, Goto
  <2>3. TypeOK'
    BY <1>1, <2>1, <2>2, GatewayAssumption DEF Arrive, TypeOK, tracer
  <2>4. /\ {v \in Workers : pc'[v] # "idle"} = InHand \cup {w}
        /\ w \in Workers \ InHand
    BY <1>1, <2>2 DEF Arrive, InHand
  <2>5. Cardinality(InHand \cup {w}) = Cardinality(InHand) + 1 /\ Cardinality(InHand) \in Nat
    BY <1>a, <2>4, CountWorkers
  <2>6. RequestsInHand'
    <3>1. /\ arrived' = arrived + 1 /\ answered' = answered
          /\ answered \in Nat /\ arrived \in Nat
      BY <1>1, GatewayAssumption DEF Arrive, TypeOK
    <3>2. arrived' = answered' + Cardinality(InHand \cup {w})
      BY <1>a, <2>5, <3>1
    <3> QED BY <2>4, <3>2, Zenon DEF RequestsInHand
  <2> QED BY <2>3, <2>6
<1>2. ASSUME NEW w \in Workers, GenerateTraceId(w) PROVE TypeOK' /\ RequestsInHand'
  <2>1. [gatewaySpan[w] EXCEPT !.trace = idCounter + 1] \in SpanType
    <3>1. gatewaySpan[w] \in SpanType /\ idCounter + 1 \in Int
      BY DEF TypeOK
    <3> QED BY <3>1, SpanTyped
  <2>2. gatewaySpan' = [gatewaySpan EXCEPT ![w] = [gatewaySpan[w] EXCEPT !.trace = idCounter + 1]]
    BY <1>2 DEF GenerateTraceId
  <2>3. TypeOK'
    BY <1>2, <2>1, <2>2 DEF GenerateTraceId, TypeOK, Goto
  <2> QED BY <1>2, <1>c, <2>3 DEF GenerateTraceId
<1>3. ASSUME NEW w \in Workers, GenerateSpanId(w) PROVE TypeOK' /\ RequestsInHand'
  <2>1. [gatewaySpan[w] EXCEPT !.span = idCounter + 1] \in SpanType
    <3>1. gatewaySpan[w] \in SpanType /\ idCounter + 1 \in Int
      BY DEF TypeOK
    <3> QED BY <3>1, SpanTyped
  <2>2. gatewaySpan' = [gatewaySpan EXCEPT ![w] = [gatewaySpan[w] EXCEPT !.span = idCounter + 1]]
    BY <1>3 DEF GenerateSpanId
  <2>3. TypeOK'
    BY <1>3, <2>1, <2>2 DEF GenerateSpanId, TypeOK, Goto
  <2> QED BY <1>3, <1>c, <2>3 DEF GenerateSpanId
<1>4. ASSUME NEW w \in Workers, Reject(w) PROVE TypeOK' /\ RequestsInHand'
  <2>1. TypeOK'
    BY <1>4 DEF Reject, TypeOK, Statuses, Goto, tracer
  <2> QED BY <1>4, <1>c, <2>1 DEF Reject
<1>5. ASSUME NEW w \in Workers, StartClientSpan(w) PROVE TypeOK' /\ RequestsInHand'
  <2>1. idCounter' \in Nat /\ upstreamSpan' \in [Workers -> SpanType]
    <3> DEFINE u == [trace |-> gatewaySpan[w].trace, span |-> idCounter + 1,
                     parent |-> gatewaySpan[w].span, kind |-> "client"]
    <3>1. u \in SpanType
      <4>1. gatewaySpan[w] \in SpanType /\ idCounter + 1 \in Int
        BY DEF TypeOK
      <4> QED BY <4>1, SpanTyped
    <3>2. \/ idCounter' = idCounter + 1 /\ upstreamSpan' = [upstreamSpan EXCEPT ![w] = u]
          \/ UNCHANGED <<idCounter, upstreamSpan>>
      BY <1>5 DEF StartClientSpan
    <3> HIDE DEF u
    <3>3. idCounter \in Nat /\ upstreamSpan \in [Workers -> SpanType]
      BY DEF TypeOK
    <3> QED BY <3>1, <3>2, <3>3
  <2>2. TypeOK'
    BY <1>5, <2>1 DEF StartClientSpan, TypeOK, Goto
  <2> QED BY <1>5, <1>c, <2>2 DEF StartClientSpan
<1>6. ASSUME NEW w \in Workers, Forward(w) PROVE TypeOK' /\ RequestsInHand'
  <2>1. TypeOK'
    BY <1>6 DEF Forward, TypeOK, Statuses, Goto, tracer
  <2> QED BY <1>6, <1>c, <2>1 DEF Forward
<1>7. ASSUME NEW w \in Workers, FinishClientSpan(w) PROVE TypeOK' /\ RequestsInHand'
  <2>1. upstreamSpan[w] \in SpanType /\ FinishSpan(upstreamSpan[w])
    BY <1>7 DEF FinishClientSpan, TypeOK
  <2>2. TypeOK'
    BY <1>7, <1>d, <2>1 DEF FinishClientSpan, TypeOK, Goto
  <2> QED BY <1>7, <1>c, <2>2 DEF FinishClientSpan
<1>8. ASSUME NEW w \in Workers, RecordRequest(w) PROVE TypeOK' /\ RequestsInHand'
  <2>1. TypeOK'
    BY <1>8 DEF RecordRequest, TypeOK, Goto, tracer
  <2> QED BY <1>8, <1>c, <2>1 DEF RecordRequest
<1>9. ASSUME NEW w \in Workers, FinishServerSpan(w) PROVE TypeOK' /\ RequestsInHand'
  <2>1. gatewaySpan[w] \in SpanType /\ FinishSpan(gatewaySpan[w])
    BY <1>9 DEF FinishServerSpan, TypeOK
  <2>2. TypeOK'
    BY <1>9, <1>d, <2>1 DEF FinishServerSpan, TypeOK, Goto
  <2> QED BY <1>9, <1>c, <2>2 DEF FinishServerSpan
<1>10. ASSUME NEW w \in Workers, Return(w) PROVE TypeOK' /\ RequestsInHand'
  <2>1. /\ pc'[w] = "idle" /\ \A v \in Workers : v # w => pc'[v] = pc[v]
        /\ w \in InHand
    BY <1>10, GotoDoes DEF Return, InHand
  <2>2. {v \in Workers : pc'[v] # "idle"} = InHand \ {w}
    BY <2>1 DEF InHand
  <2>3. /\ Cardinality(InHand \ {w}) = Cardinality(InHand) - 1
        /\ Cardinality(InHand) > 0 /\ Cardinality(InHand) \in Nat
    BY <1>a, <2>1, CountWorkers
  <2>4. arrived' \in 0 .. MaxRequests /\ answered' \in 0 .. arrived'
    BY <1>10, <1>a, <2>3, GatewayAssumption DEF Return, TypeOK
  <2>5. TypeOK'
    BY <1>10, <1>b, <2>4 DEF Return, TypeOK, Statuses, Goto, tracer
  <2>6. RequestsInHand'
    <3>1. /\ arrived' = arrived /\ answered' = answered + 1
          /\ answered \in Nat /\ arrived \in Nat
      BY <1>10, GatewayAssumption DEF Return, TypeOK
    <3>2. arrived' = answered' + Cardinality(InHand \ {w})
      BY <1>a, <2>3, <3>1
    <3> QED BY <2>2, <3>2, Zenon DEF RequestsInHand
  <2> QED BY <2>5, <2>6
<1>11. ASSUME NEW x \in exporters, Export(x) PROVE TypeOK' /\ RequestsInHand'
  BY <1>11 DEF Export, TypeOK, RequestsInHand
<1>12. CASE UNCHANGED vars
  BY <1>12 DEF vars, tracer, TypeOK, RequestsInHand
<1> QED
  BY <1>1, <1>2, <1>3, <1>4, <1>5, <1>6, <1>7, <1>8, <1>9, <1>10, <1>11, <1>12
  DEF Next, Finished

\* Every state is well typed: in particular the ring never grows past its size
\* (FinishSpan) and no response is returned without a request.
THEOREM TypeCorrect == Spec => []TypeOK
<1>1. Init => TypeOK /\ RequestsInHand
  <2>1. ASSUME Init PROVE TypeOK
    BY <2>1, GatewayAssumption
    DEF Init, TypeOK, SpanType, EmptySpan, NoId, Statuses
  <2>2. ASSUME Init PROVE RequestsInHand
    <3>1. {w \in Workers : pc[w] # "idle"} = {}
      BY <2>2 DEF Init
    <3>2. arrived = answered + 0 /\ Cardinality({}) = 0
      BY <2>2, FS_EmptySet DEF Init
    <3> QED BY <3>1, <3>2, Zenon DEF RequestsInHand
  <2> QED BY <2>1, <2>2
<1> QED BY <1>1, TypeStep, PTL DEF Spec

\* Only FinishSpan touches the ring, and only with a span of a running handler.
LEMMA RingSteps ==
    ASSUME TypeOK, [Next]_vars
    PROVE  \/ UNCHANGED <<finishedSpans, completed>>
           \/ \E s \in SpanType :
                finishedSpans' = Pushed(s) /\ completed' = Append(completed, s)
<1>1. ASSUME NEW w \in Workers,
             \/ Arrive(w) \/ GenerateTraceId(w) \/ GenerateSpanId(w) \/ Reject(w)
             \/ StartClientSpan(w) \/ Forward(w) \/ RecordRequest(w) \/ Return(w)
      PROVE  UNCHANGED <<finishedSpans, completed>>
  BY <1>1 DEF Arrive, GenerateTraceId, GenerateSpanId, Reject, StartClientSpan, Forward,
              RecordRequest, Return, tracer
<1>2. ASSUME NEW w \in Workers, FinishClientSpan(w) \/ FinishServerSpan(w)
      PROVE  \E s \in SpanType : FinishSpan(s)
  BY <1>2 DEF FinishClientSpan, FinishServerSpan, TypeOK
<1>3. ASSUME NEW x \in exporters, Export(x) PROVE UNCHANGED <<finishedSpans, completed>>
  BY <1>3 DEF Export
<1>4. CASE UNCHANGED vars
  BY <1>4 DEF vars, tracer
<1> QED BY <1>1, <1>2, <1>3, <1>4, FinishDoes DEF Next, Finished

\* /debug/traces shows the newest spans, in order and all that fit (FinishSpan).
THEOREM RingIsNewest == Spec => []RingHoldsNewest
<1> DEFINE Full == Len(finishedSpans) = IF Len(completed) < MaxFinishedSpans
                                          THEN Len(completed) ELSE MaxFinishedSpans
           Newest == \A i \in 1 .. Len(finishedSpans) :
                       finishedSpans[i] = completed[Len(completed) - Len(finishedSpans) + i]
           RingInv == Full /\ Newest
<1>1. Init => RingInv
  BY GatewayAssumption DEF Init
<1>2. TypeOK /\ RingInv /\ [Next]_vars => RingInv'
  <2> SUFFICES ASSUME TypeOK, RingInv, [Next]_vars PROVE RingInv'
    OBVIOUS
  <2>1. CASE UNCHANGED <<finishedSpans, completed>>
    BY <2>1
  <2>2. ASSUME NEW s \in SpanType,
               finishedSpans' = Pushed(s), completed' = Append(completed, s)
        PROVE  RingInv'
    <3>1. /\ finishedSpans \in Seq(SpanType) /\ completed \in Seq(SpanType)
          /\ Len(finishedSpans) \in Nat /\ Len(completed) \in Nat
          /\ MaxFinishedSpans \in Nat \ {0}
      BY GatewayAssumption DEF TypeOK
    <3>2. /\ Len(completed') = Len(completed) + 1
          /\ \A i \in 1 .. Len(completed) : completed'[i] = completed[i]
          /\ completed'[Len(completed) + 1] = s
      BY <2>2, <3>1
    <3>3. CASE Len(completed) < MaxFinishedSpans
      <4>1. Len(finishedSpans) = Len(completed) /\ finishedSpans' = Append(finishedSpans, s)
        BY <2>2, <3>1, <3>3, PushedDoes
      <4>2. /\ Len(finishedSpans') = Len(completed) + 1
            /\ \A i \in 1 .. Len(completed) : finishedSpans'[i] = completed[i]
            /\ finishedSpans'[Len(completed) + 1] = s
        <5>1. ASSUME NEW i \in 1 .. Len(completed) PROVE finishedSpans[i] = completed[i]
          <6>1. Len(completed) - Len(finishedSpans) + i = i
            BY <3>1, <4>1, SMTT(40)
          <6>2. finishedSpans[i] = completed[Len(completed) - Len(finishedSpans) + i]
            BY <4>1
          <6> QED BY <6>1, <6>2
        <5>2. /\ Len(finishedSpans') = Len(finishedSpans) + 1
              /\ \A i \in 1 .. Len(finishedSpans) : finishedSpans'[i] = finishedSpans[i]
              /\ finishedSpans'[Len(finishedSpans) + 1] = s
          BY <3>1, <4>1
        <5> QED BY <4>1, <5>1, <5>2
      <4>3. Full'
        BY <3>1, <3>2, <3>3, <4>2
      <4>4. Newest'
        BY <3>1, <3>2, <4>2
      <4> QED BY <4>3, <4>4
    <3>4. CASE Len(completed) >= MaxFinishedSpans
      <4>1. /\ Len(finishedSpans) = MaxFinishedSpans
            /\ Len(finishedSpans') = MaxFinishedSpans
            /\ \A i \in 1 .. MaxFinishedSpans :
                 finishedSpans'[i] = IF i = MaxFinishedSpans THEN s ELSE finishedSpans[i + 1]
        <5>1. Len(finishedSpans) = MaxFinishedSpans
          BY <3>1, <3>4
        <5> HIDE DEF RingInv
        <5> QED BY <2>2, <5>1, PushedDoes
      <4>2. Full'
        BY <3>1, <3>2, <3>4, <4>1
      <4>3. ASSUME NEW i \in 1 .. MaxFinishedSpans
            PROVE  finishedSpans'[i] = completed'[(Len(completed) + 1) - MaxFinishedSpans + i]
        <5>1. CASE i = MaxFinishedSpans
          BY <3>1, <3>2, <4>1, <5>1
        <5>2. CASE i # MaxFinishedSpans
          <6>1. i + 1 \in 1 .. MaxFinishedSpans
            BY <3>1, <5>2
          <6>2. finishedSpans'[i] = completed[Len(completed) - MaxFinishedSpans + (i + 1)]
            BY <4>1, <5>2, <6>1
          <6>3. /\ Len(completed) - MaxFinishedSpans + (i + 1)
                     = (Len(completed) + 1) - MaxFinishedSpans + i
                /\ (Len(completed) + 1) - MaxFinishedSpans + i \in 1 .. Len(completed)
            BY <3>1, <3>4, <6>1
          <6> QED BY <3>2, <6>2, <6>3
        <5> QED BY <5>1, <5>2
      <4>4. Newest'
        BY <3>2, <4>1, <4>3
      <4> QED BY <4>2, <4>4
    <3> QED BY <3>1, <3>3, <3>4
  <2> HIDE DEF RingInv
  <2> QED BY <2>1, <2>2, RingSteps
<1>3. TypeOK /\ RingInv => RingHoldsNewest
  <2> SUFFICES ASSUME TypeOK, RingInv PROVE RingHoldsNewest
    OBVIOUS
  <2>1. /\ finishedSpans \in Seq(SpanType) /\ completed \in Seq(SpanType)
        /\ Len(finishedSpans) <= Len(completed)
    BY GatewayAssumption DEF TypeOK
  <2>2. IsSuffix(finishedSpans, completed)
    BY <2>1, SuffixAt
  <2> QED BY <2>2 DEF RingHoldsNewest
<1> HIDE DEF RingInv
<1> QED BY <1>1, <1>2, <1>3, TypeCorrect, PTL DEF Spec

\* Every answered request was counted once (finish), whichever way its handler
\* took: the counters are the answers and the handlers between RecordRequest
\* and their return.
THEOREM MetricsCountAnswers == Spec => []MetricsAddUp
<1> DEFINE Counted == {w \in Workers : pc[w] \in {"finishServer", "done"}}
           Total == metrics["ok"] + metrics["rejected"] + metrics["failed"]
<1>1. Init => MetricsAddUp
  <2> SUFFICES ASSUME Init PROVE MetricsAddUp
    OBVIOUS
  <2>1. Counted = {}
    BY DEF Init
  <2>2. Total = answered + 0 /\ Cardinality({}) = 0
    BY FS_EmptySet DEF Init, Statuses
  <2> QED BY <2>1, <2>2, Zenon DEF MetricsAddUp
<1>2. TypeOK /\ MetricsAddUp /\ [Next]_vars => MetricsAddUp'
  <2> SUFFICES ASSUME TypeOK, MetricsAddUp, [Next]_vars PROVE MetricsAddUp'
    OBVIOUS
  <2>0. /\ Total = answered + Cardinality(Counted) /\ Counted \in SUBSET Workers
        /\ Total \in Nat /\ answered \in Nat
    BY DEF MetricsAddUp, TypeOK, Statuses
  <2>1. ASSUME UNCHANGED <<metrics, answered>>, Counted' = Counted PROVE MetricsAddUp'
    BY <2>0, <2>1, Zenon DEF MetricsAddUp
  <2>2. ASSUME NEW w \in Workers,
               \/ Arrive(w) \/ GenerateTraceId(w) \/ GenerateSpanId(w) \/ Reject(w)
               \/ StartClientSpan(w) \/ Forward(w) \/ FinishClientSpan(w)
               \/ FinishServerSpan(w)
        PROVE  MetricsAddUp'
    <3>1. UNCHANGED <<metrics, answered>>
      BY <2>2 DEF Arrive, GenerateTraceId, GenerateSpanId, Reject, StartClientSpan, Forward,
                  FinishClientSpan, FinishServerSpan
    <3>2. /\ pc'[w] \in {"finishServer", "done"} <=> pc[w] \in {"finishServer", "done"}
          /\ \A v \in Workers : v # w => pc'[v] = pc[v]
      BY <2>2 DEF Arrive, GenerateTraceId, GenerateSpanId, Reject, StartClientSpan, Forward,
                  FinishClientSpan, FinishServerSpan, TypeOK, Goto
    <3>3. Counted' = Counted
      BY <3>2
    <3> QED BY <2>1, <3>1, <3>3
  <2>3. ASSUME NEW w \in Workers, RecordRequest(w) PROVE MetricsAddUp'
    <3>1. /\ pc'[w] = "finishServer" /\ pc[w] = "metrics"
          /\ \A v \in Workers : v # w => pc'[v] = pc[v]
      BY <2>3, GotoDoes DEF RecordRequest
    <3>2. Counted' = Counted \cup {w} /\ w \in Workers \ Counted
      BY <3>1
    <3>3. Cardinality(Counted \cup {w}) = Cardinality(Counted) + 1 /\ Cardinality(Counted) \in Nat
      BY <2>0, <3>2, CountWorkers
    <3>4. Total' = Total + 1 /\ answered' = answered
      BY <2>3 DEF RecordRequest, TypeOK, Statuses
    <3>5. Total' = answered' + Cardinality(Counted \cup {w})
      BY <2>0, <3>3, <3>4
    <3> QED BY <3>2, <3>5, Zenon DEF MetricsAddUp
  <2>4. ASSUME NEW w \in Workers, Return(w) PROVE MetricsAddUp'
    <3>1. /\ pc'[w] = "idle" /\ pc[w] = "done"
          /\ \A v \in Workers : v # w => pc'[v] = pc[v]
      BY <2>4, GotoDoes DEF Return
    <3>2. Counted' = Counted \ {w} /\ w \in Counted
      BY <3>1
    <3>3. Cardinality(Counted \ {w}) = Cardinality(Counted) - 1 /\ Cardinality(Counted) \in Nat
      BY <2>0, <3>2, CountWorkers
    <3>4. Total' = Total /\ answered' = answered + 1
      BY <2>4 DEF Return
    <3>5. Total' = answered' + Cardinality(Counted \ {w})
      BY <2>0, <3>3, <3>4
    <3> QED BY <3>2, <3>5, Zenon DEF MetricsAddUp
  <2>5. ASSUME NEW x \in exporters, Export(x) PROVE MetricsAddUp'
    BY <2>5, <2>1 DEF Export
  <2>6. CASE UNCHANGED vars
    BY <2>6, <2>1 DEF vars
  <2> QED BY <2>2, <2>3, <2>4, <2>5, <2>6 DEF Next, Finished
<1> QED BY <1>1, <1>2, TypeCorrect, PTL DEF Spec
-----------------------------------------------------------------------------

\* A step of Handle.
Step(w) ==
    \/ Arrive(w) \/ GenerateTraceId(w) \/ GenerateSpanId(w) \/ Reject(w)
    \/ StartClientSpan(w) \/ Forward(w) \/ FinishClientSpan(w)
    \/ RecordRequest(w) \/ FinishServerSpan(w) \/ Return(w)

\* A handler works on spans of its own, and ids are only counted up.
LEMMA StepFrame ==
    ASSUME TypeOK, NEW w \in Workers, Step(w)
    PROVE  /\ \A v \in Workers \ {w} :
                /\ gatewaySpan'[v] = gatewaySpan[v] /\ upstreamSpan'[v] = upstreamSpan[v]
                /\ pc'[v] = pc[v]
           /\ idCounter' \in {idCounter, idCounter + 1}
<1> USE DEF TypeOK, Goto, tracer
<1>1. CASE Arrive(w)
  BY <1>1 DEF Arrive
<1>2. CASE GenerateTraceId(w) \/ GenerateSpanId(w)
  BY <1>2 DEF GenerateTraceId, GenerateSpanId
<1>3. CASE StartClientSpan(w)
  BY <1>3 DEF StartClientSpan
<1>4. CASE Reject(w) \/ Forward(w) \/ RecordRequest(w)
  BY <1>4 DEF Reject, Forward, RecordRequest
<1>5. CASE FinishClientSpan(w) \/ FinishServerSpan(w)
  BY <1>5 DEF FinishClientSpan, FinishServerSpan
<1>6. CASE Return(w)
  BY <1>6 DEF Return
<1> QED BY <1>1, <1>2, <1>3, <1>4, <1>5, <1>6 DEF Step

\* What the steps that give a span its ids make of it.
LEMMA IdSteps ==
    ASSUME TypeOK, NEW w \in Workers
    PROVE  /\ Arrive(w) =>
                /\ \/ gatewaySpan'[w] = gatewaySpan[w] /\ pc'[w] = "route"
                   \/ /\ gatewaySpan'[w].span = NoId /\ gatewaySpan'[w].kind = "server"
                      /\ \/ pc'[w] = "traceId"
                         \/ pc'[w] = "spanId" /\ gatewaySpan'[w].trace # NoId
                /\ pc[w] = "idle"
                /\ UNCHANGED <<upstreamSpan, idCounter, completed>>
           /\ GenerateTraceId(w) =>
                /\ pc[w] = "traceId" /\ pc'[w] = "spanId" /\ idCounter' = idCounter + 1
                /\ gatewaySpan'[w].trace = idCounter + 1
                /\ gatewaySpan'[w].span = gatewaySpan[w].span
                /\ gatewaySpan'[w].kind = gatewaySpan[w].kind
                /\ UNCHANGED <<upstreamSpan, completed>>
           /\ GenerateSpanId(w) =>
                /\ pc[w] = "spanId" /\ pc'[w] = "route" /\ idCounter' = idCounter + 1
                /\ gatewaySpan'[w].span = idCounter + 1
                /\ gatewaySpan'[w].trace = gatewaySpan[w].trace
                /\ gatewaySpan'[w].kind = gatewaySpan[w].kind
                /\ UNCHANGED <<upstreamSpan, completed>>
           /\ StartClientSpan(w) =>
                /\ pc[w] = "route" /\ pc'[w] = "forward"
                /\ UNCHANGED <<gatewaySpan, completed>>
                /\ \/ gatewaySpan[w].trace = NoId /\ UNCHANGED <<upstreamSpan, idCounter>>
                   \/ /\ gatewaySpan[w].trace # NoId /\ idCounter' = idCounter + 1
                      /\ upstreamSpan'[w].span = idCounter + 1
                      /\ upstreamSpan'[w].trace = gatewaySpan[w].trace
                      /\ upstreamSpan'[w].parent = gatewaySpan[w].span
                      /\ upstreamSpan'[w].kind = "client"
<1>0. /\ gatewaySpan \in [Workers -> SpanType] /\ upstreamSpan \in [Workers -> SpanType]
      /\ pc \in [Workers -> {"idle", "traceId", "spanId", "route", "forward",
                             "finishClient", "metrics", "finishServer", "done"}]
  BY DEF TypeOK
<1>1. ASSUME Arrive(w)
      PROVE  /\ \/ gatewaySpan'[w] = gatewaySpan[w] /\ pc'[w] = "route"
                \/ /\ gatewaySpan'[w].span = NoId /\ gatewaySpan'[w].kind = "server"
                   /\ \/ pc'[w] = "traceId"
                      \/ pc'[w] = "spanId" /\ gatewaySpan'[w].trace # NoId
             /\ pc[w] = "idle"
             /\ UNCHANGED <<upstreamSpan, idCounter, completed>>
  <2>1. CASE Goto(w, "route") /\ UNCHANGED gatewaySpan
    BY <1>0, <1>1, <2>1 DEF Arrive, Goto, tracer
  <2>2. ASSUME NEW t \in IncomingTraces \cup {NoId}, NEW p \in IncomingSpans \cup {NoId},
               gatewaySpan' = [gatewaySpan EXCEPT ![w] =
                 [trace |-> t, span |-> NoId, parent |-> p, kind |-> "server"]],
               Goto(w, IF t = NoId THEN "traceId" ELSE "spanId")
        PROVE  /\ gatewaySpan'[w].span = NoId /\ gatewaySpan'[w].kind = "server"
               /\ \/ pc'[w] = "traceId"
                  \/ pc'[w] = "spanId" /\ gatewaySpan'[w].trace # NoId
    BY <1>0, <2>2 DEF Goto
  <2> QED BY <1>1, <2>1, <2>2 DEF Arrive, tracer
<1>2. ASSUME GenerateTraceId(w)
      PROVE  gatewaySpan'[w] = [gatewaySpan[w] EXCEPT !.trace = idCounter + 1]
  BY <1>0, <1>2 DEF GenerateTraceId
<1>3. ASSUME GenerateSpanId(w)
      PROVE  gatewaySpan'[w] = [gatewaySpan[w] EXCEPT !.span = idCounter + 1]
  BY <1>0, <1>3 DEF GenerateSpanId
<1>4. ASSUME StartClientSpan(w)
      PROVE  /\ UNCHANGED <<gatewaySpan, completed>>
             /\ \/ gatewaySpan[w].trace = NoId /\ UNCHANGED <<upstreamSpan, idCounter>>
                \/ /\ gatewaySpan[w].trace # NoId /\ idCounter' = idCounter + 1
                   /\ upstreamSpan'[w] = [trace |-> gatewaySpan[w].trace, span |-> idCounter + 1,
                                          parent |-> gatewaySpan[w].span, kind |-> "client"]
  BY <1>0, <1>4 DEF StartClientSpan
<1>5. GenerateTraceId(w) =>
        /\ pc[w] = "traceId" /\ pc'[w] = "spanId" /\ idCounter' = idCounter + 1
        /\ UNCHANGED <<upstreamSpan, completed>>
  BY <1>0 DEF GenerateTraceId, Goto
<1>6. GenerateSpanId(w) =>
        /\ pc[w] = "spanId" /\ pc'[w] = "route" /\ idCounter' = idCounter + 1
        /\ UNCHANGED <<upstreamSpan, completed>>
  BY <1>0 DEF GenerateSpanId, Goto
<1>7. StartClientSpan(w) => pc[w] = "route" /\ pc'[w] = "forward"
  BY <1>0 DEF StartClientSpan, Goto
<1>8. gatewaySpan[w] \in SpanType
  BY <1>0
<1>9. GenerateTraceId(w) =>
         /\ gatewaySpan'[w].trace = idCounter + 1
         /\ gatewaySpan'[w].span = gatewaySpan[w].span
         /\ gatewaySpan'[w].kind = gatewaySpan[w].kind
  BY <1>2, <1>8 DEF SpanType
<1>10. GenerateSpanId(w) =>
         /\ gatewaySpan'[w].span = idCounter + 1
         /\ gatewaySpan'[w].trace = gatewaySpan[w].trace
         /\ gatewaySpan'[w].kind = gatewaySpan[w].kind
  BY <1>3, <1>8 DEF SpanType
<1> QED BY <1>1, <1>4, <1>5, <1>6, <1>7, <1>9, <1>10

\* What the other steps of Handle do to pc and to the spans.
LEMMA PlainSteps ==
    ASSUME TypeOK, NEW w \in Workers
    PROVE  /\ Reject(w) \/ Forward(w) \/ RecordRequest(w) =>
                /\ UNCHANGED <<gatewaySpan, upstreamSpan, idCounter, completed>>
                /\ <<pc[w], pc'[w]>> \in {<<"route", "metrics">>, <<"forward", "finishClient">>,
                                          <<"metrics", "finishServer">>}
           /\ Return(w) =>
                /\ pc[w] = "done" /\ pc'[w] = "idle"
                /\ gatewaySpan'[w] = EmptySpan /\ upstreamSpan'[w] = EmptySpan
                /\ UNCHANGED <<idCounter, completed>>
           /\ FinishClientSpan(w) =>
                /\ pc[w] = "finishClient" /\ pc'[w] = "metrics"
                /\ UNCHANGED <<gatewaySpan, upstreamSpan, idCounter>>
                /\ \/ UNCHANGED completed
                   \/ /\ upstreamSpan[w].span # NoId
                      /\ completed' = Append(completed, upstreamSpan[w])
           /\ FinishServerSpan(w) =>
                /\ pc[w] = "finishServer" /\ pc'[w] = "done"
                /\ UNCHANGED <<gatewaySpan, upstreamSpan, idCounter>>
                /\ \/ /\ gatewaySpan[w].span = NoId \/ gatewaySpan[w].trace = NoId
                      /\ UNCHANGED completed
                   \/ /\ gatewaySpan[w].span # NoId
                      /\ completed' = Append(completed, gatewaySpan[w])
<1>1. pc \in [Workers -> {"idle", "traceId", "spanId", "route", "forward",
                          "finishClient", "metrics", "finishServer", "done"}]
      /\ gatewaySpan[w] \in SpanType /\ upstreamSpan[w] \in SpanType
  BY DEF TypeOK
<1>2. Reject(w) \/ Forward(w) \/ RecordRequest(w) =>
        /\ UNCHANGED <<gatewaySpan, upstreamSpan, idCounter, completed>>
        /\ <<pc[w], pc'[w]>> \in {<<"route", "metrics">>, <<"forward", "finishClient">>,
                                  <<"metrics", "finishServer">>}
  BY <1>1 DEF Reject, Forward, RecordRequest, Goto, tracer
<1>3. Return(w) =>
        /\ pc[w] = "done" /\ pc'[w] = "idle"
        /\ gatewaySpan'[w] = EmptySpan /\ upstreamSpan'[w] = EmptySpan
        /\ UNCHANGED <<idCounter, completed>>
  BY <1>1 DEF Return, Goto, tracer, TypeOK
<1>4. FinishClientSpan(w) =>
        /\ pc[w] = "finishClient" /\ pc'[w] = "metrics"
        /\ UNCHANGED <<gatewaySpan, upstreamSpan, idCounter>>
        /\ FinishSpan(upstreamSpan[w])
  BY <1>1 DEF FinishClientSpan, Goto
<1>5. FinishServerSpan(w) =>
        /\ pc[w] = "finishServer" /\ pc'[w] = "done"
        /\ UNCHANGED <<gatewaySpan, upstreamSpan, idCounter>>
        /\ FinishSpan(gatewaySpan[w])
  BY <1>1 DEF FinishServerSpan, Goto
<1>6. FinishSpan(upstreamSpan[w]) =>
        \/ UNCHANGED completed
        \/ upstreamSpan[w].span # NoId /\ completed' = Append(completed, upstreamSpan[w])
  BY <1>1, FinishDoes
<1>7. FinishSpan(gatewaySpan[w]) =>
        \/ /\ gatewaySpan[w].span = NoId \/ gatewaySpan[w].trace = NoId
           /\ UNCHANGED completed
        \/ gatewaySpan[w].span # NoId /\ completed' = Append(completed, gatewaySpan[w])
  BY <1>1, FinishDoes
<1> QED BY <1>2, <1>3, <1>4, <1>5, <1>6, <1>7

\* What a live span of a worker is stays so in every step.
LEMMA LiveStep ==
    ASSUME TypeOK, \A w \in Workers : LiveSpan(w), [Next]_vars
    PROVE  \A w \in Workers : LiveSpan(w)'
<1>0. idCounter \in Nat /\ NoId = 0
  BY DEF TypeOK, NoId
<1>1. ASSUME NEW w \in Workers, Step(w) PROVE \A v \in Workers : LiveSpan(v)'
  <2>1. ASSUME NEW v \in Workers \ {w} PROVE LiveSpan(v)'
    BY <1>0, <1>1, StepFrame DEF LiveSpan
  <2>2. LiveSpan(w)'
    <3>1. CASE Arrive(w)
      BY <1>0, <3>1, IdSteps DEF LiveSpan
    <3>2. CASE GenerateTraceId(w)
      BY <1>0, <3>2, IdSteps DEF LiveSpan
    <3>3. CASE GenerateSpanId(w)
      BY <1>0, <3>3, IdSteps DEF LiveSpan
    <3>4. CASE StartClientSpan(w)
      BY <1>0, <3>4, IdSteps DEF LiveSpan
    <3>5. CASE Reject(w) \/ Forward(w) \/ RecordRequest(w)
      BY <1>0, <3>5, PlainSteps DEF LiveSpan
    <3>6. CASE FinishClientSpan(w) \/ FinishServerSpan(w)
      BY <1>0, <3>6, PlainSteps DEF LiveSpan
    <3>7. CASE Return(w)
      BY <1>0, <3>7, PlainSteps DEF LiveSpan, EmptySpan
    <3> QED BY <1>1, <3>1, <3>2, <3>3, <3>4, <3>5, <3>6, <3>7 DEF Step
  <2> QED BY <2>1, <2>2
<1>2. CASE UNCHANGED <<pc, gatewaySpan, upstreamSpan, idCounter>>
  BY <1>2 DEF LiveSpan
<1>3. ASSUME NEW x \in exporters, Export(x)
      PROVE  UNCHANGED <<pc, gatewaySpan, upstreamSpan, idCounter>>
  BY <1>3 DEF Export
<1>4. CASE UNCHANGED vars
  BY <1>2, <1>4 DEF vars, tracer
<1> QED BY <1>1, <1>2, <1>3, <1>4 DEF Next, Finished, Step

\* Recording a span adds it at the end.
LEMMA Recorded ==
    ASSUME TypeOK, NEW s \in SpanType, completed' = Append(completed, s)
    PROVE  /\ DOMAIN completed = 1 .. Len(completed) /\ Len(completed) \in Nat
           /\ Len(completed') = Len(completed) + 1
           /\ DOMAIN completed' = DOMAIN completed \cup {Len(completed) + 1}
           /\ \A m \in DOMAIN completed : completed'[m] = completed[m]
           /\ completed'[Len(completed) + 1] = s
  BY DEF TypeOK

\* Handlers keep their ids apart, and so do the recorded spans: an id is given
\* out once, and a span is recorded at one place of its handler only.
LEMMA IdsStep ==
    ASSUME TypeOK, \A w \in Workers : LiveSpan(w), IdsApart, SpanIdsUnique, [Next]_vars
    PROVE  IdsApart' /\ SpanIdsUnique'
<1>0. /\ idCounter \in Nat /\ NoId = 0
      /\ \A v \in Workers : /\ gatewaySpan[v].span \in 0 .. idCounter
                            /\ upstreamSpan[v].span \in 0 .. idCounter
                            /\ gatewaySpan[v] \in SpanType /\ upstreamSpan[v] \in SpanType
  BY DEF TypeOK, NoId, LiveSpan
<1>1. ASSUME NEW w \in Workers, Step(w) PROVE IdsApart' /\ SpanIdsUnique'
  <2>0. /\ \A v \in Workers \ {w} :
             /\ gatewaySpan'[v] = gatewaySpan[v] /\ upstreamSpan'[v] = upstreamSpan[v]
             /\ pc'[v] = pc[v]
        /\ idCounter' \in {idCounter, idCounter + 1}
    BY <1>1, StepFrame
  <2>1. CASE \/ Arrive(w) \/ GenerateTraceId(w)
             \/ Reject(w) \/ Forward(w) \/ RecordRequest(w)
    <3>1. /\ gatewaySpan'[w].span = gatewaySpan[w].span
          /\ upstreamSpan'[w].span = upstreamSpan[w].span
          /\ UNCHANGED completed
          /\ pc[w] # "done" /\ pc'[w] # "done"
          /\ pc[w] \in {"metrics", "finishServer", "done"} =>
               pc'[w] \in {"metrics", "finishServer", "done"}
      BY <2>1, IdSteps, PlainSteps DEF LiveSpan
    <3>2. \A v \in Workers : /\ gatewaySpan'[v].span = gatewaySpan[v].span
                             /\ upstreamSpan'[v].span = upstreamSpan[v].span
      BY <2>0, <3>1
    <3>3. IdsApart'
      BY <1>0, <2>0, <3>1, <3>2 DEF IdsApart
    <3> QED BY <3>1, <3>3 DEF SpanIdsUnique
  <2>2. CASE GenerateSpanId(w)
    <3>1. /\ gatewaySpan'[w].span = idCounter + 1 /\ idCounter' = idCounter + 1
          /\ UNCHANGED <<upstreamSpan, completed>>
          /\ pc[w] = "spanId"
      BY <2>2, IdSteps
    <3>2. IdsApart'
      BY <1>0, <2>0, <3>1 DEF IdsApart, LiveSpan
    <3> QED BY <3>1, <3>2 DEF SpanIdsUnique
  <2>3. CASE StartClientSpan(w)
    <3>1. /\ UNCHANGED <<gatewaySpan, completed>>
          /\ pc[w] = "route" /\ pc'[w] = "forward"
          /\ \/ upstreamSpan'[w].span = upstreamSpan[w].span /\ idCounter' = idCounter
             \/ upstreamSpan'[w].span = idCounter + 1 /\ idCounter' = idCounter + 1
      BY <2>3, IdSteps
    <3>2. IdsApart'
      BY <1>0, <2>0, <3>1 DEF IdsApart, LiveSpan
    <3> QED BY <3>1, <3>2 DEF SpanIdsUnique
  <2>4. CASE Return(w)
    <3>1. /\ gatewaySpan'[w].span = NoId /\ upstreamSpan'[w].span = NoId
          /\ UNCHANGED <<idCounter, completed>>
      BY <2>4, PlainSteps DEF EmptySpan
    <3>2. IdsApart'
      BY <1>0, <2>0, <3>1 DEF IdsApart
    <3> QED BY <3>1, <3>2 DEF SpanIdsUnique
  <2>5. ASSUME NEW s \in SpanType, UNCHANGED <<gatewaySpan, upstreamSpan, idCounter>>,
               \/ UNCHANGED completed
               \/ s.span # NoId /\ completed' = Append(completed, s),
               \/ /\ s = upstreamSpan[w]
                  /\ pc[w] = "finishClient" /\ pc'[w] = "metrics"
               \/ /\ s = gatewaySpan[w]
                  /\ pc[w] = "finishServer" /\ pc'[w] = "done"
        PROVE  IdsApart' /\ SpanIdsUnique'
    <3>1. CASE UNCHANGED completed
      <4>1. IdsApart'
        BY <2>0, <2>5, <3>1 DEF IdsApart
      <4> QED BY <3>1, <4>1 DEF SpanIdsUnique
    <3>2. CASE s.span # NoId /\ completed' = Append(completed, s)
      <4>1. /\ DOMAIN completed = 1 .. Len(completed) /\ Len(completed) \in Nat
            /\ DOMAIN completed' = DOMAIN completed \cup {Len(completed) + 1}
            /\ \A m \in DOMAIN completed : completed'[m] = completed[m]
            /\ completed'[Len(completed) + 1] = s
        BY <3>2, Recorded
      <4>2. \A m \in DOMAIN completed : completed[m].span # s.span
        BY <2>5 DEF IdsApart
      <4>3. SpanIdsUnique'
        BY <4>1, <4>2 DEF SpanIdsUnique
      <4>4. s.span \in 1 .. idCounter
        BY <1>0, <2>5, <3>2
      <4>5. \A v \in Workers :
              /\ s.span = gatewaySpan[v].span => v = w /\ pc'[w] = "done"
              /\ s.span = upstreamSpan[v].span =>
                   v = w /\ pc'[w] \in {"metrics", "finishServer", "done"}
        BY <2>5, <3>2 DEF IdsApart
      <4>6. \A m \in DOMAIN completed' :
              /\ completed'[m].span \in 1 .. idCounter
              /\ \A v \in Workers :
                   /\ completed'[m].span = gatewaySpan[v].span => pc'[v] = "done"
                   /\ completed'[m].span = upstreamSpan[v].span =>
                        pc'[v] \in {"metrics", "finishServer", "done"}
        BY <2>0, <2>5, <4>1, <4>4, <4>5 DEF IdsApart
      <4>7. IdsApart'
        BY <2>5, <4>6 DEF IdsApart
      <4> QED BY <4>3, <4>7
    <3> QED BY <2>5, <3>1, <3>2
  <2>6. CASE FinishClientSpan(w)
    BY <1>0, <2>5, <2>6, PlainSteps
  <2>7. CASE FinishServerSpan(w)
    BY <1>0, <2>5, <2>7, PlainSteps
  <2> QED BY <1>1, <2>1, <2>2, <2>3, <2>4, <2>6, <2>7 DEF Step
<1>2. CASE UNCHANGED <<pc, gatewaySpan, upstreamSpan, idCounter, completed>>
  BY <1>2 DEF IdsApart, SpanIdsUnique
<1>3. ASSUME NEW x \in exporters, Export(x)
      PROVE  UNCHANGED <<pc, gatewaySpan, upstreamSpan, idCounter, completed>>
  BY <1>3 DEF Export
<1>4. CASE UNCHANGED vars
  BY <1>2, <1>4 DEF vars, tracer
<1> QED BY <1>1, <1>2, <1>3, <1>4 DEF Next, Finished, Step

\* A client span that was recorded keeps the gateway span it waits for, until
\* that is recorded after it.
LEMMA ParentsStep ==
    ASSUME TypeOK, \A w \in Workers : LiveSpan(w), ParentsToCome, [Next]_vars
    PROVE  ParentsToCome'
<1>0. /\ NoId = 0
      /\ \A v \in Workers : gatewaySpan[v] \in SpanType /\ upstreamSpan[v] \in SpanType
      /\ DOMAIN completed = 1 .. Len(completed) /\ Len(completed) \in Nat
  BY DEF TypeOK, NoId
<1>1. ASSUME NEW w \in Workers, Step(w) PROVE ParentsToCome'
  <2>0. \A v \in Workers \ {w} : gatewaySpan'[v] = gatewaySpan[v] /\ pc'[v] = pc[v]
    BY <1>1, StepFrame
  \* A step that records nothing, and loses no gateway span that has its id and
  \* is still to be recorded.
  <2>1. ASSUME UNCHANGED completed,
               pc[w] # "done" /\ gatewaySpan[w].span # NoId =>
                 /\ gatewaySpan'[w].span = gatewaySpan[w].span
                 /\ gatewaySpan'[w].trace = gatewaySpan[w].trace
                 /\ pc'[w] # "done"
        PROVE  ParentsToCome'
    BY <2>0, <2>1 DEF ParentsToCome
  <2>2. CASE Arrive(w) \/ GenerateTraceId(w) \/ GenerateSpanId(w)
    BY <2>1, <2>2, IdSteps DEF LiveSpan
  <2>3. CASE StartClientSpan(w)
    BY <2>1, <2>3, IdSteps
  <2>4. CASE Reject(w) \/ Forward(w) \/ RecordRequest(w) \/ Return(w)
    BY <2>1, <2>4, PlainSteps
  <2>5. CASE FinishClientSpan(w)
    <3> DEFINE u == upstreamSpan[w]
    <3>1. /\ pc[w] = "finishClient" /\ pc'[w] = "metrics" /\ UNCHANGED gatewaySpan
          /\ \/ UNCHANGED completed
             \/ u.span # NoId /\ completed' = Append(completed, u)
      BY <2>5, PlainSteps
    <3>2. CASE UNCHANGED completed
      BY <2>1, <3>1, <3>2
    <3>3. CASE u.span # NoId /\ completed' = Append(completed, u)
      <4>1. /\ Len(completed') = Len(completed) + 1
            /\ DOMAIN completed' = DOMAIN completed \cup {Len(completed) + 1}
            /\ \A m \in DOMAIN completed : completed'[m] = completed[m]
            /\ completed'[Len(completed) + 1] = u
        BY <1>0, <3>3, Recorded
      <4>2. /\ u.parent = gatewaySpan[w].span /\ u.parent # NoId
            /\ u.trace = gatewaySpan[w].trace
        BY <3>3 DEF LiveSpan
      <4>3. ASSUME NEW m \in DOMAIN completed, completed[m].kind = "client"
            PROVE  /\ completed'[m].parent # NoId
                   /\ \/ \E v \in Workers :
                           /\ pc'[v] # "done"
                           /\ gatewaySpan'[v].span = completed'[m].parent
                           /\ gatewaySpan'[v].trace = completed'[m].trace
                      \/ \E n \in m + 1 .. Len(completed') :
                           /\ completed'[n].span = completed'[m].parent
                           /\ completed'[n].trace = completed'[m].trace
                           /\ completed'[n].kind = "server"
        <5>1. \A v \in Workers : pc[v] # "done" => pc'[v] # "done"
          BY <2>0, <3>1
        <5>2. /\ completed'[m] = completed[m]
              /\ \A n \in m + 1 .. Len(completed) :
                   n \in m + 1 .. Len(completed') /\ completed'[n] = completed[n]
          BY <1>0, <4>1
        <5> QED BY <3>1, <4>3, <5>1, <5>2 DEF ParentsToCome
      <4>4. /\ pc'[w] # "done" /\ u.parent # NoId
            /\ gatewaySpan'[w].span = u.parent /\ gatewaySpan'[w].trace = u.trace
        BY <3>1, <4>2
      <4> QED BY <4>1, <4>3, <4>4 DEF ParentsToCome
    <3> QED BY <3>1, <3>2, <3>3
  <2>6. CASE FinishServerSpan(w)
    <3> DEFINE g == gatewaySpan[w]
    <3>1. /\ pc[w] = "finishServer" /\ pc'[w] = "done" /\ UNCHANGED gatewaySpan
          /\ \/ (g.span = NoId \/ g.trace = NoId) /\ UNCHANGED completed
             \/ g.span # NoId /\ completed' = Append(completed, g)
      BY <2>6, PlainSteps
    <3>2. CASE (g.span = NoId \/ g.trace = NoId) /\ UNCHANGED completed
      <4>1. g.span = NoId
        BY <3>2 DEF LiveSpan
      <4> QED BY <2>1, <3>2, <4>1
    <3>3. CASE g.span # NoId /\ completed' = Append(completed, g)
      <4>1. /\ Len(completed') = Len(completed) + 1
            /\ DOMAIN completed' = DOMAIN completed \cup {Len(completed) + 1}
            /\ \A m \in DOMAIN completed : completed'[m] = completed[m]
            /\ completed'[Len(completed) + 1] = g
        BY <1>0, <3>3, Recorded
      <4>2. g.kind = "server"
        BY <3>3 DEF LiveSpan
      <4>3. ASSUME NEW m \in DOMAIN completed, completed[m].kind = "client"
            PROVE  \/ \E v \in Workers :
                        /\ pc'[v] # "done"
                        /\ gatewaySpan'[v].span = completed'[m].parent
                        /\ gatewaySpan'[v].trace = completed'[m].trace
                   \/ \E n \in m + 1 .. Len(completed') :
                        /\ completed'[n].span = completed'[m].parent
                        /\ completed'[n].trace = completed'[m].trace
                        /\ completed'[n].kind = "server"
        <5>1. CASE \E v \in Workers :
                     /\ pc[v] # "done"
                     /\ gatewaySpan[v].span = completed[m].parent
                     /\ gatewaySpan[v].trace = completed[m].trace
          <6>1. PICK v \in Workers :
                  /\ pc[v] # "done"
                  /\ gatewaySpan[v].span = completed[m].parent
                  /\ gatewaySpan[v].trace = completed[m].trace
            BY <5>1
          <6>2. CASE v = w
            <7>1. Len(completed) + 1 \in m + 1 .. Len(completed')
              BY <1>0, <4>1
            <7> QED BY <4>1, <4>2, <6>1, <6>2, <7>1
          <6>3. CASE v # w
            BY <2>0, <4>1, <6>1, <6>3
          <6> QED BY <6>2, <6>3
        <5>2. CASE \E n \in m + 1 .. Len(completed) :
                     /\ completed[n].span = completed[m].parent
                     /\ completed[n].trace = completed[m].trace
                     /\ completed[n].kind = "server"
          <6>1. PICK n \in m + 1 .. Len(completed) :
                  /\ completed[n].span = completed[m].parent
                  /\ completed[n].trace = completed[m].trace
                  /\ completed[n].kind = "server"
            BY <5>2
          <6>2. n \in DOMAIN completed /\ n \in m + 1 .. Len(completed')
            BY <1>0, <4>1
          <6> QED BY <4>1, <6>1, <6>2
        <5> QED BY <4>3, <5>1, <5>2 DEF ParentsToCome
      <4>4. ASSUME NEW m \in DOMAIN completed', completed'[m].kind = "client"
            PROVE  m \in DOMAIN completed /\ completed[m].kind = "client"
                   /\ completed'[m].parent # NoId
        BY <4>1, <4>2, <4>4 DEF ParentsToCome
      <4> QED BY <4>3, <4>4 DEF ParentsToCome
    <3> QED BY <3>1, <3>2, <3>3
  <2> QED BY <1>1, <2>2, <2>3, <2>4, <2>5, <2>6 DEF Step
<1>2. CASE UNCHANGED <<pc, gatewaySpan, completed>>
  BY <1>2 DEF ParentsToCome
<1>3. ASSUME NEW x \in exporters, Export(x) PROVE UNCHANGED <<pc, gatewaySpan, completed>>
  BY <1>3 DEF Export
<1>4. CASE UNCHANGED vars
  BY <1>2, <1>4 DEF vars, tracer
<1> QED BY <1>1, <1>2, <1>3, <1>4 DEF Next, Finished, Step

\* The inductive invariant of the spans.
SpanInv ==
    (\A w \in Workers : LiveSpan(w)) /\ IdsApart /\ SpanIdsUnique /\ ParentsToCome

\* The three parts are one inductive invariant: each needs the others.
LEMMA SpanInvHolds == Spec => []SpanInv
<1>1. Init => SpanInv
  BY DEF Init, SpanInv, LiveSpan, IdsApart, SpanIdsUnique, ParentsToCome, EmptySpan, NoId
<1>2. TypeOK /\ SpanInv /\ [Next]_vars => SpanInv'
  BY LiveStep, IdsStep, ParentsStep DEF SpanInv
<1> QED BY <1>1, <1>2, TypeCorrect, PTL DEF Spec

\* No two recorded spans have the same id, however many handlers generate ids
\* at a time (GenerateSpanId, StartClientSpan).
THEOREM SpanIdsAreUnique == Spec => []SpanIdsUnique
<1>1. SpanInv => SpanIdsUnique
  BY DEF SpanInv
<1> QED BY <1>1, SpanInvHolds, PTL

\* A recorded client span never waits in vain: its gateway span has its handler
\* still running or was recorded after it, in the same trace (FinishSpan).
THEOREM TracesStayConnected == Spec => []TracesConnected
<1>1. SpanInv => TracesConnected
  BY DEF SpanInv, ParentsToCome, TracesConnected
<1> QED BY <1>1, SpanInvHolds, PTL
=============================================================================
