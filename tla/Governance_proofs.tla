------------------------- MODULE Governance_proofs --------------------------
(***************************************************************************)
(* Proofs about Governance, for every number of workers and upstreams, all *)
(* thresholds, every configuration and an unbounded clock (MaxTime is any  *)
(* natural number), and about Forwarding: the composition is a behaviour   *)
(* of Governance, so that all that is proved of it holds there, and it     *)
(* creates a record at most once.  The first part, up to Forwarding, uses  *)
(* none of Forwarding's assumptions.                                       *)
(***************************************************************************)
EXTENDS Forwarding, TLAPS

\* What a worker's step reads of the configuration has the type it should.
LEMMA ConfigTyped ==
    ASSUME config \in Configs
    PROVE  /\ config.enabled \in BOOLEAN /\ config.breaker \in BOOLEAN
           /\ config.retry \in BOOLEAN /\ config.fallback \in BOOLEAN
           /\ MaxAttempts \in Nat \ {0}
  BY ConfigAssumption DEF ConfigType, MaxAttempts

\* The three updates of a breaker keep it a CircuitBreakerRuntimeState.
LEMMA CircuitUpdates ==
    ASSUME NEW c \in CircuitType, NEW t \in Nat
    PROVE  /\ AfterAllow(c, t) \in CircuitType
           /\ RecordSuccess(c) \in CircuitType
           /\ RecordFailure(c, t) \in CircuitType
<1>0. /\ c.consecutive_successes + 1 \in Nat
      /\ c.consecutive_failures + 1 \in Nat
      /\ t + OpenSeconds \in Nat
  BY ThresholdAssumption DEF CircuitType
<1>1. AfterAllow(c, t) \in CircuitType
  BY DEF AfterAllow, CircuitType
<1>2. RecordSuccess(c) \in CircuitType
  <2>1. CASE c.state # "HALF_OPEN"
    BY <2>1 DEF RecordSuccess, CircuitType
  <2>2. CASE /\ c.state = "HALF_OPEN"
             /\ c.consecutive_successes + 1 >= HalfOpenSuccessThreshold
    BY <2>2 DEF RecordSuccess, CircuitType
  <2>3. CASE /\ c.state = "HALF_OPEN"
             /\ ~(c.consecutive_successes + 1 >= HalfOpenSuccessThreshold)
    BY <1>0, <2>3 DEF RecordSuccess, CircuitType
  <2> QED BY <2>1, <2>2, <2>3
<1>3. RecordFailure(c, t) \in CircuitType
  <2> DEFINE opens == \/ c.state = "HALF_OPEN"
                      \/ c.consecutive_failures + 1 >= FailureThreshold
  <2>1. CASE opens
    BY <1>0, <2>1 DEF RecordFailure, CircuitType
  <2>2. CASE ~opens
    BY <1>0, <2>2 DEF RecordFailure, CircuitType
  <2> QED BY <2>1, <2>2
<1> QED BY <1>1, <1>2, <1>3

-----------------------------------------------------------------------------

\* Every state the gateway reaches has well-typed breakers and worker frames.
THEOREM TypeCorrect == Spec => []TypeOK
<1>1. Init => TypeOK
  BY DEF Init, TypeOK, CircuitType, Steps, Responses
<1>2. TypeOK /\ [Next]_vars => TypeOK'
  <2> SUFFICES ASSUME TypeOK, [Next]_vars PROVE TypeOK'
    OBVIOUS
  <2> USE DEF TypeOK, shared, history, Goto, Respond
  <2>1. ASSUME NEW w \in Workers, NEW u \in Upstreams, NEW m \in Methods,
               NEW d \in DebugHeaders, NEW t \in Timeouts, Arrive(w, u, m, d, t)
        PROVE  TypeOK'
    BY <2>1, ConfigTyped, TimeAssumption DEF Arrive, Requests, Steps
  <2>2. ASSUME NEW w \in Workers, AllowRequest(w) PROVE TypeOK'
    <3>1. req[w].upstream \in Upstreams /\ now[w] \in Nat
      BY <2>2 DEF AllowRequest, Requests
    <3>2. AfterAllow(circuit[req[w].upstream], now[w]) \in CircuitType
      BY <3>1, CircuitUpdates
    <3>3. circuit' \in [Upstreams -> CircuitType]
      BY <2>2, <3>1, <3>2 DEF AllowRequest
    <3>4. CASE Admits(circuit[req[w].upstream], now[w])
      BY <2>2, <3>1, <3>3, <3>4 DEF AllowRequest, Steps
    <3>5. CASE ~Admits(circuit[req[w].upstream], now[w])
      BY <2>2, <3>3, <3>5 DEF AllowRequest, Steps, Responses
    <3> QED BY <3>4, <3>5
  <2>3. ASSUME NEW w \in Workers, NextAttempt(w) PROVE TypeOK'
    <3>1. attempt' \in [Workers -> Nat]
      BY <2>3 DEF NextAttempt
    <3>2. CASE DeadlineExceeded(w)
      BY <2>3, <3>1, <3>2 DEF NextAttempt, Steps, Responses
    <3>3. CASE ~DeadlineExceeded(w)
      BY <2>3, <3>1, <3>3 DEF NextAttempt, Steps
    <3> QED BY <3>2, <3>3
  <2>4. ASSUME NEW w \in Workers, CallTimesOut(w) PROVE TypeOK'
    BY <2>4 DEF CallTimesOut, Steps, Responses
  <2>5. ASSUME NEW w \in Workers, CallOnce(w) PROVE TypeOK'
    BY <2>5 DEF CallOnce, Steps, Responses
  <2>6. ASSUME NEW w \in Workers, InnerReturn(w) PROVE TypeOK'
    BY <2>6, ConfigTyped DEF InnerReturn, Steps, Responses
  <2>7. ASSUME NEW w \in Workers, CheckTimeout(w) PROVE TypeOK'
    BY <2>7 DEF CheckTimeout, Steps, Responses
  <2>8. ASSUME NEW w \in Workers, RecordResult(w) PROVE TypeOK'
    <3>1. AfterRecord(w) \in Steps \ {"idle"}
      BY DEF AfterRecord, Steps
    <3> DEFINE u == req[w].upstream
               c == IF IsFailureResponse(resp[w])
                      THEN RecordFailure(circuit[u], now[w])
                      ELSE RecordSuccess(circuit[u])
    <3>2. u \in Upstreams /\ now[w] \in Nat
      BY <2>8 DEF RecordResult, Requests
    <3>3. c \in CircuitType
      BY <3>2, CircuitUpdates
    <3>4. CASE config.breaker
      <4>1. circuit' \in [Upstreams -> CircuitType]
        BY <2>8, <3>2, <3>3, <3>4 DEF RecordResult
      <4>2. openings' \in [Upstreams -> Nat] /\ records' \in [Workers -> Nat]
        BY <2>8, <3>2, <3>4 DEF RecordResult
      <4> QED BY <2>8, <3>1, <4>1, <4>2 DEF RecordResult
    <3>5. CASE ~config.breaker
      BY <2>8, <3>1, <3>5 DEF RecordResult
    <3> QED BY <3>4, <3>5
  <2>9. ASSUME NEW w \in Workers, Backoff(w) PROVE TypeOK'
    BY <2>9 DEF Backoff, Steps, Responses
  <2>10. ASSUME NEW w \in Workers, Finish(w) PROVE TypeOK'
    BY <2>10 DEF Finish, Steps, Responses
  <2>11. ASSUME NEW w \in Workers, Return(w) PROVE TypeOK'
    BY <2>11 DEF Return, Steps, Responses
  <2>12. CASE Tick
    BY <2>12 DEF Tick, locals
  <2>13. CASE UNCHANGED vars
    BY <2>13 DEF vars, locals
  <2> QED
    BY <2>1, <2>2, <2>3, <2>4, <2>5, <2>6, <2>7, <2>8, <2>9, <2>10, <2>11,
       <2>12, <2>13
    DEF Next, ArriveFor, Run
<1> QED BY <1>1, <1>2, PTL DEF Spec
-----------------------------------------------------------------------------

\* The three updates of a breaker keep its counters consistent with its state.
LEMMA ConsistentUpdates ==
    ASSUME NEW c \in CircuitType, NEW t \in Nat, Consistent(c)
    PROVE  /\ Consistent(AfterAllow(c, t))
           /\ Consistent(RecordSuccess(c))
           /\ Consistent(RecordFailure(c, t))
<1> USE ThresholdAssumption DEF CircuitType, Consistent
<1>1. Consistent(AfterAllow(c, t))
  BY DEF AfterAllow
<1>2. Consistent(RecordSuccess(c))
  BY DEF RecordSuccess
<1>3. Consistent(RecordFailure(c, t))
  BY DEF RecordFailure
<1> QED BY <1>1, <1>2, <1>3

\* Only AllowRequest and RecordResult write the breaker table, one entry each.
LEMMA CircuitSteps ==
    ASSUME TypeOK, [Next]_vars
    PROVE  \/ UNCHANGED circuit
           \/ \E u \in Upstreams, t \in Nat :
                \/ circuit' = [circuit EXCEPT ![u] = AfterAllow(@, t)]
                \/ circuit' = [circuit EXCEPT ![u] = RecordSuccess(@)]
                \/ circuit' = [circuit EXCEPT ![u] = RecordFailure(@, t)]
<1>1. ASSUME NEW w \in Workers, AllowRequest(w)
      PROVE  /\ req[w].upstream \in Upstreams /\ now[w] \in Nat
             /\ circuit' = [circuit EXCEPT ![req[w].upstream] = AfterAllow(@, now[w])]
  BY <1>1 DEF AllowRequest, TypeOK, Requests
<1>2. ASSUME NEW w \in Workers, RecordResult(w)
      PROVE  \/ UNCHANGED circuit
             \/ /\ req[w].upstream \in Upstreams /\ now[w] \in Nat
                /\ \/ circuit' = [circuit EXCEPT ![req[w].upstream] = RecordSuccess(@)]
                   \/ circuit' = [circuit EXCEPT ![req[w].upstream] =
                                    RecordFailure(@, now[w])]
  <2>1. req[w].upstream \in Upstreams /\ now[w] \in Nat
    BY <1>2 DEF RecordResult, TypeOK, Requests
  <2>2. CASE IsFailureResponse(resp[w])
    BY <1>2, <2>1, <2>2 DEF RecordResult
  <2>3. CASE ~IsFailureResponse(resp[w])
    BY <1>2, <2>1, <2>3 DEF RecordResult
  <2> QED BY <2>2, <2>3
<1>3. ASSUME NEW w \in Workers,
             \/ NextAttempt(w) \/ CallTimesOut(w) \/ CallOnce(w) \/ InnerReturn(w)
             \/ CheckTimeout(w) \/ Backoff(w) \/ Finish(w) \/ Return(w)
      PROVE  UNCHANGED circuit
  BY <1>3 DEF NextAttempt, CallTimesOut, CallOnce, InnerReturn, CheckTimeout,
              Backoff, Finish, Return, shared
<1>4. ASSUME NEW u \in Upstreams, ArriveFor(u) PROVE UNCHANGED circuit
  BY <1>4 DEF ArriveFor, Arrive, shared
<1>5. ASSUME Tick \/ UNCHANGED vars PROVE UNCHANGED circuit
  BY <1>5 DEF Tick, vars, shared
<1> QED
  BY <1>1, <1>2, <1>3, <1>4, <1>5 DEF Next, Run

\* A breaker's counters fit its state at all times (RecordResult, AllowRequest).
THEOREM BreakerSafe == Spec => []BreakerConsistent
<1>1. Init => BreakerConsistent
  BY ThresholdAssumption DEF Init, BreakerConsistent, Consistent
<1>2. TypeOK /\ BreakerConsistent /\ [Next]_vars => BreakerConsistent'
  <2> SUFFICES ASSUME TypeOK, BreakerConsistent, [Next]_vars, NEW v \in Upstreams
               PROVE  Consistent(circuit'[v])
    BY DEF BreakerConsistent, Consistent
  <2>1. circuit \in [Upstreams -> CircuitType] /\ Consistent(circuit[v])
    BY DEF TypeOK, BreakerConsistent
  <2>2. CASE UNCHANGED circuit
    BY <2>1, <2>2
  <2>3. CASE \E u \in Upstreams, t \in Nat :
                \/ circuit' = [circuit EXCEPT ![u] = AfterAllow(@, t)]
                \/ circuit' = [circuit EXCEPT ![u] = RecordSuccess(@)]
                \/ circuit' = [circuit EXCEPT ![u] = RecordFailure(@, t)]
    BY <2>1, <2>3, ConsistentUpdates
  <2> QED BY <2>2, <2>3, CircuitSteps
<1> QED BY <1>1, <1>2, TypeCorrect, PTL DEF Spec
-----------------------------------------------------------------------------

\* One entry of the table changes: so do the abstract mode and run of that
\* entry, and nothing else of the abstract state.
LEMMA MappedUpdate ==
    ASSUME NEW u \in Upstreams, NEW d \in CircuitType,
           circuit \in [Upstreams -> CircuitType],
           circuit' = [circuit EXCEPT ![u] = d]
    PROVE  /\ Mode' = [Mode EXCEPT ![u] = d.state]
           /\ ResultRun' = [ResultRun EXCEPT ![u] =
                IF d.state = "CLOSED" THEN d.consecutive_failures
                ELSE IF d.state = "HALF_OPEN" THEN d.consecutive_successes
                ELSE 0]
  BY DEF Mode, ResultRun

\* GovernanceUpstreamClient's breakers implement the abstract circuit breaker.
THEOREM Refinement == Spec => ImplementsCircuitBreaker
<1>1. Init => Abstract!Init
  BY DEF Init, Abstract!Init, Mode, ResultRun
<1>2. TypeOK /\ [Next]_vars => [Abstract!Next]_(Abstract!vars)
  <2> SUFFICES ASSUME TypeOK, [Next]_vars
               PROVE  Abstract!Next \/ UNCHANGED Abstract!vars
    OBVIOUS
  <2>0. circuit \in [Upstreams -> CircuitType]
    BY DEF TypeOK
  <2>1. CASE UNCHANGED circuit
    BY <2>1 DEF Mode, ResultRun, Abstract!vars
  <2>2. ASSUME NEW u \in Upstreams, NEW t \in Nat,
               circuit' = [circuit EXCEPT ![u] = AfterAllow(@, t)]
        PROVE  Abstract!Next \/ UNCHANGED Abstract!vars
    <3> DEFINE c == circuit[u]
               d == AfterAllow(c, t)
    <3>1. c \in CircuitType /\ d \in CircuitType
      BY <2>0, CircuitUpdates
    <3>2. CASE c.state = "OPEN" /\ t >= c.open_until
      <4>1. d.state = "HALF_OPEN" /\ d.consecutive_successes = 0
        BY <3>1, <3>2 DEF AfterAllow, CircuitType
      <4>2. Mode[u] = "OPEN"
        BY <3>2 DEF Mode
      <4> QED BY <2>0, <2>2, <3>1, <4>1, <4>2, MappedUpdate
              DEF Abstract!Next, Abstract!Probe, Abstract!Enter
    <3>3. CASE ~(c.state = "OPEN" /\ t >= c.open_until)
      <4>1. d = c
        BY <3>3 DEF AfterAllow
      <4>2. circuit' = circuit
        BY <2>0, <2>2, <4>1
      <4> QED BY <2>1, <4>2
    <3> QED BY <3>2, <3>3
  <2>3. ASSUME NEW u \in Upstreams, circuit' = [circuit EXCEPT ![u] = RecordSuccess(@)]
        PROVE  Abstract!Next \/ UNCHANGED Abstract!vars
    <3> DEFINE c == circuit[u]
               d == RecordSuccess(c)
    <3>1. c \in CircuitType /\ d \in CircuitType
      BY <2>0, CircuitUpdates
    <3>2. Mode[u] = c.state
      BY DEF Mode
    <3>3. CASE c.state = "CLOSED"
      <4>1. d.state = "CLOSED" /\ d.consecutive_failures = 0
        BY <3>1, <3>3 DEF RecordSuccess, CircuitType
      <4>2. Mode' = Mode /\ ResultRun' = [ResultRun EXCEPT ![u] = 0]
        BY <2>0, <2>3, <3>1, <3>2, <3>3, <4>1, MappedUpdate DEF Mode
      <4> QED BY <3>2, <3>3, <4>2 DEF Abstract!Next, Abstract!Success, Abstract!Stay
    <3>4. CASE c.state = "OPEN"
      <4>1. d.state = "OPEN"
        BY <3>1, <3>4 DEF RecordSuccess, CircuitType
      <4>2. ResultRun[u] = 0
        BY <3>4 DEF ResultRun
      <4>3. Mode' = Mode /\ ResultRun' = ResultRun
        BY <2>0, <2>3, <3>1, <3>2, <3>4, <4>1, <4>2, MappedUpdate DEF Mode, ResultRun
      <4> QED BY <4>3 DEF Abstract!vars
    <3>5. CASE c.state = "HALF_OPEN"
      <4>0. ResultRun[u] = c.consecutive_successes
        BY <3>5 DEF ResultRun
      <4>1. CASE c.consecutive_successes + 1 >= HalfOpenSuccessThreshold
        <5>1. d.state = "CLOSED" /\ d.consecutive_failures = 0
          BY <3>1, <3>5, <4>1 DEF RecordSuccess, CircuitType
        <5>2. Abstract!Enter(u, "CLOSED")
          BY <2>0, <2>3, <3>1, <5>1, MappedUpdate DEF Abstract!Enter
        <5> QED BY <3>2, <3>5, <4>0, <4>1, <5>2 DEF Abstract!Next, Abstract!Success
      <4>2. CASE ~(c.consecutive_successes + 1 >= HalfOpenSuccessThreshold)
        <5>1. d.state = "HALF_OPEN" /\ d.consecutive_successes = c.consecutive_successes + 1
          BY <3>1, <3>5, <4>2 DEF RecordSuccess, CircuitType
        <5>2. ResultRun' = [ResultRun EXCEPT ![u] = ResultRun[u] + 1]
          <6>1. ResultRun' = [ResultRun EXCEPT ![u] = d.consecutive_successes]
            BY <2>0, <2>3, <3>1, <5>1, MappedUpdate
          <6>2. d.consecutive_successes = ResultRun[u] + 1
            BY <4>0, <5>1
          <6> QED BY ONLY <6>1, <6>2
        <5>3. Mode' = Mode
          BY <2>0, <2>3, <3>1, <3>2, <3>5, <5>1, MappedUpdate DEF Mode
        <5> QED BY <3>2, <3>5, <4>0, <4>2, <5>2, <5>3
                DEF Abstract!Next, Abstract!Success, Abstract!Stay
      <4> QED BY <4>1, <4>2
    <3> QED BY <3>1, <3>3, <3>4, <3>5 DEF CircuitType
  <2>4. ASSUME NEW u \in Upstreams, NEW t \in Nat,
               circuit' = [circuit EXCEPT ![u] = RecordFailure(@, t)]
        PROVE  Abstract!Next \/ UNCHANGED Abstract!vars
    <3> DEFINE c == circuit[u]
               d == RecordFailure(c, t)
    <3>1. c \in CircuitType /\ d \in CircuitType
      BY <2>0, CircuitUpdates
    <3>2. Mode[u] = c.state
      BY DEF Mode
    <3>3. CASE c.state = "HALF_OPEN"
      <4>1. d.state = "OPEN"
        BY <3>1, <3>3 DEF RecordFailure, CircuitType
      <4>2. Abstract!Enter(u, "OPEN")
        BY <2>0, <2>4, <3>1, <4>1, MappedUpdate DEF Abstract!Enter
      <4> QED BY <3>2, <3>3, <4>2 DEF Abstract!Next, Abstract!Failure
    <3>4. CASE c.state = "OPEN"
      <4>1. d.state = "OPEN"
        BY <3>1, <3>4 DEF RecordFailure, CircuitType
      <4>2. ResultRun[u] = 0
        BY <3>4 DEF ResultRun
      <4>3. Mode' = Mode /\ ResultRun' = ResultRun
        BY <2>0, <2>4, <3>1, <3>2, <3>4, <4>1, <4>2, MappedUpdate DEF Mode, ResultRun
      <4> QED BY <4>3 DEF Abstract!vars
    <3>5. CASE c.state = "CLOSED"
      <4>0. ResultRun[u] = c.consecutive_failures
        BY <3>5 DEF ResultRun
      <4>1. CASE c.consecutive_failures + 1 >= FailureThreshold
        <5>1. d.state = "OPEN"
          BY <3>1, <3>5, <4>1 DEF RecordFailure, CircuitType
        <5>2. Abstract!Enter(u, "OPEN")
          BY <2>0, <2>4, <3>1, <5>1, MappedUpdate DEF Abstract!Enter
        <5> QED BY <3>2, <3>5, <4>0, <4>1, <5>2 DEF Abstract!Next, Abstract!Failure
      <4>2. CASE ~(c.consecutive_failures + 1 >= FailureThreshold)
        <5>1. d.state = "CLOSED" /\ d.consecutive_failures = c.consecutive_failures + 1
          BY <3>1, <3>5, <4>2 DEF RecordFailure, CircuitType
        <5>2. ResultRun' = [ResultRun EXCEPT ![u] = ResultRun[u] + 1]
          <6>1. ResultRun' = [ResultRun EXCEPT ![u] = d.consecutive_failures]
            BY <2>0, <2>4, <3>1, <5>1, MappedUpdate
          <6>2. d.consecutive_failures = ResultRun[u] + 1
            BY <4>0, <5>1
          <6> QED BY ONLY <6>1, <6>2
        <5>3. Mode' = Mode
          BY <2>0, <2>4, <3>1, <3>2, <3>5, <5>1, MappedUpdate DEF Mode
        <5> QED BY <3>2, <3>5, <4>0, <4>2, <5>2, <5>3
                DEF Abstract!Next, Abstract!Failure, Abstract!Stay
      <4> QED BY <4>1, <4>2
    <3> QED BY <3>1, <3>3, <3>4, <3>5 DEF CircuitType
  <2> QED BY <2>1, <2>2, <2>3, <2>4, CircuitSteps
<1> QED
  BY <1>1, <1>2, TypeCorrect, PTL
  DEF Spec, ImplementsCircuitBreaker, Abstract!Spec
-----------------------------------------------------------------------------

\* While a breaker is open nothing is admitted to its upstream: every request
\* still at work on it was admitted before it opened (AllowRequest).
THEOREM OpenBreakerAdmitsNobody == Spec => []OpenAdmitsNobody
<1>1. Init => AdmissionInv
  BY DEF Init, AdmissionInv, Admitted
<1>2. TypeOK /\ AdmissionInv /\ [Next]_vars => AdmissionInv'
  <2> SUFFICES ASSUME TypeOK, AdmissionInv, [Next]_vars PROVE AdmissionInv'
    OBVIOUS
  <2> USE DEF TypeOK, AdmissionInv, Admitted, shared, history, Goto, Respond
  <2>1. ASSUME NEW w \in Workers, NEW u \in Upstreams, NEW m \in Methods,
               NEW d \in DebugHeaders, NEW t \in Timeouts, Arrive(w, u, m, d, t)
        PROVE  AdmissionInv'
    BY <2>1 DEF Arrive
  <2>2. ASSUME NEW w \in Workers, AllowRequest(w) PROVE AdmissionInv'
    <3> DEFINE u == req[w].upstream
    <3>1. u \in Upstreams /\ now[w] \in Nat
      BY <2>2 DEF AllowRequest, Requests
    <3>2. circuit'[u] = AfterAllow(circuit[u], now[w])
      BY <2>2, <3>1 DEF AllowRequest
    <3>3. CASE Admits(circuit[u], now[w])
      <4>1. circuit'[u].state # "OPEN"
        BY <3>1, <3>2, <3>3 DEF Admits, AfterAllow, CircuitType
      <4> QED BY <2>2, <3>1, <3>3, <4>1 DEF AllowRequest, Requests
    <3>4. CASE ~Admits(circuit[u], now[w])
      <4>1. circuit' = circuit
        BY <2>2, <3>1, <3>4 DEF AllowRequest, Admits, AfterAllow
      <4> QED BY <2>2, <3>4, <4>1 DEF AllowRequest
    <3> QED BY <3>3, <3>4
  <2>3. ASSUME NEW w \in Workers, NextAttempt(w) PROVE AdmissionInv'
    BY <2>3 DEF NextAttempt
  <2>4. ASSUME NEW w \in Workers, CallTimesOut(w) PROVE AdmissionInv'
    BY <2>4 DEF CallTimesOut
  <2>5. ASSUME NEW w \in Workers, CallOnce(w) PROVE AdmissionInv'
    BY <2>5 DEF CallOnce
  <2>6. ASSUME NEW w \in Workers, InnerReturn(w) PROVE AdmissionInv'
    BY <2>6 DEF InnerReturn
  <2>7. ASSUME NEW w \in Workers, CheckTimeout(w) PROVE AdmissionInv'
    BY <2>7 DEF CheckTimeout
  <2>8. ASSUME NEW w \in Workers, RecordResult(w) PROVE AdmissionInv'
    <3> DEFINE u == req[w].upstream
               c == IF IsFailureResponse(resp[w])
                      THEN RecordFailure(circuit[u], now[w])
                      ELSE RecordSuccess(circuit[u])
    <3>1. u \in Upstreams /\ now[w] \in Nat
      BY <2>8 DEF RecordResult, Requests
    <3>2. circuit[u].state = "OPEN" => c.state = "OPEN"
      BY <3>1 DEF RecordFailure, RecordSuccess, CircuitType
    <3>3. CASE config.breaker
      <4>1. /\ circuit' = [circuit EXCEPT ![u] = c]
            /\ openings' = [openings EXCEPT ![u] =
                 IF c.state = "OPEN" /\ circuit[u].state # "OPEN" THEN @ + 1 ELSE @]
            /\ UNCHANGED <<config, req, admitted>>
            /\ \A y \in Workers : Admitted(y)' => Admitted(y)
        BY <2>8, <3>3 DEF RecordResult
      <4> HIDE DEF c
      <4> QED BY <3>1, <3>2, <4>1 DEF Requests
    <3>4. CASE ~config.breaker
      BY <2>8, <3>4 DEF RecordResult
    <3> QED BY <3>3, <3>4
  <2>9. ASSUME NEW w \in Workers, Backoff(w) PROVE AdmissionInv'
    BY <2>9 DEF Backoff
  <2>10. ASSUME NEW w \in Workers, Finish(w) PROVE AdmissionInv'
    BY <2>10 DEF Finish
  <2>11. ASSUME NEW w \in Workers, Return(w) PROVE AdmissionInv'
    BY <2>11 DEF Return
  <2>12. CASE Tick
    BY <2>12 DEF Tick, locals
  <2>13. CASE UNCHANGED vars
    BY <2>13 DEF vars, locals
  <2> HIDE DEF TypeOK, AdmissionInv, Admitted
  <2> QED
    BY <2>1, <2>2, <2>3, <2>4, <2>5, <2>6, <2>7, <2>8, <2>9, <2>10, <2>11,
       <2>12, <2>13
    DEF Next, ArriveFor, Run
<1>3. AdmissionInv => OpenAdmitsNobody
  BY DEF AdmissionInv, OpenAdmitsNobody
<1> QED BY <1>1, <1>2, <1>3, TypeCorrect, PTL DEF Spec

-----------------------------------------------------------------------------

\* No request reaches its upstream more often than max_attempts, nor a second
\* time if it may not be retried (the attempt loop of Forward).
THEOREM CallsAreBounded == Spec => []CallsBounded
<1> USE DEF CallsInv, shared, history, Goto, Respond
<1>1. Init => CallsInv
  BY DEF Init
<1>2. TypeOK /\ CallsInv /\ [Next]_vars => CallsInv'
  <2> SUFFICES ASSUME TypeOK, CallsInv, [Next]_vars PROVE CallsInv'
    OBVIOUS
  <2>0. /\ config.enabled \in BOOLEAN /\ MaxAttempts \in Nat \ {0}
        /\ calls \in [Workers -> Nat] /\ attempt \in [Workers -> Nat]
        /\ pc \in [Workers -> Steps]
        /\ req \in [Workers -> Requests \cup {NoRequest}]
    BY ConfigTyped DEF TypeOK
  <2>a. config' = config
    BY DEF Next, ArriveFor, Run, Arrive, AllowRequest, NextAttempt, CallTimesOut,
           CallOnce, InnerReturn, CheckTimeout, RecordResult, Backoff, Finish,
           Return, Tick, vars
  <2>b. MaxAttempts' = MaxAttempts
    BY <2>a DEF MaxAttempts
  <2> USE <2>0, <2>a, <2>b DEF CanRetryMethod, Steps
  <2>1. ASSUME NEW w \in Workers, NEW u \in Upstreams, NEW m \in Methods,
               NEW d \in DebugHeaders, NEW t \in Timeouts, Arrive(w, u, m, d, t)
        PROVE  CallsInv'
    BY <2>1 DEF Arrive
  <2>2. ASSUME NEW w \in Workers, AllowRequest(w) PROVE CallsInv'
    BY <2>2 DEF AllowRequest
  <2>3. ASSUME NEW w \in Workers, NextAttempt(w) PROVE CallsInv'
    BY <2>3 DEF NextAttempt
  <2>4. ASSUME NEW w \in Workers, CallTimesOut(w) PROVE CallsInv'
    BY <2>4 DEF CallTimesOut
  <2>5. ASSUME NEW w \in Workers, CallOnce(w) PROVE CallsInv'
    BY <2>5 DEF CallOnce
  <2>6. ASSUME NEW w \in Workers, InnerReturn(w) PROVE CallsInv'
    BY <2>6 DEF InnerReturn
  <2>7. ASSUME NEW w \in Workers, CheckTimeout(w) PROVE CallsInv'
    BY <2>7 DEF CheckTimeout
  <2>8. ASSUME NEW w \in Workers, RecordResult(w) PROVE CallsInv'
    BY <2>8 DEF RecordResult, AfterRecord, ShouldRetry
  <2>9. ASSUME NEW w \in Workers, Backoff(w) PROVE CallsInv'
    BY <2>9 DEF Backoff
  <2>10. ASSUME NEW w \in Workers, Finish(w) PROVE CallsInv'
    BY <2>10 DEF Finish
  <2>11. ASSUME NEW w \in Workers, Return(w) PROVE CallsInv'
    BY <2>11 DEF Return
  <2>12. CASE Tick
    BY <2>12 DEF Tick, locals
  <2>13. CASE UNCHANGED vars
    BY <2>13 DEF vars, locals
  <2> HIDE DEF CallsInv
  <2> QED
    BY <2>1, <2>2, <2>3, <2>4, <2>5, <2>6, <2>7, <2>8, <2>9, <2>10, <2>11,
       <2>12, <2>13
    DEF Next, ArriveFor, Run
<1>3. TypeOK /\ CallsInv => CallsBounded
  BY ConfigTyped DEF TypeOK, CallsBounded, Steps
<1> QED BY <1>1, <1>2, <1>3, TypeCorrect, PTL DEF Spec

-----------------------------------------------------------------------------

\* By the time Forward tries again or ends, the breaker knows of every call of
\* the upstream (RecordResult on every way out of the loop).
THEOREM OutcomesAreRecorded == Spec => []OutcomesRecorded
<1> USE DEF RecordsInv, shared, history, Goto, Respond
<1>1. Init => RecordsInv
  <2>1. ASSUME Init, NEW w \in Workers PROVE calls[w] = 0 /\ records[w] = 0
    BY <2>1 DEF Init
  <2>2. ASSUME Init, NEW w \in Workers
        PROVE  calls[w] <= records[w] + 1 /\ calls[w] <= records[w]
    BY <2>1, <2>2
  <2> QED BY <2>2
<1>2. TypeOK /\ RecordsInv /\ [Next]_vars => RecordsInv'
  <2> SUFFICES ASSUME TypeOK, RecordsInv, [Next]_vars PROVE RecordsInv'
    OBVIOUS
  <2>0. /\ config.enabled \in BOOLEAN /\ config.breaker \in BOOLEAN
        /\ calls \in [Workers -> Nat] /\ records \in [Workers -> Nat]
        /\ pc \in [Workers -> Steps]
    BY ConfigTyped DEF TypeOK
  <2>a. config' = config
    BY DEF Next, ArriveFor, Run, Arrive, AllowRequest, NextAttempt, CallTimesOut,
           CallOnce, InnerReturn, CheckTimeout, RecordResult, Backoff, Finish,
           Return, Tick, vars
  <2> USE <2>0, <2>a DEF Steps
  <2>1. ASSUME NEW w \in Workers, NEW u \in Upstreams, NEW m \in Methods,
               NEW d \in DebugHeaders, NEW t \in Timeouts, Arrive(w, u, m, d, t)
        PROVE  RecordsInv'
    BY <2>1 DEF Arrive
  <2>2. ASSUME NEW w \in Workers, AllowRequest(w) PROVE RecordsInv'
    BY <2>2 DEF AllowRequest
  <2>3. ASSUME NEW w \in Workers, NextAttempt(w) PROVE RecordsInv'
    BY <2>3 DEF NextAttempt
  <2>4. ASSUME NEW w \in Workers, CallTimesOut(w) PROVE RecordsInv'
    BY <2>4 DEF CallTimesOut
  <2>5. ASSUME NEW w \in Workers, CallOnce(w) PROVE RecordsInv'
    BY <2>5 DEF CallOnce
  <2>6. ASSUME NEW w \in Workers, InnerReturn(w) PROVE RecordsInv'
    BY <2>6 DEF InnerReturn
  <2>7. ASSUME NEW w \in Workers, CheckTimeout(w) PROVE RecordsInv'
    BY <2>7 DEF CheckTimeout
  <2>8. ASSUME NEW w \in Workers, RecordResult(w) PROVE RecordsInv'
    BY <2>8 DEF RecordResult, AfterRecord, IsFailureResponse
  <2>9. ASSUME NEW w \in Workers, Backoff(w) PROVE RecordsInv'
    BY <2>9 DEF Backoff
  <2>10. ASSUME NEW w \in Workers, Finish(w) PROVE RecordsInv'
    BY <2>10 DEF Finish
  <2>11. ASSUME NEW w \in Workers, Return(w) PROVE RecordsInv'
    BY <2>11 DEF Return
  <2>12. CASE Tick
    BY <2>12 DEF Tick, locals
  <2>13. CASE UNCHANGED vars
    BY <2>13 DEF vars, locals
  <2> HIDE DEF RecordsInv
  <2> QED
    BY <2>1, <2>2, <2>3, <2>4, <2>5, <2>6, <2>7, <2>8, <2>9, <2>10, <2>11,
       <2>12, <2>13
    DEF Next, ArriveFor, Run
<1>3. TypeOK /\ RecordsInv => OutcomesRecorded
  BY DEF TypeOK, OutcomesRecorded
<1> QED BY <1>1, <1>2, <1>3, TypeCorrect, PTL DEF Spec

-----------------------------------------------------------------------------

\* A success is the upstream's, given before the deadline: the check behind the
\* call cannot be passed by an answer that came late.
THEOREM SuccessesAreTimely == Spec => []SuccessIsTimely
<1> USE DEF TimelyInv, shared, history, Goto, Respond
<1>1. Init => TimelyInv
  BY DEF Init
<1>2. TypeOK /\ TimelyInv /\ [Next]_vars => TimelyInv'
  <2> SUFFICES ASSUME TypeOK, TimelyInv, [Next]_vars PROVE TimelyInv'
    OBVIOUS
  <2>0. /\ config.enabled \in BOOLEAN /\ clock \in Nat
        /\ calls \in [Workers -> Nat] /\ returned \in [Workers -> Nat]
        /\ pc \in [Workers -> Steps] /\ resp \in [Workers -> Responses]
        /\ req \in [Workers -> Requests \cup {NoRequest}]
        /\ \A w \in Workers : pc[w] # "idle" => req[w].deadline \in Nat
    BY ConfigTyped DEF TypeOK, Requests
  <2>a. config' = config
    BY DEF Next, ArriveFor, Run, Arrive, AllowRequest, NextAttempt, CallTimesOut,
           CallOnce, InnerReturn, CheckTimeout, RecordResult, Backoff, Finish,
           Return, Tick, vars
  <2> USE <2>0, <2>a DEF Steps
  <2>1. ASSUME NEW w \in Workers, NEW u \in Upstreams, NEW m \in Methods,
               NEW d \in DebugHeaders, NEW t \in Timeouts, Arrive(w, u, m, d, t)
        PROVE  TimelyInv'
    BY <2>1 DEF Arrive
  <2>2. ASSUME NEW w \in Workers, AllowRequest(w) PROVE TimelyInv'
    BY <2>2 DEF AllowRequest
  <2>3. ASSUME NEW w \in Workers, NextAttempt(w) PROVE TimelyInv'
    BY <2>3 DEF NextAttempt
  <2>4. ASSUME NEW w \in Workers, CallTimesOut(w) PROVE TimelyInv'
    BY <2>4 DEF CallTimesOut
  <2>5. ASSUME NEW w \in Workers, CallOnce(w) PROVE TimelyInv'
    BY <2>5 DEF CallOnce
  <2>6. ASSUME NEW w \in Workers, InnerReturn(w) PROVE TimelyInv'
    BY <2>6 DEF InnerReturn
  <2>7. ASSUME NEW w \in Workers, CheckTimeout(w) PROVE TimelyInv'
    BY <2>7 DEF CheckTimeout, DeadlineExceeded
  <2>8. ASSUME NEW w \in Workers, RecordResult(w) PROVE TimelyInv'
    BY <2>8 DEF RecordResult, AfterRecord, IsFailureResponse
  <2>9. ASSUME NEW w \in Workers, Backoff(w) PROVE TimelyInv'
    BY <2>9 DEF Backoff
  <2>10. ASSUME NEW w \in Workers, Finish(w) PROVE TimelyInv'
    BY <2>10 DEF Finish
  <2>11. ASSUME NEW w \in Workers, Return(w) PROVE TimelyInv'
    BY <2>11 DEF Return
  <2>12. CASE Tick
    BY <2>12 DEF Tick, locals
  <2>13. CASE UNCHANGED vars
    BY <2>13 DEF vars, locals
  <2> HIDE DEF TimelyInv
  <2> QED
    BY <2>1, <2>2, <2>3, <2>4, <2>5, <2>6, <2>7, <2>8, <2>9, <2>10, <2>11,
       <2>12, <2>13
    DEF Next, ArriveFor, Run
<1>3. TypeOK /\ TimelyInv => SuccessIsTimely
  BY DEF TypeOK, SuccessIsTimely
<1> QED BY <1>1, <1>2, <1>3, TypeCorrect, PTL DEF Spec

-----------------------------------------------------------------------------
(* Forwarding *)

\* Every step of the composition is one of Governance or leaves it alone.
LEMMA StepGoverned == [FNext]_allVars => [Next]_vars
<1> SUFFICES ASSUME [FNext]_allVars PROVE [Next]_vars
  OBVIOUS
<1>1. ASSUME NEW w \in Workers, NEW u \in Upstreams, FArrive(w, u) PROVE Next
  <2>1. PICK r \in Operations, d \in DebugHeaders, t \in Timeouts :
          Arrive(w, u, MethodOf(r), d, t)
    BY <1>1 DEF FArrive
  <2>2. MethodOf(r) \in Methods
    BY MethodsAssumption DEF MethodOf
  <2> QED BY <2>1, <2>2 DEF Next, ArriveFor
<1>2. ASSUME NEW w \in Workers, FRun(w) PROVE [Next]_vars
  <2>1. CASE Govern(w)
    BY <2>1 DEF Govern, Next, Run
  <2>2. CASE Inner(w)
    BY <2>2 DEF Inner
  <2>3. CASE FInnerReturn(w) \/ FReturn(w)
    BY <2>3 DEF FInnerReturn, FReturn, Next, Run
  <2> QED BY <1>2, <2>1, <2>2, <2>3 DEF FRun
<1>3. CASE FTick
  BY <1>3 DEF FTick, Next
<1>4. CASE UNCHANGED allVars
  BY <1>4 DEF allVars
<1> QED BY <1>1, <1>2, <1>3, <1>4 DEF FNext

\* With the client and the services in detail, the gateway does what Governance
\* lets it do with an inner client that answers anything at any time.
THEOREM ForwardingGoverned == FSpec => Spec
<1>1. FInit => Init
  BY DEF FInit
<1> QED BY <1>1, StepGoverned, PTL DEF FSpec, Spec

\* The guarantees of Governance hold in the composition.
THEOREM ForwardingTyped == FSpec => []TypeOK
  BY ForwardingGoverned, TypeCorrect, PTL

-----------------------------------------------------------------------------

\* The functions the composition adds are functions on the workers.
Framed ==
    /\ DOMAIN localPc = Workers /\ DOMAIN reply = Workers
    /\ created \in [Workers -> Nat]

\* What a step of the inner client does to what CreationInv is about.
LEMMA InnerSteps ==
    ASSUME NEW w \in Workers, Framed, Inner(w)
    PROVE  /\ localPc[w] \notin {"idle", "done"}
           /\ DOMAIN localPc' = Workers /\ DOMAIN reply' = Workers
           /\ \A v \in Workers \ {w} : localPc'[v] = localPc[v] /\ reply'[v] = reply[v]
           /\ seq' # seq => localPc'[w] = "done" /\ reply'[w].code = "ok"
<1> USE DEF Framed, Inner, Local!RequestsUnchanged, Local!StoresUnchanged, Local!Answer,
            Local!Say, Local!Goto, Local!Reply
<1>1. CASE Local!Forward(w)
  BY <1>1 DEF Local!Forward
<1>2. CASE Local!ParseRequest(w)
  BY <1>2 DEF Local!ParseRequest
<1>3. CASE Local!CallService(w)
  BY <1>3 DEF Local!CallService
<1>4. CASE Local!EnterService(w)
  BY <1>4 DEF Local!EnterService
<1>5. CASE Local!Create(w)
  BY <1>5 DEF Local!Create
<1>6. CASE Local!Get(w)
  BY <1>6 DEF Local!Get
<1>7. CASE Local!SubmitTaskEvent(w)
  BY <1>7 DEF Local!SubmitTaskEvent
<1>8. CASE Local!UserReply(w)
  BY <1>8 DEF Local!UserReply
<1> QED BY <1>1, <1>2, <1>3, <1>4, <1>5, <1>6, <1>7, <1>8 DEF Inner, Local!ForwardStep

\* A worker whose frame a step leaves alone keeps its part of CreationInv.
LEMMA FrameStays ==
    ASSUME NEW v \in Workers, Creation(v),
           pc'[v] = pc[v], resp'[v] = resp[v], cancelled'[v] = cancelled[v], req'[v] = req[v],
           localPc'[v] = localPc[v], reply'[v] = reply[v], created'[v] = created[v],
           clock' = clock
    PROVE  Creation(v)'
  BY DEF Creation, Seen

FInv == TypeOK /\ Framed /\ CreationInv

\* A step of Governance in w, with the call of the inner client it may make.
LEMMA GovernKeeps ==
    ASSUME FInv, NEW w \in Workers, Govern(w)
    PROVE  Framed' /\ CreationInv'
<1> USE DEF FInv, Framed, Govern
<1>0. /\ localPc' = [localPc EXCEPT ![w] =
            IF pc[w] # "inner" /\ pc'[w] = "inner" THEN "forward" ELSE @]
      /\ reply' = reply /\ created' = created
  BY DEF CallsInner
<1>1. Framed'
  BY <1>0
<1>2. ASSUME NEW v \in Workers, v # w PROVE Creation(v)'
  <2>1. /\ pc'[v] = pc[v] /\ resp'[v] = resp[v] /\ cancelled'[v] = cancelled[v]
        /\ req'[v] = req[v] /\ clock' = clock
    <3> USE <1>2 DEF TypeOK, shared, Goto, Respond
    <3>1. CASE AllowRequest(w) \/ NextAttempt(w)
      BY <3>1 DEF AllowRequest, NextAttempt
    <3>2. CASE CallTimesOut(w)
      BY <3>2 DEF CallTimesOut
    <3>3. CASE CallOnce(w) \/ CheckTimeout(w)
      BY <3>3 DEF CallOnce, CheckTimeout
    <3>4. CASE RecordResult(w)
      BY <3>4 DEF RecordResult
    <3>5. CASE Backoff(w)
      BY <3>5 DEF Backoff
    <3>6. CASE Finish(w)
      BY <3>6 DEF Finish
    <3> QED BY <3>1, <3>2, <3>3, <3>4, <3>5, <3>6
  <2> QED BY <1>0, <1>2, <2>1, FrameStays DEF CreationInv
<1>3. Creation(w)'
  <2> USE <1>0 DEF CreationInv, Creation, Seen, TypeOK, shared, history, Goto, Respond
  <2>1. CASE AllowRequest(w)
    BY <2>1 DEF AllowRequest
  <2>2. CASE NextAttempt(w)
    BY <2>2 DEF NextAttempt, DeadlineExceeded
  <2>3. CASE CallTimesOut(w)
    BY <2>3 DEF CallTimesOut
  <2>4. CASE CallOnce(w)
    BY <2>4 DEF CallOnce, DeadlineExceeded
  <2>5. CASE CheckTimeout(w)
    BY <2>5 DEF CheckTimeout, DeadlineExceeded
  <2>6. CASE RecordResult(w)
    BY <2>6 DEF RecordResult, AfterRecord, IsFailureResponse
  <2>7. CASE Backoff(w)
    BY <2>7 DEF Backoff
  <2>8. CASE Finish(w)
    BY <2>8 DEF Finish
  <2> QED BY <2>1, <2>2, <2>3, <2>4, <2>5, <2>6, <2>7, <2>8
<1> QED BY <1>1, <1>2, <1>3 DEF CreationInv

\* A step of the inner client, which is the only one that creates.
LEMMA InnerKeeps ==
    ASSUME FInv, NEW w \in Workers, Inner(w)
    PROVE  Framed' /\ CreationInv'
<1> USE DEF FInv
<1>1. /\ UNCHANGED <<pc, resp, cancelled, req, clock>>
      /\ created' = [created EXCEPT ![w] = IF seq' # seq THEN @ + 1 ELSE @]
  BY DEF Inner, vars, shared, locals
<1>2. Framed'
  BY <1>1, InnerSteps DEF Framed
<1>3. ASSUME NEW v \in Workers, v # w PROVE Creation(v)'
  <2>1. localPc'[v] = localPc[v] /\ reply'[v] = reply[v] /\ created'[v] = created[v]
    BY <1>1, <1>3, InnerSteps DEF Framed
  <2> QED BY <1>1, <1>3, <2>1, FrameStays DEF CreationInv
<1>4. Creation(w)'
  <2>1. pc[w] = "inner" /\ created[w] = 0
    BY InnerSteps DEF CreationInv, Creation, Seen
  <2>2. created'[w] = IF seq' # seq THEN 1 ELSE 0
    BY <1>1, <2>1 DEF Framed
  <2> QED BY <1>1, <2>1, <2>2, InnerSteps DEF CreationInv, Creation, Seen
<1> QED BY <1>2, <1>3, <1>4 DEF CreationInv

LEMMA FInvStep == FInv /\ TypeOK' /\ [FNext]_allVars => FInv'
<1> SUFFICES ASSUME FInv, TypeOK', [FNext]_allVars PROVE Framed' /\ CreationInv'
  BY DEF FInv
<1> USE DEF FInv
<1>1. ASSUME NEW w \in Workers, NEW u \in Upstreams, FArrive(w, u)
      PROVE  Framed' /\ CreationInv'
  <2>1. PICK r \in Operations, d \in DebugHeaders, t \in Timeouts :
          Arrive(w, u, MethodOf(r), d, t)
    BY <1>1 DEF FArrive
  <2>2. /\ localPc' = [localPc EXCEPT ![w] =
              IF pc[w] # "inner" /\ pc'[w] = "inner" THEN "forward" ELSE @]
        /\ reply' = reply /\ created' = created
    BY <1>1 DEF FArrive, CallsInner
  <2>3. ASSUME NEW v \in Workers, v # w PROVE Creation(v)'
    <3>1. /\ pc'[v] = pc[v] /\ resp'[v] = resp[v] /\ cancelled'[v] = cancelled[v]
          /\ req'[v] = req[v] /\ clock' = clock
      BY <2>1, <2>3 DEF TypeOK, shared, Goto, Arrive
    <3> QED BY <2>2, <2>3, <3>1, FrameStays DEF Framed, CreationInv
  <2>4. Creation(w)'
    BY <2>1, <2>2 DEF Framed, CreationInv, Creation, Seen, TypeOK, Arrive, Goto
  <2> QED BY <2>2, <2>3, <2>4 DEF Framed, CreationInv
<1>2. ASSUME NEW w \in Workers, Govern(w) \/ Inner(w) PROVE Framed' /\ CreationInv'
  BY <1>2, GovernKeeps, InnerKeeps
<1>3. ASSUME NEW w \in Workers, FInnerReturn(w) PROVE Framed' /\ CreationInv'
  <2>1. ASSUME NEW v \in Workers, v # w PROVE Creation(v)'
    <3>1. /\ pc'[v] = pc[v] /\ resp'[v] = resp[v] /\ cancelled'[v] = cancelled[v]
          /\ req'[v] = req[v] /\ clock' = clock
          /\ localPc'[v] = localPc[v] /\ reply'[v] = reply[v] /\ created'[v] = created[v]
      BY <1>3, <2>1 DEF Framed, TypeOK, shared, Goto, Respond, InnerReturn, FInnerReturn
    <3> QED BY <2>1, <3>1, FrameStays DEF CreationInv
  <2>2. Creation(w)'
    BY <1>3 DEF Framed, CreationInv, Creation, Seen, TypeOK, shared, Goto, Respond,
                InnerReturn, FInnerReturn, StatusClass
  <2> QED BY <1>3, <2>1, <2>2 DEF Framed, CreationInv, FInnerReturn
<1>4. ASSUME NEW w \in Workers, FReturn(w) PROVE Framed' /\ CreationInv'
  <2>1. ASSUME NEW v \in Workers, v # w PROVE Creation(v)'
    <3>1. /\ pc'[v] = pc[v] /\ resp'[v] = resp[v] /\ cancelled'[v] = cancelled[v]
          /\ req'[v] = req[v] /\ clock' = clock
          /\ localPc'[v] = localPc[v] /\ reply'[v] = reply[v] /\ created'[v] = created[v]
      BY <1>4, <2>1 DEF Framed, TypeOK, shared, Goto, Respond, Return, FReturn
    <3> QED BY <2>1, <3>1, FrameStays DEF CreationInv
  <2>2. Creation(w)'
    BY <1>4 DEF Framed, CreationInv, Creation, Seen, TypeOK, Goto, Return, FReturn
  <2> QED BY <1>4, <2>1, <2>2 DEF Framed, CreationInv, FReturn
<1>5. CASE FTick
  <2>1. /\ UNCHANGED <<pc, resp, cancelled, req, localPc, reply, created>>
        /\ clock' = clock + 1
    BY <1>5 DEF FTick, Tick, locals, localVars
  <2>2. ASSUME NEW v \in Workers PROVE Creation(v)'
    <3>1. pc[v] # "idle" => req[v].deadline \in Nat
      BY DEF TypeOK, Requests
    <3> QED BY <2>1, <3>1 DEF CreationInv, Creation, Seen, TypeOK
  <2> QED BY <2>1, <2>2 DEF Framed, CreationInv
<1>6. CASE UNCHANGED allVars
  BY <1>6 DEF allVars, vars, shared, locals, localVars, Framed, CreationInv, Creation, Seen
<1> QED BY <1>1, <1>2, <1>3, <1>4, <1>5, <1>6 DEF FNext, FRun

LEMMA FInvHolds == FSpec => []FInv
<1>1. FInit /\ TypeOK => FInv
  BY DEF FInit, Init, FInv, Framed, CreationInv, Creation
<1> QED BY <1>1, FInvStep, ForwardingTyped, PTL DEF FSpec

\* One call of Forward creates one record at most, with any number of retries.
THEOREM CreatedAtMostOnce == FSpec => []AtMostOnce
<1>1. FInv => AtMostOnce
  <2> SUFFICES ASSUME FInv, NEW w \in Workers PROVE created[w] <= 1
    BY DEF AtMostOnce
  <2>1. created[w] = 0 \/ created[w] = 1
    BY DEF FInv, CreationInv, Creation
  <2> QED BY <2>1
<1> QED BY <1>1, FInvHolds, PTL

\* A client that hears of a failure although its record was created hears of it
\* after its deadline.
THEOREM LostAnswersCameLate == FSpec => []LostAnswersAreLate
<1>1. FInv => LostAnswersAreLate
  BY DEF FInv, Framed, CreationInv, Creation, Seen, LostAnswersAreLate
<1> QED BY <1>1, FInvHolds, PTL
=============================================================================
