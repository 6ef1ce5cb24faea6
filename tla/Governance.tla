----------------------------- MODULE Governance -----------------------------
(***************************************************************************)
(* GovernanceUpstreamClient: the decorator every forwarded request passes  *)
(* through.  Worker threads run Forward concurrently; they share the       *)
(* circuit breaker table circuit_states_ under mutex_, and each reads the  *)
(* steady clock BEFORE it takes that mutex, so the time a worker acts on   *)
(* may be old when it gets the lock.                                       *)
(*                                                                         *)
(* A worker's step is the code between two points where another thread, or *)
(* the clock, can make a difference.  Responses are abstracted to what     *)
(* Forward tells apart: "ok" (status < 500), "error" (>= 500), "timeout"   *)
(* (504 built here), "open" (503 built here) and "fallback" (degraded 200).*)
(***************************************************************************)
EXTENDS Integers

CONSTANTS
    Workers,                    \* threads of the gateway's worker pool
    Upstreams,                  \* names of the upstream services
    Methods,                    \* HTTP methods of the requests
    DebugHeaders,               \* sets of debug headers a request may carry
    Timeouts,                   \* route timeouts, in clock ticks
    Configs,                    \* governance configurations to consider
    FailureThreshold,           \* circuit_breaker.failure_threshold
    OpenSeconds,                \* circuit_breaker.open_seconds, in clock ticks
    HalfOpenSuccessThreshold,   \* circuit_breaker.half_open_success_threshold
    MaxTime                     \* bound: the clock stops here

\* GovernanceConfig without the thresholds, which are constants above.
\* backoff is retry.backoff_ms > 0.
ConfigType ==
    [enabled : BOOLEAN, breaker : BOOLEAN, retry : BOOLEAN, maxAttempts : Int,
     backoff : BOOLEAN, retryNonIdempotent : BOOLEAN, fallback : BOOLEAN]

\* The loader rejects thresholds and timeouts that are not positive.
ASSUME ConfigAssumption == Configs \subseteq ConfigType
ASSUME ThresholdAssumption ==
    /\ FailureThreshold \in Nat \ {0}
    /\ HalfOpenSuccessThreshold \in Nat \ {0}
    /\ OpenSeconds \in Nat \ {0}
ASSUME TimeAssumption == Timeouts \subseteq Nat \ {0} /\ MaxTime \in Nat
ASSUME DebugAssumption == DebugHeaders \subseteq SUBSET {"sleep", "force"}

VARIABLES
    config,     \* the GovernanceConfig of this process, fixed at start
    clock,      \* std::chrono::steady_clock
    circuit,    \* circuit_states_, one CircuitBreakerRuntimeState per upstream
    pc,         \* where each worker is in Forward
    req,        \* the ForwardContext a worker was called with
    cancelled,  \* DeadlineContext::cancelled_ of that request
    attempt,    \* loop variable of Forward
    now,        \* the clock value read before taking mutex_, 0 when out of scope
    resp,       \* response / last_response of Forward
    \* History, read by properties only:
    calls,      \* inner_->Forward calls made for this request
    records,    \* RecordResult calls made for this request
    returned,   \* clock when the last inner_->Forward returned
    openings,   \* openings[u]: how often u's breaker went to OPEN
    admitted    \* openings[u] when AllowRequest admitted this request

shared == <<config, clock, circuit>>
locals == <<pc, req, cancelled, attempt, now, resp>>
history == <<calls, records, returned, openings, admitted>>
vars == <<shared, locals, history>>

-----------------------------------------------------------------------------
(* Vocabulary *)

Responses == {"none", "ok", "error", "timeout", "open", "fallback"}

Steps == {"idle", "allow", "top", "call", "inner", "post", "record",
          "backoff", "finish", "done"}

CircuitType ==
    [state : {"CLOSED", "OPEN", "HALF_OPEN"}, consecutive_failures : Nat,
     consecutive_successes : Nat, open_until : Nat]

Requests ==
    [upstream : Upstreams, method : Methods, debug : DebugHeaders,
     deadline : Nat]

\* What a worker that runs nothing holds in place of a request.
NoRequest == [upstream |-> "none"]

IsIdempotentMethod(m) == m \in {"GET", "HEAD", "OPTIONS"}

CanRetryMethod(r) == IsIdempotentMethod(r.method) \/ config.retryNonIdempotent

IsFailureResponse(r) == r \in {"error", "timeout", "open"}

MaxAttempts ==
    IF config.retry /\ config.maxAttempts > 0 THEN config.maxAttempts ELSE 1

\* Mutation: only the flag is looked at, not the clock.
CancelledOnly(w) == cancelled[w]

\* DeadlineContext::IsDone: cancelled, or the clock has reached the deadline.
DeadlineExceeded(w) == cancelled[w] \/ clock >= req[w].deadline

\* SleepUntilReadyOrDeadline, however long it sleeps, may return ready and
\* leave cancelled_ = c.  The sleep loop cancels the deadline as soon as
\* RemainingMs, which truncates, is 0: up to one tick early.  The check after
\* the loop reports an expired deadline without cancelling it.
SleepEnds(w, ready, c) ==
    \/ ready /\ ~DeadlineExceeded(w) /\ c = cancelled[w]
    \/ ~ready /\ DeadlineExceeded(w) /\ c = cancelled[w]
    \/ ~ready /\ c /\ (cancelled[w] \/ clock + 1 >= req[w].deadline)

-----------------------------------------------------------------------------
(* The circuit breaker table, as changed under mutex_ *)

\* AllowRequest's answer for breaker state c at the time t read before the lock.
Admits(c, t) == c.state # "OPEN" \/ t >= c.open_until

\* Mutation: the last tick of the open period does not count as its end.
AfterAllowLate(c, t) ==
    IF c.state = "OPEN" /\ t > c.open_until
      THEN [c EXCEPT !.state = "HALF_OPEN", !.consecutive_successes = 0]
      ELSE c

\* AllowRequest's effect: an open breaker whose time is over becomes half-open.
AfterAllow(c, t) ==
    IF c.state = "OPEN" /\ t >= c.open_until
      THEN [c EXCEPT !.state = "HALF_OPEN", !.consecutive_successes = 0]
      ELSE c

\* Mutation: a success takes one failure back instead of all.
ForgiveOneFailure(c) ==
    IF c.state # "HALF_OPEN"
      THEN [c EXCEPT !.consecutive_failures = @ - 1]
      ELSE [c EXCEPT !.consecutive_failures = @ - 1, !.state = "CLOSED"]

\* Mutation: closing a half-open breaker keeps its failures.
CloseKeepsFailures(c) ==
    IF c.state # "HALF_OPEN"
      THEN [c EXCEPT !.consecutive_failures = 0]
      ELSE IF c.consecutive_successes + 1 >= HalfOpenSuccessThreshold
      THEN [c EXCEPT !.consecutive_successes = 0, !.state = "CLOSED"]
      ELSE [c EXCEPT !.consecutive_successes = @ + 1]

RecordSuccess(c) ==
    IF c.state # "HALF_OPEN"
      THEN [c EXCEPT !.consecutive_failures = 0]
      ELSE IF c.consecutive_successes + 1 >= HalfOpenSuccessThreshold
      THEN [c EXCEPT !.consecutive_failures = 0, !.consecutive_successes = 0,
                     !.state = "CLOSED"]
      ELSE [c EXCEPT !.consecutive_failures = 0, !.consecutive_successes = @ + 1]

\* Mutation: a failed probe is counted but does not open the breaker again.
ProbeFailureCounted(c, t) ==
    IF c.consecutive_failures + 1 >= FailureThreshold
      THEN [c EXCEPT !.consecutive_failures = @ + 1, !.consecutive_successes = 0,
                     !.state = "OPEN", !.open_until = t + OpenSeconds]
      ELSE [c EXCEPT !.consecutive_failures = @ + 1, !.consecutive_successes = 0]

RecordFailure(c, t) ==
    IF c.state = "HALF_OPEN" \/ c.consecutive_failures + 1 >= FailureThreshold
      THEN [c EXCEPT !.consecutive_failures = @ + 1, !.consecutive_successes = 0,
                     !.state = "OPEN", !.open_until = t + OpenSeconds]
      ELSE [c EXCEPT !.consecutive_failures = @ + 1, !.consecutive_successes = 0]

-----------------------------------------------------------------------------
(* The specification *)

Init ==
    /\ config \in Configs
    /\ clock = 0
    /\ circuit = [u \in Upstreams |->
         [state |-> "CLOSED", consecutive_failures |-> 0,
          consecutive_successes |-> 0, open_until |-> 0]]
    /\ pc = [w \in Workers |-> "idle"]
    /\ req = [w \in Workers |-> NoRequest]
    /\ cancelled = [w \in Workers |-> FALSE]
    /\ attempt = [w \in Workers |-> 0]
    /\ now = [w \in Workers |-> 0]
    /\ resp = [w \in Workers |-> "none"]
    /\ calls = [w \in Workers |-> 0]
    /\ records = [w \in Workers |-> 0]
    /\ returned = [w \in Workers |-> 0]
    /\ openings = [u \in Upstreams |-> 0]
    /\ admitted = [w \in Workers |-> 0]

Goto(w, step) == pc' = [pc EXCEPT ![w] = step]

Respond(w, r) == resp' = [resp EXCEPT ![w] = r]

\* A worker starts Forward for a fresh ForwardContext, whose deadline starts
\* to run.  Without governance it calls the inner client at once; with the
\* breaker it reads the clock and goes for mutex_ in AllowRequest.
Arrive(w, u, m, d, t) ==
    /\ pc[w] = "idle"
    /\ req' = [req EXCEPT ![w] = [upstream |-> u, method |-> m, debug |-> d,
                                  deadline |-> clock + t]]
    /\ IF config.enabled
         THEN /\ Goto(w, IF config.breaker THEN "allow" ELSE "top")
              /\ now' = [now EXCEPT ![w] = IF config.breaker THEN clock ELSE 0]
              /\ UNCHANGED calls
         ELSE /\ Goto(w, "inner")
              /\ calls' = [calls EXCEPT ![w] = 1]
              /\ UNCHANGED now
    /\ UNCHANGED <<shared, cancelled, attempt, resp, records, returned,
                   openings, admitted>>

\* AllowRequest under mutex_; a rejected request is answered at once by
\* CircuitOpenResponse.
AllowRequest(w) ==
    LET u == req[w].upstream IN
    /\ pc[w] = "allow"
    /\ circuit' = [circuit EXCEPT ![u] = AfterAllow(@, now[w])]
    /\ IF Admits(circuit[u], now[w])
         THEN /\ Goto(w, "top")
              /\ admitted' = [admitted EXCEPT ![w] = openings[u]]
              /\ UNCHANGED resp
         ELSE /\ Goto(w, "done")
              /\ Respond(w, IF config.fallback THEN "fallback" ELSE "open")
              /\ UNCHANGED admitted
    /\ now' = [now EXCEPT ![w] = 0]
    /\ UNCHANGED <<config, clock, req, cancelled, attempt, calls, records,
                   returned, openings>>

\* Mutation: an expired deadline starts the loop's body again, uncounted.
NextAttemptContinues(w) ==
    /\ pc[w] = "top"
    /\ IF DeadlineExceeded(w)
         THEN /\ cancelled' = [cancelled EXCEPT ![w] = TRUE]
              /\ Respond(w, "timeout")
              /\ UNCHANGED <<pc, attempt>>
         ELSE /\ attempt[w] < MaxAttempts
              /\ attempt' = [attempt EXCEPT ![w] = @ + 1]
              /\ Goto(w, "call")
              /\ UNCHANGED <<cancelled, resp>>
    /\ UNCHANGED <<shared, req, now, history>>

\* Head of the attempt loop.  A deadline that is over ends the loop without
\* telling the breaker.
NextAttempt(w) ==
    /\ pc[w] = "top"
    /\ attempt[w] < MaxAttempts
    /\ attempt' = [attempt EXCEPT ![w] = @ + 1]
    /\ IF DeadlineExceeded(w)
         THEN /\ cancelled' = [cancelled EXCEPT ![w] = TRUE]
              /\ Respond(w, "timeout")
              /\ Goto(w, "finish")
         ELSE /\ Goto(w, "call")
              /\ UNCHANGED <<cancelled, resp>>
    /\ UNCHANGED <<shared, req, now, history>>

\* CallOnce up to the call of the inner client: the debug sleep and the
\* deadline check that give a timeout, the forced failure, or the call.
CallTimesOut(w) ==
    /\ pc[w] = "call"
    /\ \E c \in BOOLEAN :
         /\ IF "sleep" \in req[w].debug
              THEN SleepEnds(w, FALSE, c)
              ELSE DeadlineExceeded(w) /\ c
         /\ cancelled' = [cancelled EXCEPT ![w] = c]
    /\ Respond(w, "timeout")
    /\ Goto(w, "post")
    /\ UNCHANGED <<shared, req, attempt, now, history>>

CallOnce(w) ==
    /\ pc[w] = "call"
    /\ ~DeadlineExceeded(w)
    /\ IF "force" \in req[w].debug
         THEN /\ Respond(w, "error")
              /\ Goto(w, "post")
              /\ UNCHANGED calls
         ELSE /\ calls' = [calls EXCEPT ![w] = @ + 1]
              /\ Goto(w, "inner")
              /\ UNCHANGED resp
    /\ UNCHANGED <<shared, req, cancelled, attempt, now, records, returned,
                   openings, admitted>>

\* The inner client answers, with any outcome and after any delay.
InnerReturn(w) ==
    /\ pc[w] = "inner"
    /\ \E r \in {"ok", "error"} : Respond(w, r)
    /\ returned' = [returned EXCEPT ![w] = clock]
    /\ Goto(w, IF config.enabled THEN "post" ELSE "done")
    /\ UNCHANGED <<shared, req, cancelled, attempt, now, calls, records,
                   openings, admitted>>

\* Mutation: a timeout ends the loop before the breaker hears of it.
CheckTimeoutUnrecorded(w) ==
    /\ pc[w] = "post"
    /\ IF DeadlineExceeded(w)
         THEN /\ cancelled' = [cancelled EXCEPT ![w] = TRUE]
              /\ Respond(w, "timeout")
              /\ Goto(w, "finish")
              /\ UNCHANGED now
         ELSE /\ now' = [now EXCEPT ![w] = clock]
              /\ Goto(w, "record")
              /\ UNCHANGED <<cancelled, resp>>
    /\ UNCHANGED <<shared, req, attempt, history>>

\* Mutation: a timeout gives the next attempt a deadline of its own.
CheckTimeoutRenews(w) ==
    /\ pc[w] = "post"
    /\ IF DeadlineExceeded(w)
         THEN /\ req' = [req EXCEPT ![w].deadline = clock + 1]
              /\ Respond(w, "timeout")
         ELSE UNCHANGED <<req, resp>>
    /\ now' = [now EXCEPT ![w] = clock]
    /\ Goto(w, "record")
    /\ UNCHANGED <<shared, cancelled, attempt, history>>

\* Mutation: RemainingMs, which truncates, decides that an answer is late.
CheckTimeoutByRemaining(w) ==
    /\ pc[w] = "post"
    /\ IF cancelled[w] \/ clock + 1 >= req[w].deadline
         THEN /\ cancelled' = [cancelled EXCEPT ![w] = TRUE]
              /\ Respond(w, "timeout")
         ELSE UNCHANGED <<cancelled, resp>>
    /\ now' = [now EXCEPT ![w] = clock]
    /\ Goto(w, "record")
    /\ UNCHANGED <<shared, req, attempt, history>>

\* Back in Forward: an answer that comes after the deadline is replaced by a
\* timeout; then RecordResult reads the clock and goes for mutex_.
CheckTimeout(w) ==
    /\ pc[w] = "post"
    /\ IF DeadlineExceeded(w)
         THEN /\ cancelled' = [cancelled EXCEPT ![w] = TRUE]
              /\ Respond(w, "timeout")
         ELSE UNCHANGED <<cancelled, resp>>
    /\ now' = [now EXCEPT ![w] = clock]
    /\ Goto(w, "record")
    /\ UNCHANGED <<shared, req, attempt, history>>

\* Mutation: the method is not asked.
RetryAnyMethod(w) == config.retry /\ attempt[w] < MaxAttempts

ShouldRetry(w) ==
    /\ config.retry
    /\ attempt[w] < MaxAttempts
    /\ CanRetryMethod(req[w])

\* What Forward does after RecordResult.
AfterRecord(w) ==
    IF ~IsFailureResponse(resp[w]) THEN "done"
    ELSE IF ~ShouldRetry(w) THEN "finish"
    ELSE IF config.backoff THEN "backoff" ELSE "top"

RecordResult(w) ==
    LET u == req[w].upstream
        c == IF IsFailureResponse(resp[w])
               THEN RecordFailure(circuit[u], now[w])
               ELSE RecordSuccess(circuit[u])
    IN
    /\ pc[w] = "record"
    /\ IF config.breaker
         THEN /\ circuit' = [circuit EXCEPT ![u] = c]
              /\ openings' = [openings EXCEPT ![u] =
                   IF c.state = "OPEN" /\ circuit[u].state # "OPEN" THEN @ + 1 ELSE @]
              /\ records' = [records EXCEPT ![w] = @ + 1]
         ELSE UNCHANGED <<circuit, openings, records>>
    /\ Goto(w, AfterRecord(w))
    /\ now' = [now EXCEPT ![w] = 0]
    /\ UNCHANGED <<config, clock, req, cancelled, attempt, resp, calls,
                   returned, admitted>>

\* The backoff sleep ends; if the deadline ended it, so does the loop.
Backoff(w) ==
    /\ pc[w] = "backoff"
    /\ \E ready, c \in BOOLEAN :
         /\ SleepEnds(w, ready, c)
         /\ cancelled' = [cancelled EXCEPT ![w] = c]
         /\ Respond(w, IF ready THEN resp[w] ELSE "timeout")
         /\ Goto(w, IF ready THEN "top" ELSE "finish")
    /\ UNCHANGED <<shared, req, attempt, now, history>>

\* After the loop: fallback replaces a failure.
Finish(w) ==
    /\ pc[w] = "finish"
    /\ Respond(w, IF IsFailureResponse(resp[w]) /\ config.fallback
                    THEN "fallback" ELSE resp[w])
    /\ Goto(w, "done")
    /\ UNCHANGED <<shared, req, cancelled, attempt, now, history>>

\* Forward returns its response and the worker's frame is gone.
Return(w) ==
    /\ pc[w] = "done"
    /\ Goto(w, "idle")
    /\ req' = [req EXCEPT ![w] = NoRequest]
    /\ cancelled' = [cancelled EXCEPT ![w] = FALSE]
    /\ attempt' = [attempt EXCEPT ![w] = 0]
    /\ Respond(w, "none")
    /\ calls' = [calls EXCEPT ![w] = 0]
    /\ records' = [records EXCEPT ![w] = 0]
    /\ returned' = [returned EXCEPT ![w] = 0]
    /\ admitted' = [admitted EXCEPT ![w] = 0]
    /\ UNCHANGED <<shared, now, openings>>

Tick ==
    /\ clock < MaxTime
    /\ clock' = clock + 1
    /\ UNCHANGED <<config, circuit, locals, history>>

ArriveFor(u) ==
    \E w \in Workers, m \in Methods, d \in DebugHeaders, t \in Timeouts :
        Arrive(w, u, m, d, t)

\* The steps a worker takes once Forward was called.
Run(w) ==
    \/ AllowRequest(w) \/ NextAttempt(w) \/ CallTimesOut(w) \/ CallOnce(w)
    \/ InnerReturn(w) \/ CheckTimeout(w) \/ RecordResult(w) \/ Backoff(w)
    \/ Finish(w) \/ Return(w)

Next ==
    \/ \E u \in Upstreams : ArriveFor(u)
    \/ \E w \in Workers : Run(w)
    \/ Tick

Spec == Init /\ [][Next]_vars

-----------------------------------------------------------------------------
(* Properties *)

\* Every variable has its type; the breaker's counters stay natural numbers.
TypeOK ==
    /\ config \in Configs
    /\ clock \in Nat
    /\ circuit \in [Upstreams -> CircuitType]
    /\ pc \in [Workers -> Steps]
    /\ req \in [Workers -> Requests \cup {NoRequest}]
    /\ \A w \in Workers : pc[w] # "idle" => req[w] \in Requests
    /\ cancelled \in [Workers -> BOOLEAN]
    /\ attempt \in [Workers -> Nat]
    /\ now \in [Workers -> Nat]
    /\ resp \in [Workers -> Responses]
    /\ calls \in [Workers -> Nat]
    /\ records \in [Workers -> Nat]
    /\ returned \in [Workers -> Nat]
    /\ openings \in [Upstreams -> Nat]
    /\ admitted \in [Workers -> Nat]

Consistent(c) ==
    /\ c.state = "CLOSED" => c.consecutive_failures < FailureThreshold
    /\ c.state # "HALF_OPEN" => c.consecutive_successes = 0
    /\ c.state = "HALF_OPEN" => c.consecutive_successes < HalfOpenSuccessThreshold

\* The counters of a breaker fit its state: a closed breaker has not reached
\* the failure threshold and carries no successes over, an open one carries no
\* successes into its next half-open phase, a half-open one has not reached
\* the threshold that closes it (RecordResult, AllowRequest).
BreakerConsistent == \A u \in Upstreams : Consistent(circuit[u])

Admitted(w) ==
    pc[w] \in {"top", "call", "inner", "post", "record", "backoff"}

\* While a breaker is open, every request that still works on its upstream
\* was admitted before the breaker opened: retries may go on, nothing new gets
\* through, whatever stale time the workers in AllowRequest hold.
OpenAdmitsNobody ==
    \A w \in Workers :
        (Admitted(w) /\ config.enabled /\ config.breaker
           /\ circuit[req[w].upstream].state = "OPEN")
          => admitted[w] < openings[req[w].upstream]

\* OpenAdmitsNobody strengthened so that it is inductive.
AdmissionInv ==
    config.enabled /\ config.breaker =>
        \A w \in Workers : Admitted(w) =>
            LET u == req[w].upstream IN
            /\ admitted[w] <= openings[u]
            /\ circuit[u].state = "OPEN" => admitted[w] < openings[u]

\* A request whose method is not idempotent reaches the upstream at most once
\* unless retry_non_idempotent is set, and no request reaches it more often
\* than retry.max_attempts allows (should_retry and the loop bound of Forward).
CallsBounded ==
    \A w \in Workers : pc[w] # "idle" =>
        /\ calls[w] <= MaxAttempts
        /\ ~CanRetryMethod(req[w]) => calls[w] <= 1

\* CallsBounded strengthened so that it is inductive: how calls, attempts and
\* the permission to retry are related at every step of Forward.
CallsInv ==
    \A w \in Workers :
        /\ pc[w] \notin {"idle", "inner", "done"} => config.enabled
        /\ pc[w] \in {"idle", "allow"} => calls[w] = 0 /\ attempt[w] = 0
        /\ pc[w] \in {"top", "backoff"} =>
             /\ calls[w] <= attempt[w] /\ attempt[w] < MaxAttempts
             /\ CanRetryMethod(req[w]) \/ attempt[w] = 0
        /\ pc[w] = "call" =>
             /\ calls[w] < attempt[w] /\ attempt[w] <= MaxAttempts
             /\ CanRetryMethod(req[w]) \/ attempt[w] = 1
        /\ pc[w] \in {"inner", "post", "record", "finish", "done"} =>
             /\ config.enabled => calls[w] <= attempt[w] /\ attempt[w] <= MaxAttempts
             /\ ~config.enabled => calls[w] <= 1
             /\ CanRetryMethod(req[w]) \/ calls[w] <= 1

\* When Forward goes on to another attempt or ends, the breaker has been told
\* the outcome of every upstream call the request made, timeouts included.
OutcomesRecorded ==
    config.enabled /\ config.breaker =>
        \A w \in Workers :
            pc[w] \in {"top", "backoff", "finish", "done"} => calls[w] <= records[w]

\* OutcomesRecorded strengthened so that it is inductive: one call at most is
\* not recorded yet, and only between the call and RecordResult.
RecordsInv ==
    config.enabled /\ config.breaker =>
        \A w \in Workers :
            /\ calls[w] <= records[w] + 1
            /\ pc[w] \notin {"inner", "post", "record"} => calls[w] <= records[w]

\* A success that governance hands out is the upstream's own answer, and the
\* upstream gave it before the request's deadline.
SuccessIsTimely ==
    config.enabled =>
        \A w \in Workers : pc[w] = "done" /\ resp[w] = "ok" =>
            calls[w] >= 1 /\ returned[w] < req[w].deadline

\* SuccessIsTimely strengthened so that it is inductive: where a success may be
\* held, and what is known of it there.
TimelyInv ==
    config.enabled =>
        \A w \in Workers :
            /\ pc[w] = "inner" => calls[w] >= 1
            /\ resp[w] = "ok" =>
                 /\ pc[w] \in {"post", "record", "done"}
                 /\ calls[w] >= 1 /\ returned[w] <= clock
                 /\ pc[w] # "post" => returned[w] < req[w].deadline

\* Every call of Forward returns.
ForwardReturns == \A w \in Workers : pc[w] # "idle" ~> pc[w] = "idle"

\* A breaker does not stay open for ever: when its time is over before the
\* clock's bound and requests keep coming for its upstream, it is probed (or a
\* late failure has pushed its time past the bound).
BreakerRecovers ==
    \A u \in Upstreams :
        []<><<ArriveFor(u)>>_vars =>
            ((circuit[u].state = "OPEN" /\ circuit[u].open_until <= MaxTime)
               ~> (circuit[u].state # "OPEN" \/ circuit[u].open_until > MaxTime))

-----------------------------------------------------------------------------
(* Refinement: the table, read through the counter that matters in each state, *)
(* behaves as the abstract breaker does.                                       *)

Mode == [u \in Upstreams |-> circuit[u].state]
ResultRun == [u \in Upstreams |->
    IF circuit[u].state = "CLOSED" THEN circuit[u].consecutive_failures
    ELSE IF circuit[u].state = "HALF_OPEN" THEN circuit[u].consecutive_successes
    ELSE 0]

Abstract == INSTANCE CircuitBreaker WITH mode <- Mode, run <- ResultRun

\* The breakers of GovernanceUpstreamClient implement CircuitBreaker, late
\* results, stale clocks and concurrent probes included: they open only after
\* FailureThreshold failures in a row, counted from their closing, and close
\* only after HalfOpenSuccessThreshold successes in a row, counted from their
\* half-opening.
ImplementsCircuitBreaker == Abstract!Spec
=============================================================================
