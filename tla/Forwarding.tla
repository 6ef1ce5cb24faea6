----------------------------- MODULE Forwarding -----------------------------
(***************************************************************************)
(* The upstream path as main.cc wires it: GovernanceUpstreamClient around  *)
(* LocalRpcUpstreamClient and its services.  Both look at one              *)
(* DeadlineContext, which the request carries.                             *)
(*                                                                         *)
(* Governance takes the inner client by any answer at any time; here that  *)
(* answer is what the client and the services come to, step by step.       *)
(***************************************************************************)
EXTENDS Governance

CONSTANTS
    Operations,     \* the requests of LocalRpc that clients send
    MaxIds          \* bound: records a service creates

VARIABLES
    operation,      \* the method and path of each worker's request, for LocalRpc
    localPc,        \* where it is in LocalRpcUpstreamClient::Forward
    reply,          \* that call's response
    store, seq,     \* the services' maps and sequence numbers
    wrote, issued,  \* history of LocalRpc
    created         \* history: records created for this request, by all its calls

localVars == <<localPc, reply, store, seq, wrote, issued>>
allVars == <<vars, operation, localVars, created>>

Local == INSTANCE LocalRpc
    WITH pc <- localPc, request <- operation,
         expired <- [w \in Workers |-> pc[w] # "idle" /\ DeadlineExceeded(w)],
         Events <- {"event"}, MaxRequests <- 0, arrived <- 0,
         known <- [w \in Workers |-> FALSE]

ASSUME OperationsAssumption == Operations \subseteq Local!Requests
ASSUME MethodsAssumption == {"GET", "POST"} \subseteq Methods

FInit ==
    /\ Init
    /\ operation = [w \in Workers |-> Local!NoRequest]
    /\ localPc = [w \in Workers |-> "idle"]
    /\ reply = [w \in Workers |-> Local!Reply("none", 0, Local!NoRecord)]
    /\ store = [k \in Local!Kinds |-> Local!Empty]
    /\ seq = [k \in Local!Kinds |-> 0]
    /\ wrote = [w \in Workers |-> FALSE]
    /\ issued = [k \in Local!Kinds |-> Local!Empty]
    /\ created = [w \in Workers |-> 0]

-----------------------------------------------------------------------------
\* The method that the operation's path is registered for.
MethodOf(r) == IF r.op \in {"get", "profile"} THEN "GET" ELSE "POST"

\* Governance calls inner_->Forward in the steps that lead to "inner".
CallsInner(w) ==
    localPc' = [localPc EXCEPT ![w] =
        IF pc[w] # "inner" /\ pc'[w] = "inner" THEN "forward" ELSE @]

\* A request comes in.  The bound leaves room for what it may create.
FArrive(w, u) ==
    /\ \E r \in Operations, d \in DebugHeaders, t \in Timeouts :
         /\ r.op = "create" => seq[r.kind] < MaxIds
         /\ Arrive(w, u, MethodOf(r), d, t)
         /\ operation' = [operation EXCEPT ![w] = r]
    /\ CallsInner(w)
    /\ UNCHANGED <<reply, store, seq, wrote, issued, created>>

\* A step of Governance other than the return of the inner client and its own.
Govern(w) ==
    /\ \/ AllowRequest(w) \/ NextAttempt(w) \/ CallTimesOut(w) \/ CallOnce(w)
       \/ CheckTimeout(w) \/ RecordResult(w) \/ Backoff(w) \/ Finish(w)
    /\ CallsInner(w)
    /\ UNCHANGED <<operation, reply, store, seq, wrote, issued, created>>

\* A step of the inner client.
Inner(w) ==
    /\ UNCHANGED <<vars, operation>>
    /\ Local!ForwardStep(w) \/ Local!UserReply(w)
    /\ created' = [created EXCEPT ![w] = IF seq' # seq THEN @ + 1 ELSE @]

\* MapHttpStatus and its neighbours, as far as Governance tells them apart.
StatusClass(code) ==
    IF code \in {"timeout", "failed", "internal error"} THEN "error" ELSE "ok"

FInnerReturn(w) ==
    /\ localPc[w] = "done"
    /\ InnerReturn(w)
    /\ resp'[w] = StatusClass(reply[w].code)
    /\ localPc' = [localPc EXCEPT ![w] = "idle"]
    /\ reply' = [reply EXCEPT ![w] = Local!Reply("none", 0, Local!NoRecord)]
    /\ UNCHANGED <<operation, store, seq, wrote, issued, created>>

FReturn(w) ==
    /\ Return(w)
    /\ operation' = [operation EXCEPT ![w] = Local!NoRequest]
    /\ wrote' = [wrote EXCEPT ![w] = FALSE]
    /\ created' = [created EXCEPT ![w] = 0]
    /\ UNCHANGED <<localPc, reply, store, seq, issued>>

FRun(w) == Govern(w) \/ Inner(w) \/ FInnerReturn(w) \/ FReturn(w)

FTick == Tick /\ UNCHANGED <<operation, localVars, created>>

FNext ==
    \/ \E w \in Workers : FRun(w) \/ \E u \in Upstreams : FArrive(w, u)
    \/ FTick

FSpec == FInit /\ [][FNext]_allVars

\* A runnable thread runs, no mutex is held for longer than a few assignments,
\* and the clock advances.  Nothing obliges requests to arrive.
FFairSpec == FSpec /\ WF_allVars(FTick) /\ \A w \in Workers : WF_allVars(FRun(w))

-----------------------------------------------------------------------------
(* Properties *)

\* One call of Forward creates one record at most, although the retry loop
\* calls the service again, also with retry_non_idempotent: a creation that
\* succeeded is repeated only if its answer was too late, and the deadline that
\* made it late is the one the next attempt, the client and the service look at.
AtMostOnce == \A w \in Workers : created[w] <= 1

\* A client that is told of a failure, or gets the fallback, for a request that
\* did create its record, got that answer after its deadline: retries, breaker
\* and fallback never hide a success that was in time.
LostAnswersAreLate ==
    \A w \in Workers :
        pc[w] = "done" /\ created[w] > 0 /\ resp[w] # "ok" => clock >= req[w].deadline

\* The strengthening that makes both inductive: where the record of a request
\* that created one, or the deadline that keeps it from a second, is to be seen.
Seen(w) ==
    \/ pc[w] = "inner" /\ localPc[w] = "done" /\ reply[w].code = "ok"
    \/ pc[w] = "post" /\ resp[w] = "ok"
    \/ pc[w] \in {"record", "done"} /\ resp[w] = "ok"
    \/ pc[w] \in {"record", "top", "backoff", "finish", "done"} /\ clock >= req[w].deadline
Creation(w) ==
    /\ pc[w] # "inner" => localPc[w] = "idle"
    /\ pc[w] \in {"idle", "allow", "call"} => created[w] = 0
    /\ created[w] \in {0, 1}
    /\ created[w] = 1 => Seen(w)
    /\ pc[w] \in {"idle", "allow", "inner"} \/ (pc[w] = "post" /\ created[w] = 1)
         => ~cancelled[w]
CreationInv == \A w \in Workers : Creation(w)
=============================================================================
