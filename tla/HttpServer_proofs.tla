-------------------------- MODULE HttpServer_proofs -------------------------
(***************************************************************************)
(* Proofs about HttpServer, for every set of connections, every size of    *)
(* the worker pool and every number of requests and of queued timeouts.    *)
(***************************************************************************)
EXTENDS HttpServer, TLAPS

\* The inductive invariant: a session's stage and its counters go together.
ServerInv == TypeOK /\ OneStage /\ AnsweredInOrder /\ StageInv

\* Before the first connection is accepted there is nothing to read or answer.
LEMMA InvInit == Init => ServerInv
  BY ServerAssumption
  DEF Init, ServerInv, TypeOK, OneStage, AnsweredInOrder, StageInv

\* Starting an operation on a socket, or closing the socket under one, leaves
\* it in a state the handlers know, and ends no operation that was not there.
LEMMA OperationStates ==
    /\ \A isOpen : Started(isOpen) \in {"pending", "failed"}
    /\ \A op \in {"none", "pending", "ready", "failed"} :
         /\ Aborted(op) \in {"none", "ready", "failed"}
         /\ Aborted(op) = "none" <=> op = "none"
         /\ Aborted(op) = "ready" <=> op = "ready"
    /\ \A op \in {"none", "pending", "done", "failed"} :
         /\ Aborted(op) \in {"none", "done", "failed"}
         /\ Aborted(op) = "none" <=> op = "none"
         /\ Aborted(op) = "done" <=> op = "done"
  BY DEF Started, Aborted

\* Every step keeps the types: a counter grows only while its session's stage
\* leaves room for it.
LEMMA TypeStep == ServerInv /\ [Next]_vars => TypeOK'
<1> SUFFICES ASSUME ServerInv, [Next]_vars PROVE TypeOK'
  OBVIOUS
<1> USE ServerAssumption, OperationStates DEF ServerInv, TypeOK, Set, connection
<1>1. ASSUME NEW s \in Sessions, RequestArrives(s) PROVE TypeOK'
  BY <1>1 DEF RequestArrives
<1>2. ASSUME NEW s \in Sessions, ReadFails(s) PROVE TypeOK'
  BY <1>2 DEF ReadFails
<1>3. ASSUME NEW s \in Sessions, WriteCompletes(s) PROVE TypeOK'
  <2>1. answered[s] + 1 \in 0 .. MaxRequests
    BY <1>3 DEF WriteCompletes, StageInv
  <2> QED BY <1>3, <2>1 DEF WriteCompletes
<1>4. ASSUME NEW s \in Sessions, ReadTimerExpires(s) PROVE TypeOK'
  BY <1>4 DEF ReadTimerExpires
<1>5. ASSUME NEW s \in Sessions, WriteTimerExpires(s) PROVE TypeOK'
  BY <1>5 DEF WriteTimerExpires
<1>6. ASSUME NEW s \in Sessions, Accept(s) PROVE TypeOK'
  BY <1>6 DEF Accept, ReadRequest
<1>7. ASSUME NEW s \in Sessions, OnRead(s) PROVE TypeOK'
  <2>1. CASE read[s] = "failed"
    <3>1. /\ read' = [read EXCEPT ![s] = "none"]
          /\ open' = [open EXCEPT ![s] = FALSE]
          /\ readTimer' = [readTimer EXCEPT ![s] = FALSE]
          /\ writeTimer' = [writeTimer EXCEPT ![s] = FALSE]
          /\ UNCHANGED <<server, job, taken, readFired, keepAlive, write, writeFired, answered>>
      BY <1>7, <2>1, Zenon DEF OnRead, Close
    <3> QED BY <3>1
  <2>2. CASE read[s] = "ready"
    <3>1. /\ read' = [read EXCEPT ![s] = "none"]
          /\ readTimer' = [readTimer EXCEPT ![s] = FALSE]
          /\ job' = [job EXCEPT ![s] = "queued"]
          /\ taken' = [taken EXCEPT ![s] = taken[s] + 1]
          /\ UNCHANGED <<server, open, writeTimer, readFired, keepAlive, write, writeFired,
                         answered>>
      BY <1>7, <2>2 DEF OnRead
    <3>2. taken[s] + 1 \in 0 .. MaxRequests
      BY <2>2 DEF StageInv
    <3> QED BY <3>1, <3>2
  <2> QED BY <1>7, <2>1, <2>2 DEF OnRead
<1>8. ASSUME NEW s \in Sessions, OnReadTimeout(s) PROVE TypeOK'
  BY <1>8 DEF OnReadTimeout, Close
<1>9. ASSUME NEW s \in Sessions, OnWriteTimeout(s) PROVE TypeOK'
  BY <1>9 DEF OnWriteTimeout, Close
<1>10. ASSUME NEW s \in Sessions, WriteResponse(s) PROVE TypeOK'
  BY <1>10 DEF WriteResponse
<1>11. ASSUME NEW s \in Sessions, OnWrite(s) PROVE TypeOK'
  <2>1. /\ write' = [write EXCEPT ![s] = "none"]
        /\ keepAlive' = [keepAlive EXCEPT ![s] = FALSE]
        /\ UNCHANGED <<server, readFired, writeFired, job, taken, answered>>
    BY <1>11 DEF OnWrite
  <2>2. CASE write[s] = "done" /\ keepAlive[s]
    <3>1. /\ writeTimer' = [writeTimer EXCEPT ![s] = FALSE]
          /\ read' = [read EXCEPT ![s] = Started(open[s])]
          /\ readTimer' = [readTimer EXCEPT ![s] = TRUE]
          /\ UNCHANGED open
      BY <1>11, <2>2, Zenon DEF OnWrite, ReadRequest
    <3> QED BY <2>1, <3>1
  <2>3. CASE ~(write[s] = "done" /\ keepAlive[s])
    <3>1. /\ open' = [open EXCEPT ![s] = FALSE]
          /\ readTimer' = [readTimer EXCEPT ![s] = FALSE]
          /\ writeTimer' = [writeTimer EXCEPT ![s] = FALSE]
          /\ UNCHANGED read
      BY <1>11, <2>3, Zenon DEF OnWrite, Close
    <3> QED BY <2>1, <3>1
  <2> QED BY <2>2, <2>3
<1>12. ASSUME NEW s \in Sessions, WorkerTakes(s) PROVE TypeOK'
  BY <1>12 DEF WorkerTakes
<1>13. ASSUME NEW s \in Sessions, WorkerEnds(s) PROVE TypeOK'
  BY <1>13 DEF WorkerEnds
<1>14. CASE Signal
  BY <1>14 DEF Signal
<1>15. CASE StopPool
  BY <1>15 DEF StopPool
<1>16. CASE Exit
  BY <1>16 DEF Exit
<1>17. CASE UNCHANGED vars
  BY <1>17 DEF vars
<1> HIDE DEF TypeOK
<1> QED
  BY <1>1, <1>2, <1>3, <1>4, <1>5, <1>6, <1>7, <1>8, <1>9, <1>10, <1>11, <1>12,
     <1>13, <1>14, <1>15, <1>16, <1>17
  DEF Next, Handlers, Exited

\* What the invariant says of one session, apart from types.
StageOf(s) ==
    /\ read[s] # "none" => job[s] = "none" /\ write[s] = "none"
    /\ write[s] # "none" => job[s] = "none"
    /\ answered[s] <= taken[s] /\ taken[s] <= answered[s] + 1
    /\ read[s] # "none" => answered[s] = taken[s]
    /\ job[s] = "new" => read[s] = "none" /\ write[s] = "none" /\ taken[s] = 0
    /\ read[s] = "ready" => taken[s] < MaxRequests
    /\ write[s] = "done" => answered[s] = taken[s]
    /\ job[s] \in {"queued", "running", "posted"} \/ write[s] = "pending"
         => taken[s] = answered[s] + 1

\* The invariants speak of one session at a time.
LEMMA StagesAre ==
    (OneStage /\ AnsweredInOrder /\ StageInv) <=> \A s \in Sessions : StageOf(s)
  BY DEF OneStage, AnsweredInOrder, StageInv, StageOf

\* A step of one session leaves the stages of all others alone.
LEMMA OthersStay ==
    ASSUME TypeOK, NEW s \in Sessions,
           \/ RequestArrives(s) \/ ReadFails(s) \/ WriteCompletes(s)
           \/ ReadTimerExpires(s) \/ WriteTimerExpires(s)
           \/ Accept(s) \/ Handlers(s) \/ WorkerTakes(s) \/ WorkerEnds(s),
           NEW r \in Sessions, r # s
    PROVE  /\ read'[r] = read[r] /\ job'[r] = job[r] /\ write'[r] = write[r]
           /\ taken'[r] = taken[r] /\ answered'[r] = answered[r]
<1> USE DEF TypeOK, Set, connection, ReadRequest, Close
<1>1. CASE \/ RequestArrives(s) \/ ReadFails(s) \/ WriteCompletes(s)
           \/ ReadTimerExpires(s) \/ WriteTimerExpires(s)
  BY <1>1 DEF RequestArrives, ReadFails, WriteCompletes, ReadTimerExpires, WriteTimerExpires
<1>2. CASE Accept(s) \/ WorkerTakes(s) \/ WorkerEnds(s)
  BY <1>2 DEF Accept, WorkerTakes, WorkerEnds
<1>3. CASE OnRead(s) \/ OnWrite(s) \/ WriteResponse(s)
  BY <1>3 DEF OnRead, OnWrite, WriteResponse
<1>4. CASE OnReadTimeout(s) \/ OnWriteTimeout(s)
  BY <1>4 DEF OnReadTimeout, OnWriteTimeout
<1> QED BY <1>1, <1>2, <1>3, <1>4 DEF Handlers

\* Every step keeps the stages apart and the counters with them.
LEMMA StageStep == ServerInv /\ [Next]_vars => (OneStage /\ AnsweredInOrder /\ StageInv)'
<1> SUFFICES ASSUME ServerInv, [Next]_vars PROVE \A r \in Sessions : StageOf(r)'
  BY StagesAre DEF OneStage, AnsweredInOrder, StageInv, StageOf
<1>0. TypeOK /\ \A r \in Sessions : StageOf(r)
  BY StagesAre DEF ServerInv
<1>1. ASSUME NEW s \in Sessions,
             \/ RequestArrives(s) \/ ReadFails(s) \/ WriteCompletes(s)
             \/ ReadTimerExpires(s) \/ WriteTimerExpires(s)
             \/ Accept(s) \/ Handlers(s) \/ WorkerTakes(s) \/ WorkerEnds(s)
      PROVE  \A r \in Sessions : StageOf(r)'
  <2>1. ASSUME NEW r \in Sessions, r # s PROVE StageOf(r)'
    BY <1>0, <1>1, <2>1, OthersStay DEF StageOf
  <2>2. StageOf(s)'
    <3> USE <1>0, OperationStates DEF TypeOK, StageOf, Set, connection
    <3>1. CASE RequestArrives(s) \/ ReadFails(s)
      BY <3>1 DEF RequestArrives, ReadFails
    <3>2. CASE WriteCompletes(s)
      BY <3>2 DEF WriteCompletes
    <3>3. CASE ReadTimerExpires(s) \/ WriteTimerExpires(s)
      BY <3>3 DEF ReadTimerExpires, WriteTimerExpires
    <3>4. CASE Accept(s)
      <4>1. /\ job[s] = "new" /\ job'[s] = "none"
            /\ read'[s] = "pending"
            /\ UNCHANGED <<write, taken, answered>>
        BY <3>4 DEF Accept, ReadRequest, Started
      <4> QED BY <4>1
    <3>5. CASE OnRead(s)
      <4>1. CASE read[s] = "failed"
        BY <3>5, <4>1 DEF OnRead, Close
      <4>2. CASE read[s] = "ready"
        BY <3>5, <4>2 DEF OnRead
      <4> QED BY <3>5, <4>1, <4>2 DEF OnRead
    <3>6. CASE OnReadTimeout(s) \/ OnWriteTimeout(s)
      <4>1. /\ read'[s] = Aborted(read[s]) /\ write'[s] = Aborted(write[s])
            /\ UNCHANGED <<job, taken, answered>>
        BY <3>6 DEF OnReadTimeout, OnWriteTimeout
      <4>2. /\ read'[s] = "none" <=> read[s] = "none"
            /\ read'[s] = "ready" <=> read[s] = "ready"
            /\ write'[s] = "none" <=> write[s] = "none"
            /\ write'[s] = "done" <=> write[s] = "done"
            /\ write'[s] # "pending"
        BY <4>1 DEF Aborted
      <4> QED BY <4>1, <4>2
    <3>7. CASE WriteResponse(s)
      BY <3>7 DEF WriteResponse
    <3>8. CASE OnWrite(s)
      <4>1. CASE write[s] = "done" /\ keepAlive[s]
        BY <3>8, <4>1 DEF OnWrite, ReadRequest
      <4>2. CASE ~(write[s] = "done" /\ keepAlive[s])
        BY <3>8, <4>2 DEF OnWrite
      <4> QED BY <4>1, <4>2
    <3>9. CASE WorkerTakes(s) \/ WorkerEnds(s)
      BY <3>9 DEF WorkerTakes, WorkerEnds
    <3> HIDE DEF TypeOK, StageOf
    <3> QED
      BY <1>1, <3>1, <3>2, <3>3, <3>4, <3>5, <3>6, <3>7, <3>8, <3>9 DEF Handlers
  <2> QED BY <2>1, <2>2
<1>2. CASE StopPool
  BY <1>0, <1>2 DEF TypeOK, StageOf, StopPool, connection
<1>3. CASE Signal \/ Exit \/ UNCHANGED vars
  BY <1>0, <1>3 DEF StageOf, Signal, Exit, vars, connection
<1> QED BY <1>1, <1>2, <1>3 DEF Next, Exited

\* The inductive invariant of the sessions holds in every state.
LEMMA ServerInvHolds == Spec => []ServerInv
<1>1. ServerInv /\ [Next]_vars => ServerInv'
  BY TypeStep, StageStep DEF ServerInv
<1> QED BY <1>1, InvInit, PTL DEF Spec

\* Every state the server reaches is well typed: an operation on a socket ends
\* in one of the ways its handler expects, and no session counts more requests
\* than its client sent.
THEOREM TypeCorrect == Spec => []TypeOK
<1>1. ServerInv => TypeOK
  BY DEF ServerInv
<1> QED BY <1>1, ServerInvHolds, PTL

\* A session reads, waits for its worker or writes, one at a time: no two
\* stages share request_, parser_ or response_ (ReadRequest, DispatchRequest,
\* WriteResponse), however late a timeout is and wherever the shutdown falls.
THEOREM SessionsInOneStage == Spec => []OneStage
<1>1. ServerInv => OneStage
  BY DEF ServerInv
<1> QED BY <1>1, ServerInvHolds, PTL

\* A keep-alive connection gets its responses one by one, in the order of its
\* requests (OnWrite).
THEOREM ResponsesInOrder == Spec => []AnsweredInOrder
<1>1. ServerInv => AnsweredInOrder
  BY DEF ServerInv
<1> QED BY <1>1, ServerInvHolds, PTL
=============================================================================
