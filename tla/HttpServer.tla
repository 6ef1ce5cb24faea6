----------------------------- MODULE HttpServer -----------------------------
(***************************************************************************)
(* HttpServer and HttpSession: connections, their read and write timers,   *)
(* the worker pool and the shutdown on a signal.                           *)
(*                                                                         *)
(* A session starts an asynchronous read, hands the request to a worker,   *)
(* writes the response and, with keep-alive, reads again.  Completions are *)
(* queued by the io_context; its threads run them in any order, for there  *)
(* is no strand.  Cancelling a timer does not recall a completion that is  *)
(* already queued, so a timeout may reach the session when the read or the *)
(* write it was meant for is over.                                         *)
(***************************************************************************)
EXTENDS Integers, FiniteSets

CONSTANTS
    Sessions,       \* connections, each accepted at most once
    WorkerThreads,  \* runtime.worker_threads
    MaxStale,       \* bound: timeouts of one kind queued for a session
    MaxRequests     \* bound: requests a client sends on one connection

ASSUME ServerAssumption ==
    WorkerThreads \in Nat \ {0} /\ MaxStale \in Nat \ {0} /\ MaxRequests \in Nat

VARIABLES
    server,     \* "running", "stopping" (io_context stopped), "joining"
                \* (worker pool stopped), "exited"
    open,       \* socket_ is open
    read,       \* the async_read: none, pending, or completed ready / failed
    readTimer,  \* read_timer_ is waiting
    readFired,  \* completions "read timeout" in the queue
    job,        \* the request: none, queued, running, or its response posted
    keepAlive,  \* the response will say keep-alive
    write,      \* the async_write: none, pending, or completed done / failed
    writeTimer, \* write_timer_ is waiting
    writeFired, \* completions "write timeout" in the queue
    \* History, read by properties only:
    taken,      \* requests the session has read
    answered    \* responses it has written

connection == <<open, read, readTimer, readFired, write, writeTimer, writeFired>>
vars == <<server, connection, job, keepAlive, taken, answered>>

Init ==
    /\ server = "running"
    /\ open = [s \in Sessions |-> FALSE]
    /\ read = [s \in Sessions |-> "none"]
    /\ readTimer = [s \in Sessions |-> FALSE]
    /\ readFired = [s \in Sessions |-> 0]
    /\ job = [s \in Sessions |-> "new"]
    /\ keepAlive = [s \in Sessions |-> FALSE]
    /\ write = [s \in Sessions |-> "none"]
    /\ writeTimer = [s \in Sessions |-> FALSE]
    /\ writeFired = [s \in Sessions |-> 0]
    /\ taken = [s \in Sessions |-> 0]
    /\ answered = [s \in Sessions |-> 0]

Set(f, s, v) == [f EXCEPT ![s] = v]

\* An operation on a socket that is closed completes with an error.
Started(isOpen) == IF isOpen THEN "pending" ELSE "failed"

\* What becomes of an operation when the socket is closed under it.
Aborted(op) == IF op = "pending" THEN "failed" ELSE op

\* HttpSession::Close: both timers cancelled, the socket closed.
Close(s) ==
    /\ open' = Set(open, s, FALSE)
    /\ readTimer' = Set(readTimer, s, FALSE)
    /\ writeTimer' = Set(writeTimer, s, FALSE)

\* HttpSession::ReadRequest
ReadRequest(s, isOpen) ==
    /\ read' = Set(read, s, Started(isOpen))
    /\ readTimer' = Set(readTimer, s, TRUE)

-----------------------------------------------------------------------------
(* The world outside: clients and time *)

\* A request is complete in the socket.
RequestArrives(s) ==
    /\ read[s] = "pending"
    /\ taken[s] < MaxRequests
    /\ read' = Set(read, s, "ready")
    /\ \E k \in BOOLEAN : keepAlive' = Set(keepAlive, s, k)
    /\ UNCHANGED <<server, open, readTimer, readFired, write, writeTimer, writeFired,
                   job, taken, answered>>

\* The client closes or resets the connection, or sends what the parser or
\* the body limit refuses.
ReadFails(s) ==
    /\ read[s] = "pending"
    /\ read' = Set(read, s, "failed")
    /\ UNCHANGED <<server, open, readTimer, readFired, write, writeTimer, writeFired,
                   job, keepAlive, taken, answered>>

\* The response is sent, or the client is gone.
WriteCompletes(s) ==
    /\ write[s] = "pending"
    /\ \/ /\ write' = Set(write, s, "done")
          /\ answered' = Set(answered, s, answered[s] + 1)
       \/ /\ write' = Set(write, s, "failed")
          /\ UNCHANGED answered
    /\ UNCHANGED <<server, open, read, readTimer, readFired, writeTimer, writeFired,
                   job, keepAlive, taken>>

\* A timer expires: its completion is queued and no cancel recalls it.
ReadTimerExpires(s) ==
    /\ readTimer[s] /\ readFired[s] < MaxStale
    /\ readTimer' = Set(readTimer, s, FALSE)
    /\ readFired' = Set(readFired, s, readFired[s] + 1)
    /\ UNCHANGED <<server, open, read, write, writeTimer, writeFired, job, keepAlive,
                   taken, answered>>

WriteTimerExpires(s) ==
    /\ writeTimer[s] /\ writeFired[s] < MaxStale
    /\ writeTimer' = Set(writeTimer, s, FALSE)
    /\ writeFired' = Set(writeFired, s, writeFired[s] + 1)
    /\ UNCHANGED <<server, open, read, readTimer, readFired, write, job, keepAlive,
                   taken, answered>>

-----------------------------------------------------------------------------
(* Handlers, run by the io_context's threads until it is stopped *)

\* DoAccept: a session is made and starts to read.
Accept(s) ==
    /\ server = "running" /\ job[s] = "new"
    /\ job' = Set(job, s, "none")
    /\ open' = Set(open, s, TRUE)
    /\ ReadRequest(s, TRUE)
    /\ UNCHANGED <<server, readFired, keepAlive, write, writeTimer, writeFired, taken,
                   answered>>

\* Mutation: the next request is read while a worker has this one.
OnReadPipelined(s) ==
    /\ server = "running" /\ read[s] \in {"ready", "failed"}
    /\ IF read[s] = "failed"
         THEN Close(s) /\ read' = Set(read, s, "none") /\ UNCHANGED <<job, taken>>
         ELSE /\ ReadRequest(s, open[s])
              /\ job' = Set(job, s, "queued")
              /\ taken' = Set(taken, s, taken[s] + 1)
              /\ UNCHANGED <<open, writeTimer>>
    /\ UNCHANGED <<server, readFired, keepAlive, write, writeFired, answered>>

\* Mutation: the error of a read is only logged, and a request is dispatched.
OnReadIgnoringErrors(s) ==
    /\ server = "running" /\ read[s] \in {"ready", "failed"}
    /\ read' = Set(read, s, "none")
    /\ readTimer' = Set(readTimer, s, FALSE)
    /\ job' = Set(job, s, "queued")
    /\ taken' = Set(taken, s, taken[s] + 1)
    /\ UNCHANGED <<server, open, readFired, keepAlive, write, writeTimer, writeFired, answered>>

\* The read has completed: close on an error, else DispatchRequest posts the
\* request to the worker pool.
OnRead(s) ==
    /\ server = "running" /\ read[s] \in {"ready", "failed"}
    /\ read' = Set(read, s, "none")
    /\ IF read[s] = "failed"
         THEN Close(s) /\ UNCHANGED <<job, taken>>
         ELSE /\ readTimer' = Set(readTimer, s, FALSE)
              /\ job' = Set(job, s, "queued")
              /\ taken' = Set(taken, s, taken[s] + 1)
              /\ UNCHANGED <<open, writeTimer>>
    /\ UNCHANGED <<server, readFired, keepAlive, write, writeFired, answered>>

\* Mutation: a read timeout is only logged.
OnReadTimeoutLogged(s) ==
    /\ server = "running" /\ readFired[s] > 0
    /\ readFired' = Set(readFired, s, readFired[s] - 1)
    /\ UNCHANGED <<server, open, read, readTimer, write, writeTimer, writeFired, job,
                   keepAlive, taken, answered>>

\* A timeout closes the session, whatever the session does by now.
OnReadTimeout(s) ==
    /\ server = "running" /\ readFired[s] > 0
    /\ readFired' = Set(readFired, s, readFired[s] - 1)
    /\ Close(s)
    /\ read' = Set(read, s, Aborted(read[s]))
    /\ write' = Set(write, s, Aborted(write[s]))
    /\ UNCHANGED <<server, writeFired, job, keepAlive, taken, answered>>

OnWriteTimeout(s) ==
    /\ server = "running" /\ writeFired[s] > 0
    /\ writeFired' = Set(writeFired, s, writeFired[s] - 1)
    /\ Close(s)
    /\ read' = Set(read, s, Aborted(read[s]))
    /\ write' = Set(write, s, Aborted(write[s]))
    /\ UNCHANGED <<server, readFired, job, keepAlive, taken, answered>>

\* WriteResponse, posted by the worker.
WriteResponse(s) ==
    /\ server = "running" /\ job[s] = "posted"
    /\ job' = Set(job, s, "none")
    /\ write' = Set(write, s, Started(open[s]))
    /\ writeTimer' = Set(writeTimer, s, TRUE)
    /\ UNCHANGED <<server, open, read, readTimer, readFired, writeFired, keepAlive,
                   taken, answered>>

\* Mutation: the error of a write is only logged.
OnWriteIgnoringErrors(s) ==
    /\ server = "running" /\ write[s] \in {"done", "failed"}
    /\ write' = Set(write, s, "none")
    /\ keepAlive' = Set(keepAlive, s, FALSE)
    /\ IF keepAlive[s]
         THEN /\ writeTimer' = Set(writeTimer, s, FALSE)
              /\ ReadRequest(s, open[s])
              /\ UNCHANGED open
         ELSE Close(s) /\ UNCHANGED read
    /\ UNCHANGED <<server, readFired, writeFired, job, taken, answered>>

\* The write has completed: close on an error or without keep-alive, else read
\* the next request.
OnWrite(s) ==
    /\ server = "running" /\ write[s] \in {"done", "failed"}
    /\ write' = Set(write, s, "none")
    /\ keepAlive' = Set(keepAlive, s, FALSE)
    /\ IF write[s] = "done" /\ keepAlive[s]
         THEN /\ writeTimer' = Set(writeTimer, s, FALSE)
              /\ ReadRequest(s, open[s])
              /\ UNCHANGED open
         ELSE Close(s) /\ UNCHANGED read
    /\ UNCHANGED <<server, readFired, writeFired, job, taken, answered>>

-----------------------------------------------------------------------------
(* The worker pool *)

WorkerTakes(s) ==
    /\ server \in {"running", "stopping"} /\ job[s] = "queued"
    /\ Cardinality({r \in Sessions : job[r] = "running"}) < WorkerThreads
    /\ job' = Set(job, s, "running")
    /\ UNCHANGED <<server, connection, keepAlive, taken, answered>>

\* Mutation: a response without keep-alive is not posted.
WorkerEndsSilently(s) ==
    /\ job[s] = "running"
    /\ job' = Set(job, s, IF keepAlive[s] THEN "posted" ELSE "none")
    /\ UNCHANGED <<server, connection, keepAlive, taken, answered>>

\* Router::Dispatch returns and the response is posted to the io_context.
WorkerEnds(s) ==
    /\ job[s] = "running"
    /\ job' = Set(job, s, "posted")
    /\ UNCHANGED <<server, connection, keepAlive, taken, answered>>

-----------------------------------------------------------------------------
(* Shutdown *)

\* The signal handler closes the acceptor and stops the io_context: no handler
\* runs any more.
Signal ==
    /\ server = "running"
    /\ server' = "stopping"
    /\ UNCHANGED <<connection, job, keepAlive, taken, answered>>

\* The io threads are joined and HttpServer is destroyed: its worker pool stops,
\* drops the requests that wait and joins its threads.
StopPool ==
    /\ server = "stopping"
    /\ server' = "joining"
    /\ job' = [s \in Sessions |-> IF job[s] = "queued" THEN "none" ELSE job[s]]
    /\ UNCHANGED <<connection, keepAlive, taken, answered>>

Exit ==
    /\ server = "joining"
    /\ \A s \in Sessions : job[s] # "running"
    /\ server' = "exited"
    /\ UNCHANGED <<connection, job, keepAlive, taken, answered>>

Exited == server = "exited" /\ UNCHANGED vars

Handlers(s) ==
    \/ OnRead(s) \/ OnReadTimeout(s) \/ OnWriteTimeout(s) \/ WriteResponse(s) \/ OnWrite(s)

Next ==
    \/ \E s \in Sessions :
         \/ RequestArrives(s) \/ ReadFails(s) \/ WriteCompletes(s)
         \/ ReadTimerExpires(s) \/ WriteTimerExpires(s)
         \/ Accept(s) \/ Handlers(s) \/ WorkerTakes(s) \/ WorkerEnds(s)
    \/ Signal \/ StopPool \/ Exit \/ Exited

Spec == Init /\ [][Next]_vars

\* Timers expire, queued handlers run, workers work, a shutdown that began
\* ends.  Clients owe nothing.
FairSpec ==
    /\ Spec
    /\ WF_vars(StopPool) /\ WF_vars(Exit)
    /\ \A s \in Sessions :
         /\ WF_vars(ReadTimerExpires(s)) /\ WF_vars(WriteTimerExpires(s))
         /\ WF_vars(OnRead(s)) /\ WF_vars(OnReadTimeout(s))
         /\ WF_vars(OnWriteTimeout(s)) /\ WF_vars(WriteResponse(s)) /\ WF_vars(OnWrite(s))
         /\ SF_vars(WorkerTakes(s)) /\ WF_vars(WorkerEnds(s))

-----------------------------------------------------------------------------
(* Properties *)

\* Every variable has its type; a session takes and answers no more requests than
\* its client sent.
TypeOK ==
    /\ server \in {"running", "stopping", "joining", "exited"}
    /\ open \in [Sessions -> BOOLEAN]
    /\ read \in [Sessions -> {"none", "pending", "ready", "failed"}]
    /\ readTimer \in [Sessions -> BOOLEAN]
    /\ readFired \in [Sessions -> 0 .. MaxStale]
    /\ job \in [Sessions -> {"new", "none", "queued", "running", "posted"}]
    /\ keepAlive \in [Sessions -> BOOLEAN]
    /\ write \in [Sessions -> {"none", "pending", "done", "failed"}]
    /\ writeTimer \in [Sessions -> BOOLEAN]
    /\ writeFired \in [Sessions -> 0 .. MaxStale]
    /\ taken \in [Sessions -> 0 .. MaxRequests]
    /\ answered \in [Sessions -> 0 .. MaxRequests]

\* A session is in one stage at a time: it does not read while a worker has its
\* request or a response is being written, so request_, parser_ and response_
\* are never used by two stages, whatever late timeouts come in between.
OneStage ==
    \A s \in Sessions :
        /\ read[s] # "none" => job[s] = "none" /\ write[s] = "none"
        /\ write[s] # "none" => job[s] = "none"

\* On a keep-alive connection a request is read only when every earlier one was
\* answered: responses come in the order of the requests.
AnsweredInOrder ==
    \A s \in Sessions :
        /\ answered[s] <= taken[s] /\ taken[s] <= answered[s] + 1
        /\ read[s] # "none" => answered[s] = taken[s]

\* OneStage and AnsweredInOrder strengthened so that they are inductive: what the
\* stage of a session says about its counters.  A request that is ready to be
\* taken is within the bound; one that a worker has or whose response is on its
\* way is the only one without a response; after a completed write there is none.
StageInv ==
    \A s \in Sessions :
        /\ job[s] = "new" => read[s] = "none" /\ write[s] = "none" /\ taken[s] = 0
        /\ read[s] = "ready" => taken[s] < MaxRequests
        /\ write[s] = "done" => answered[s] = taken[s]
        /\ job[s] \in {"queued", "running", "posted"} \/ write[s] = "pending"
             => taken[s] = answered[s] + 1

\* No client holds a session up: a read or a write that waits comes to an end,
\* unless the server was told to stop.
NobodyWaitsForever ==
    \A s \in Sessions :
        /\ read[s] = "pending" ~> (read[s] # "pending" \/ server # "running")
        /\ write[s] = "pending" ~> (write[s] # "pending" \/ server # "running")

\* A request that was read is answered or its connection closed, unless the
\* server was told to stop.
TakenIsAnswered ==
    \A s \in Sessions :
        taken[s] > answered[s]
          ~> (taken[s] = answered[s] \/ ~open[s] \/ server # "running")

\* A graceful exit: no request that was read from a connection that is still
\* open is left without its response when the server is gone.
GracefulExit ==
    server = "exited" =>
        \A s \in Sessions : open[s] => taken[s] = answered[s]
=============================================================================
