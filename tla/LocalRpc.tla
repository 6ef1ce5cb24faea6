------------------------------ MODULE LocalRpc ------------------------------
(***************************************************************************)
(* LocalRpcUpstreamClient and the two services it calls in the gateway's   *)
(* own process, TaskServiceImpl and FileMetaServiceImpl.                   *)
(*                                                                         *)
(* A request has one deadline, which may pass at any moment; the client    *)
(* looks at it three times and the service once more, before it takes its  *)
(* mutex.  Worker threads run the path concurrently; each service works    *)
(* on its map and its sequence number under one mutex.  The user service   *)
(* is taken here by the answers it may give; UserService has it in detail  *)
(* and implements this module.                                             *)
(*                                                                         *)
(* A field of a record is represented by what wrote it: "created" or one   *)
(* of Events.  An id "task-n" or "file-n" is the number n.                 *)
(***************************************************************************)
EXTENDS Integers

CONSTANTS
    Workers,        \* threads of the worker pool
    Events,         \* what a client reports: a status, a message, a timestamp
    MaxIds,         \* bound: ids a client may ask for
    MaxRequests     \* bound: requests in a behaviour

ASSUME LocalRpcAssumption ==
    MaxIds \in Nat \ {0} /\ MaxRequests \in Nat /\ "created" \notin Events

VARIABLES
    pc,         \* where each thread is in Forward
    request,    \* its request
    expired,    \* its DeadlineContext::IsDone()
    reply,      \* its response
    store,      \* TaskServiceImpl::tasks_ and FileMetaServiceImpl::files_
    seq,        \* task_seq_ and file_seq_
    \* History, read by properties only:
    arrived,    \* requests so far
    wrote,      \* the thread's request has changed a store
    known,      \* the id the request names had been answered before it came
    issued      \* the ids the services answered with: id -> times

vars == <<pc, request, expired, reply, store, seq, arrived, wrote, known, issued>>

Kinds == {"task", "file"}
Ids == 1 .. MaxIds
Fields == {"created"} \cup Events
Records == [status : Fields, result : Fields, updatedAt : Fields]

NoRequest == [op |-> "none", kind |-> "task", id |-> 0, event |-> "created", body |-> "good"]

\* What reading the body or the query comes to: "throws" is text that is no
\* flat JSON object, or a number too large for stoll; "no number" has none
\* where stoll wants one, in the body or in X-User-Id; "invalid" is read and
\* refused by the service, for it names no type or file or has a negative size.
BadBodies == {"throws", "no number"}

\* "other" is an upstream, a method or a path that the client does not know.  A
\* body that cannot be read never gets to a service, so one operation stands for
\* all that read numbers.
Requests ==
    [op : {"create"}, kind : Kinds, id : {0}, event : {"created"}, body : {"good", "invalid"}]
      \cup [op : {"create"}, kind : {"task"}, id : {0}, event : {"created"}, body : BadBodies]
      \cup [op : {"get"}, kind : Kinds, id : Ids, event : {"created"}, body : {"good"}]
      \cup [op : {"event"}, kind : {"task"}, id : Ids, event : Events, body : {"good"}]
      \cup [op : {"login", "profile"}, kind : {"user"}, id : {0}, event : {"created"},
            body : {"good"}]
      \cup [op : {"other"}, kind : {"task"}, id : {0}, event : {"created"}, body : {"good"}]

Reply(code, id, record) == [code |-> code, id |-> id, record |-> record]

Written(e) == [status |-> e, result |-> e, updatedAt |-> e]

\* What an answer without a record carries: an empty TaskInfo or FileMeta.
NoRecord == Written("created")

Empty == [i \in {} |-> 0]

Init ==
    /\ pc = [w \in Workers |-> "idle"]
    /\ request = [w \in Workers |-> NoRequest]
    /\ expired = [w \in Workers |-> FALSE]
    /\ reply = [w \in Workers |-> Reply("none", 0, NoRecord)]
    /\ store = [k \in Kinds |-> Empty]
    /\ seq = [k \in Kinds |-> 0]
    /\ arrived = 0
    /\ wrote = [w \in Workers |-> FALSE]
    /\ known = [w \in Workers |-> FALSE]
    /\ issued = [k \in Kinds |-> Empty]

Goto(w, step) == pc' = [pc EXCEPT ![w] = step]

Answer(w, r) ==
    /\ reply' = [reply EXCEPT ![w] = r]
    /\ Goto(w, "done")

Say(w, code) == Answer(w, Reply(code, 0, NoRecord))

\* What a step that only moves on or answers leaves alone.
StoresUnchanged == UNCHANGED <<store, seq, wrote, issued>>
RequestsUnchanged == UNCHANGED <<request, expired, arrived, known>>

-----------------------------------------------------------------------------
(* LocalRpcUpstreamClient *)

Arrive(w) ==
    /\ pc[w] = "idle" /\ arrived < MaxRequests
    /\ arrived' = arrived + 1
    /\ \E r \in Requests :
         /\ request' = [request EXCEPT ![w] = r]
         /\ known' = [known EXCEPT ![w] =
                r.op \in {"get", "event"} /\ r.id \in DOMAIN issued[r.kind]]
    /\ Goto(w, "forward")
    /\ UNCHANGED <<expired, reply>> /\ StoresUnchanged

\* The deadline passes.
Expire(w) ==
    /\ pc[w] \notin {"idle", "done"} /\ ~expired[w]
    /\ expired' = [expired EXCEPT ![w] = TRUE]
    /\ UNCHANGED <<pc, request, reply, arrived, known>> /\ StoresUnchanged

\* Forward: the deadline, then the dispatch on upstream, method and path.
Forward(w) ==
    /\ pc[w] = "forward"
    /\ IF expired[w] THEN Say(w, "timeout")
       ELSE IF request[w].op = "other" THEN Say(w, "not found")
       ELSE Goto(w, "parse") /\ UNCHANGED reply
    /\ RequestsUnchanged /\ StoresUnchanged

\* The branch of the method: the deadline again, then the body or the query is
\* read; Forward turns what that throws into an answer.
ParseRequest(w) ==
    /\ pc[w] = "parse"
    /\ IF expired[w] THEN Say(w, "timeout")
       ELSE IF request[w].body = "throws" THEN Say(w, "internal error")
       ELSE IF request[w].body = "no number" THEN Say(w, "bad request")
       ELSE Goto(w, "call") /\ UNCHANGED reply
    /\ RequestsUnchanged /\ StoresUnchanged

\* The deadline a third time, then the call of the service.
CallService(w) ==
    /\ pc[w] = "call"
    /\ IF expired[w] THEN Say(w, "timeout") ELSE Goto(w, "service") /\ UNCHANGED reply
    /\ RequestsUnchanged /\ StoresUnchanged

\* What the user service may answer, here or in its own process; what its lookup
\* throws, Forward turns into an answer too.
UserCodes ==
    {"ok", "unauthorized", "not found", "bad request", "timeout", "failed", "internal error"}

UserReply(w) ==
    /\ pc[w] = "service" /\ request[w].kind = "user"
    /\ \E c \in UserCodes : Say(w, c)
    /\ RequestsUnchanged /\ StoresUnchanged

-----------------------------------------------------------------------------
(* TaskServiceImpl and FileMetaServiceImpl *)

\* Before the mutex: the deadline, then the argument.  SubmitTaskEvent returns
\* nothing, so its caller says "accepted" for an event that was dropped too.
EnterService(w) ==
    /\ pc[w] = "service" /\ request[w].kind \in Kinds
    /\ IF expired[w]
         THEN IF request[w].op = "event" THEN Say(w, "accepted") ELSE Say(w, "timeout")
       ELSE IF request[w].body = "invalid" THEN Say(w, "bad request")
       ELSE Goto(w, "locked") /\ UNCHANGED reply
    /\ RequestsUnchanged /\ StoresUnchanged

\* The ids of f and id, with one more answer for id.
Counted(f, id) ==
    [i \in DOMAIN f \cup {id} |->
        (IF i \in DOMAIN f THEN f[i] ELSE 0) + (IF i = id THEN 1 ELSE 0)]

\* The map f with a new record.
Inserted(f, id) ==
    [i \in DOMAIN f \cup {id} |-> IF i = id THEN Written("created") ELSE f[i]]

\* Mutation: the sequence number is incremented under the mutex and read again
\* when the record is inserted.
CreateInTwoSteps(w) ==
    /\ request[w].op = "create"
    /\ LET k == request[w].kind IN
       \/ /\ pc[w] = "locked"
          /\ seq' = [seq EXCEPT ![k] = @ + 1]
          /\ Goto(w, "insert")
          /\ UNCHANGED <<reply, store, wrote, issued>>
       \/ /\ pc[w] = "insert"
          /\ store' = [store EXCEPT ![k] = Inserted(@, seq[k])]
          /\ wrote' = [wrote EXCEPT ![w] = TRUE]
          /\ issued' = [issued EXCEPT ![k] = Counted(@, seq[k])]
          /\ Answer(w, Reply("ok", seq[k], NoRecord))
          /\ UNCHANGED seq
    /\ RequestsUnchanged

\* Mutation: the deadline is looked at once more, after the insertion.
CreateThenCheck(w) ==
    /\ pc[w] = "locked" /\ request[w].op = "create"
    /\ LET k == request[w].kind
           id == seq[k] + 1 IN
         /\ seq' = [seq EXCEPT ![k] = id]
         /\ store' = [store EXCEPT ![k] = Inserted(@, id)]
         /\ issued' = [issued EXCEPT ![k] = Counted(@, id)]
         /\ IF expired[w] THEN Say(w, "timeout") ELSE Answer(w, Reply("ok", id, NoRecord))
    /\ wrote' = [wrote EXCEPT ![w] = TRUE]
    /\ RequestsUnchanged

\* Mutation: a new record takes the place of the others.
CreateForgets(w) ==
    /\ pc[w] = "locked" /\ request[w].op = "create"
    /\ LET k == request[w].kind
           id == seq[k] + 1 IN
         /\ seq' = [seq EXCEPT ![k] = id]
         /\ store' = [store EXCEPT ![k] = Inserted(Empty, id)]
         /\ issued' = [issued EXCEPT ![k] = Counted(@, id)]
         /\ Answer(w, Reply("ok", id, NoRecord))
    /\ wrote' = [wrote EXCEPT ![w] = TRUE]
    /\ RequestsUnchanged

\* CreateTask and CreateFileMeta.
Create(w) ==
    /\ pc[w] = "locked" /\ request[w].op = "create"
    /\ LET k == request[w].kind
           id == seq[k] + 1 IN
         /\ seq' = [seq EXCEPT ![k] = id]
         /\ store' = [store EXCEPT ![k] = Inserted(@, id)]
         /\ issued' = [issued EXCEPT ![k] = Counted(@, id)]
         /\ Answer(w, Reply("ok", id, NoRecord))
    /\ wrote' = [wrote EXCEPT ![w] = TRUE]
    /\ RequestsUnchanged

\* GetTask and GetFileMeta.
Get(w) ==
    /\ pc[w] = "locked" /\ request[w].op = "get"
    /\ LET found == store[request[w].kind] IN
         IF request[w].id \in DOMAIN found
           THEN Answer(w, Reply("ok", request[w].id, found[request[w].id]))
           ELSE Say(w, "not found")
    /\ RequestsUnchanged /\ StoresUnchanged

\* Mutation: the mutex is held for the lookup only, not for the three writes.
SubmitTaskEventUnlocked(w) ==
    /\ request[w].op = "event"
    /\ LET id == request[w].id
           e == request[w].event IN
       \/ /\ pc[w] = "locked"
          /\ IF id \in DOMAIN store["task"]
               THEN /\ store' = [store EXCEPT !["task"][id].status = e]
                    /\ wrote' = [wrote EXCEPT ![w] = TRUE]
                    /\ Goto(w, "apply")
                    /\ UNCHANGED reply
               ELSE Say(w, "accepted") /\ UNCHANGED <<store, wrote>>
       \/ /\ pc[w] = "apply"
          /\ store' = [store EXCEPT !["task"][id].result = e, !["task"][id].updatedAt = e]
          /\ Say(w, "accepted")
          /\ UNCHANGED wrote
    /\ RequestsUnchanged /\ UNCHANGED <<seq, issued>>

\* An event for a task that is not there is ignored, and "accepted".
SubmitTaskEvent(w) ==
    /\ pc[w] = "locked" /\ request[w].op = "event"
    /\ IF request[w].id \in DOMAIN store["task"]
         THEN /\ store' = [store EXCEPT !["task"][request[w].id] = Written(request[w].event)]
              /\ wrote' = [wrote EXCEPT ![w] = TRUE]
         ELSE UNCHANGED <<store, wrote>>
    /\ Say(w, "accepted")
    /\ RequestsUnchanged /\ UNCHANGED <<seq, issued>>

Return(w) ==
    /\ pc[w] = "done"
    /\ request' = [request EXCEPT ![w] = NoRequest]
    /\ expired' = [expired EXCEPT ![w] = FALSE]
    /\ reply' = [reply EXCEPT ![w] = Reply("none", 0, NoRecord)]
    /\ wrote' = [wrote EXCEPT ![w] = FALSE]
    /\ known' = [known EXCEPT ![w] = FALSE]
    /\ Goto(w, "idle")
    /\ UNCHANGED <<store, seq, arrived, issued>>

\* All requests of the bound were answered.
Finished ==
    /\ arrived = MaxRequests /\ \A w \in Workers : pc[w] = "idle"
    /\ UNCHANGED vars

\* The steps of a thread in Forward, apart from its call of the user service.
ForwardStep(w) ==
    \/ Forward(w) \/ ParseRequest(w) \/ CallService(w) \/ EnterService(w)
    \/ Create(w) \/ Get(w) \/ SubmitTaskEvent(w)

Next ==
    \/ \E w \in Workers :
         Arrive(w) \/ Expire(w) \/ ForwardStep(w) \/ UserReply(w) \/ Return(w)
    \/ Finished

Spec == Init /\ [][Next]_vars

-----------------------------------------------------------------------------
(* Properties *)

\* The answers a request may get, and "none" before it has one.
Codes == {"none", "accepted"} \cup UserCodes

\* Every variable has its type, and each store holds the ids 1 to n for its
\* sequence number n.
TypeOK ==
    /\ pc \in [Workers -> {"idle", "forward", "parse", "call", "service", "locked", "done"}]
    /\ request \in [Workers -> Requests \cup {NoRequest}]
    /\ expired \in [Workers -> BOOLEAN]
    /\ reply \in [Workers -> [code : Codes, id : Nat, record : Records]]
    /\ seq \in [Kinds -> Nat]
    /\ DOMAIN store = Kinds /\ \A k \in Kinds : store[k] \in [1 .. seq[k] -> Records]
    /\ arrived \in 0 .. MaxRequests
    /\ wrote \in [Workers -> BOOLEAN]
    /\ known \in [Workers -> BOOLEAN]
    /\ DOMAIN issued = Kinds
    /\ \A k \in Kinds : issued[k] \in [DOMAIN issued[k] -> Nat]

\* What the client of this path is told is what happened: a request answered
\* with a failure has changed nothing, however late its deadline passed, so it
\* may be sent again (FillTimeoutIfCancelled before the mutex).
FailuresHaveNoEffect ==
    \A w \in Workers :
        pc[w] = "done" /\ wrote[w] => reply[w].code \in {"ok", "accepted"}

\* The strengthening that makes FailuresHaveNoEffect inductive: a request
\* writes in the step that answers it.
WritesAnswered ==
    \A w \in Workers :
        wrote[w] => pc[w] = "done" /\ reply[w].code \in {"ok", "accepted"}

\* Every task and every file was answered to exactly one request, by its own
\* id: no two threads get the same id and nothing is lost (CreateTask,
\* CreateFileMeta).
EveryIdIssuedOnce ==
    \A k \in Kinds :
        /\ DOMAIN issued[k] = DOMAIN store[k]
        /\ \A i \in DOMAIN issued[k] : issued[k][i] = 1

\* GetTask never returns a task half updated: its status, result and time come
\* from the same event, or from its creation.
ReadsAreWhole ==
    \A w \in Workers : \E e \in Fields : reply[w].record = Written(e)

\* The strengthening that makes ReadsAreWhole inductive: it holds of the
\* stores too.
StoresAreWhole ==
    \A k \in Kinds : \A i \in DOMAIN store[k] : \E e \in Fields : store[k][i] = Written(e)

\* A client that names an id it was given is heard, whatever the other threads
\* create meanwhile: the record is found, and an event is dropped only when its
\* deadline passed.  (SubmitTaskEvent answers nothing, so an event "accepted"
\* and lost would go unnoticed.)
IssuedIdsAreHeard ==
    \A w \in Workers :
        pc[w] = "done" /\ known[w]
          => /\ reply[w].code # "not found"
             /\ reply[w].code = "accepted" => wrote[w] \/ expired[w]

\* The strengthening that makes IssuedIdsAreHeard inductive: a known id stays
\* in its store.
KnownIdsStay ==
    \A w \in Workers :
        known[w] => /\ request[w].op \in {"get", "event"}
                    /\ request[w].id \in DOMAIN store[request[w].kind]
=============================================================================
