-------------------------- MODULE LocalRpc_proofs ---------------------------
(***************************************************************************)
(* Proofs about LocalRpc and about UserService, which implements it, for   *)
(* any threads, events, users, deployments and bounds.                     *)
(***************************************************************************)
EXTENDS UserService, TLAPS

Replies == [code : Codes, id : Nat, record : Records]

\* What the services and the client put into their variables has its type.
LEMMA Values ==
    /\ "created" \in Fields
    /\ NoRecord \in Records
    /\ \A e \in Fields : Written(e) \in Records
    /\ \A r \in Requests \cup {NoRequest} : r.event \in Fields
    /\ \A r \in Requests \cup {NoRequest} :
         r.op \in {"create", "get", "event"} => r.kind \in Kinds /\ r.id \in Nat
    /\ \A r \in Requests \cup {NoRequest} : r.op = "event" => r.kind = "task"
    /\ \A c \in Codes, i \in Nat, k \in Records : Reply(c, i, k) \in Replies
    /\ \A c \in Codes : Reply(c, 0, NoRecord) \in Replies
    /\ "task" \in Kinds
<1>1. "created" \in Fields /\ "task" \in Kinds
  BY DEF Fields, Kinds
<1>2. NoRecord \in Records /\ \A e \in Fields : Written(e) \in Records
  BY <1>1 DEF NoRecord, Written, Records
<1>3. \A r \in Requests \cup {NoRequest} :
        /\ r.event \in Fields
        /\ r.op \in {"create", "get", "event"} => r.kind \in Kinds /\ r.id \in Nat
        /\ r.op = "event" => r.kind = "task"
  BY LocalRpcAssumption DEF Fields, NoRequest, Requests, Kinds, Ids
<1>4. \A c \in Codes, i \in Nat, k \in Records : Reply(c, i, k) \in Replies
  BY DEF Reply, Replies
<1> QED BY <1>1, <1>2, <1>3, <1>4

\* What inserting the next id does to a store that has the ids 1 to n.
LEMMA Insertion ==
    ASSUME NEW n \in Nat, NEW f \in [1 .. n -> Records]
    PROVE  /\ Inserted(f, n + 1) \in [1 .. n + 1 -> Records]
           /\ DOMAIN Inserted(f, n + 1) = DOMAIN f \cup {n + 1}
           /\ Inserted(f, n + 1)[n + 1] = Written("created")
           /\ \A i \in DOMAIN f : Inserted(f, n + 1)[i] = f[i]
<1>1. 1 .. n + 1 = (1 .. n) \cup {n + 1} /\ n + 1 \notin 1 .. n
  OBVIOUS
<1>2. Written("created") \in Records
  BY Values
<1> QED BY <1>1, <1>2 DEF Inserted

\* What counting an answer does.
LEMMA Counting ==
    ASSUME NEW f, f \in [DOMAIN f -> Nat], NEW id
    PROVE  /\ DOMAIN Counted(f, id) = DOMAIN f \cup {id}
           /\ Counted(f, id) \in [DOMAIN Counted(f, id) -> Nat]
           /\ id \notin DOMAIN f => Counted(f, id)[id] = 1
           /\ \A i \in DOMAIN f \ {id} : Counted(f, id)[i] = f[i]
<1>1. DOMAIN Counted(f, id) = DOMAIN f \cup {id}
  BY DEF Counted
<1>2. \A i \in DOMAIN f : f[i] \in Nat
  OBVIOUS
<1>3. Counted(f, id) \in [DOMAIN Counted(f, id) -> Nat]
  BY <1>1, <1>2 DEF Counted
<1>4. id \notin DOMAIN f => Counted(f, id)[id] = 1
  BY DEF Counted
<1>5. \A i \in DOMAIN f \ {id} : Counted(f, id)[i] = f[i]
  BY <1>2 DEF Counted
<1> QED BY <1>1, <1>3, <1>4, <1>5

\* A creation in its parts.
LEMMA CreateParts ==
    ASSUME TypeOK, NEW w \in Workers, Create(w)
    PROVE  \E k \in Kinds :
             /\ k = request[w].kind
             /\ seq' = [seq EXCEPT ![k] = seq[k] + 1]
             /\ store' = [store EXCEPT ![k] = Inserted(store[k], seq[k] + 1)]
             /\ issued' = [issued EXCEPT ![k] = Counted(issued[k], seq[k] + 1)]
             /\ Answer(w, Reply("ok", seq[k] + 1, NoRecord))
             /\ wrote' = [wrote EXCEPT ![w] = TRUE]
             /\ UNCHANGED <<request, expired, arrived, known>>
<1>1. request[w].kind \in Kinds
  BY Values DEF TypeOK, Create
<1> QED BY <1>1 DEF Create, RequestsUnchanged

\* The steps that only move a thread on, or answer it without a record.
LEMMA QuietSteps ==
    ASSUME TypeOK, NEW w \in Workers,
           Forward(w) \/ ParseRequest(w) \/ CallService(w) \/ EnterService(w) \/ UserReply(w)
    PROVE  /\ UNCHANGED <<request, expired, arrived, known, store, seq, wrote, issued>>
           /\ \/ \E c \in Codes : Say(w, c)
              \/ /\ UNCHANGED reply
                 /\ \E p \in {"parse", "call", "service", "locked"} : Goto(w, p)
  BY DEF Forward, ParseRequest, CallService, EnterService, UserReply, RequestsUnchanged,
         StoresUnchanged, Codes, UserCodes

\* What an answer does to the threads.
LEMMA AnswerDoes ==
    ASSUME TypeOK, NEW w \in Workers, NEW r, Answer(w, r)
    PROVE  /\ pc'[w] = "done" /\ reply'[w] = r
           /\ \A v \in Workers \ {w} : pc'[v] = pc[v] /\ reply'[v] = reply[v]
  BY DEF Answer, Goto, TypeOK

LEMMA SayDoes ==
    ASSUME TypeOK, NEW w \in Workers, NEW c, Say(w, c)
    PROVE  /\ pc'[w] = "done" /\ reply'[w].code = c
           /\ \A v \in Workers \ {w} : pc'[v] = pc[v] /\ reply'[v] = reply[v]
  BY AnswerDoes DEF Say, Reply

LEMMA GotoDoes ==
    ASSUME TypeOK, NEW w \in Workers, NEW p, Goto(w, p)
    PROVE  pc'[w] = p /\ \A v \in Workers \ {w} : pc'[v] = pc[v]
  BY DEF Goto, TypeOK

\* TypeOK is inductive: one step per action.
LEMMA TypeStep == TypeOK /\ [Next]_vars => TypeOK'
<1> SUFFICES ASSUME TypeOK, [Next]_vars PROVE TypeOK'
  OBVIOUS
<1>1. ASSUME NEW w \in Workers, Arrive(w) PROVE TypeOK'
  BY <1>1, LocalRpcAssumption DEF TypeOK, Arrive, Goto, StoresUnchanged
<1>2. ASSUME NEW w \in Workers, Expire(w) PROVE TypeOK'
  BY <1>2 DEF TypeOK, Expire, StoresUnchanged
<1>3. ASSUME NEW w \in Workers, NEW c \in Codes, Say(w, c),
             UNCHANGED <<request, expired, arrived, known, store, seq, issued>>,
             wrote' \in [Workers -> BOOLEAN]
      PROVE TypeOK'
  <2>1. reply' = [reply EXCEPT ![w] = Reply(c, 0, NoRecord)] /\ Goto(w, "done")
    BY <1>3 DEF Say, Answer
  <2>2. reply' \in [Workers -> Replies]
    BY <2>1, Values DEF TypeOK, Replies
  <2> QED BY <1>3, <2>1, <2>2 DEF TypeOK, Goto, Replies
<1>4. ASSUME NEW w \in Workers,
             \/ Forward(w) \/ ParseRequest(w) \/ CallService(w) \/ EnterService(w)
             \/ UserReply(w)
      PROVE TypeOK'
  <2>1. UNCHANGED <<request, expired, arrived, known, store, seq, wrote, issued>>
    BY <1>4, QuietSteps
  <2>2. CASE \E c \in Codes : Say(w, c)
    BY <2>1, <2>2, <1>3 DEF TypeOK
  <2>3. CASE UNCHANGED reply /\ \E p \in {"parse", "call", "service", "locked"} : Goto(w, p)
    BY <2>1, <2>3 DEF TypeOK, Goto
  <2> QED BY <1>4, <2>2, <2>3, QuietSteps
<1>5. ASSUME NEW w \in Workers, Create(w) PROVE TypeOK'
  <2>1. PICK k \in Kinds :
          /\ seq' = [seq EXCEPT ![k] = seq[k] + 1]
          /\ store' = [store EXCEPT ![k] = Inserted(store[k], seq[k] + 1)]
          /\ issued' = [issued EXCEPT ![k] = Counted(issued[k], seq[k] + 1)]
          /\ Answer(w, Reply("ok", seq[k] + 1, NoRecord))
          /\ wrote' = [wrote EXCEPT ![w] = TRUE]
          /\ UNCHANGED <<request, expired, arrived, known>>
    BY <1>5, CreateParts
  <2>2. seq[k] \in Nat /\ store[k] \in [1 .. seq[k] -> Records]
    BY DEF TypeOK
  <2>3. Reply("ok", seq[k] + 1, NoRecord) \in Replies
    <3>1. "ok" \in Codes
      BY DEF Codes, UserCodes
    <3>2. seq[k] + 1 \in Nat /\ NoRecord \in Records
      BY <2>2, Values
    <3> QED BY <3>1, <3>2, Values
  <2>4. (seq \in [Kinds -> Nat])'
    BY <2>1, <2>2 DEF TypeOK
  <2>5. (DOMAIN store = Kinds /\ \A j \in Kinds : store[j] \in [1 .. seq[j] -> Records])'
    <3>1. ASSUME NEW j \in Kinds PROVE store'[j] \in [1 .. seq'[j] -> Records]
      <4>1. CASE j = k
        BY <2>1, <2>2, <4>1, Insertion DEF TypeOK
      <4>2. CASE j # k
        BY <2>1, <4>2 DEF TypeOK
      <4> QED BY <4>1, <4>2
    <3> QED BY <2>1, <3>1 DEF TypeOK
  <2>6. (DOMAIN issued = Kinds /\ \A j \in Kinds : issued[j] \in [DOMAIN issued[j] -> Nat])'
    <3>1. ASSUME NEW j \in Kinds PROVE issued'[j] \in [DOMAIN issued'[j] -> Nat]
      <4>1. CASE j = k
        BY <2>1, <4>1, Counting DEF TypeOK
      <4>2. CASE j # k
        BY <2>1, <4>2 DEF TypeOK
      <4> QED BY <4>1, <4>2
    <3> QED BY <2>1, <3>1 DEF TypeOK
  <2>7. reply' \in [Workers -> Replies] /\ Goto(w, "done")
    BY <2>1, <2>3 DEF TypeOK, Replies, Answer
  <2> QED BY <2>1, <2>4, <2>5, <2>6, <2>7 DEF TypeOK, Goto, Replies
<1>6. ASSUME NEW w \in Workers, Get(w) PROVE TypeOK'
  <2>0. UNCHANGED <<request, expired, arrived, known, store, seq, wrote, issued>>
    BY <1>6 DEF Get, RequestsUnchanged, StoresUnchanged
  <2> DEFINE found == store[request[w].kind]
  <2>1. CASE request[w].id \in DOMAIN found
    <3>1. Reply("ok", request[w].id, found[request[w].id]) \in Replies
      <4>1. request[w].kind \in Kinds /\ request[w].id \in Nat
        BY <1>6, Values DEF TypeOK, Get
      <4>2. found[request[w].id] \in Records
        BY <2>1, <4>1 DEF TypeOK
      <4>3. "ok" \in Codes
        BY DEF Codes, UserCodes
      <4> QED BY <4>1, <4>2, <4>3, Values
    <3>2. Answer(w, Reply("ok", request[w].id, found[request[w].id]))
      BY <1>6, <2>1 DEF Get
    <3> HIDE DEF found
    <3>3. reply' \in [Workers -> Replies] /\ Goto(w, "done")
      BY <3>1, <3>2 DEF TypeOK, Replies, Answer
    <3> QED BY <2>0, <3>3 DEF TypeOK, Goto, Replies
  <2>2. CASE request[w].id \notin DOMAIN found
    <3>1. Say(w, "not found") /\ "not found" \in Codes
      BY <1>6, <2>2 DEF Get, Codes, UserCodes
    <3> QED BY <2>0, <3>1, <1>3 DEF TypeOK
  <2> QED BY <2>1, <2>2
<1>7. ASSUME NEW w \in Workers, SubmitTaskEvent(w) PROVE TypeOK'
  <2>0. UNCHANGED <<request, expired, arrived, known, seq, issued>> /\ Say(w, "accepted")
        /\ "accepted" \in Codes
    BY <1>7 DEF SubmitTaskEvent, RequestsUnchanged, Codes
  <2>1. CASE request[w].id \in DOMAIN store["task"]
    <3>1. request[w].event \in Fields /\ Written(request[w].event) \in Records
      BY Values DEF TypeOK
    <3>2. wrote' \in [Workers -> BOOLEAN]
          /\ store' = [store EXCEPT !["task"][request[w].id] = Written(request[w].event)]
      BY <1>7, <2>1 DEF SubmitTaskEvent, TypeOK
    <3>3. DOMAIN store' = Kinds /\ \A j \in Kinds : store'[j] \in [1 .. seq[j] -> Records]
      <4>1. store'["task"] \in [1 .. seq["task"] -> Records]
        BY <2>1, <3>1, <3>2, Values DEF TypeOK
      <4>2. DOMAIN store' = Kinds /\ \A j \in Kinds \ {"task"} : store'[j] = store[j]
        BY <3>2 DEF TypeOK
      <4> QED BY <4>1, <4>2 DEF TypeOK
    <3>4. reply' \in [Workers -> Replies] /\ Goto(w, "done")
      BY <2>0, Values DEF Say, Answer, TypeOK, Replies
    <3> QED BY <2>0, <3>2, <3>3, <3>4 DEF TypeOK, Goto, Replies
  <2>2. CASE request[w].id \notin DOMAIN store["task"]
    <3>1. UNCHANGED <<store, wrote>>
      BY <1>7, <2>2 DEF SubmitTaskEvent
    <3> QED BY <2>0, <3>1, <1>3 DEF TypeOK
  <2> QED BY <2>1, <2>2
<1>8. ASSUME NEW w \in Workers, Return(w) PROVE TypeOK'
  <2>1. Reply("none", 0, NoRecord) \in Replies
    BY Values DEF Codes
  <2> QED BY <1>8, <2>1 DEF Return, TypeOK, Goto, Replies
<1>9. CASE UNCHANGED vars
  BY <1>9 DEF TypeOK, vars
<1> QED
  BY <1>1, <1>2, <1>4, <1>5, <1>6, <1>7, <1>8, <1>9 DEF Next, ForwardStep, Finished

\* Type correctness: in particular each store holds exactly the ids that its
\* sequence number has given out.
THEOREM TypeCorrect == Spec => []TypeOK
<1>1. Init => TypeOK
  <2>1. Reply("none", 0, NoRecord) \in Replies
    BY Values DEF Codes
  <2> QED BY <2>1, LocalRpcAssumption DEF Init, TypeOK, Replies, Empty
<1> QED BY <1>1, TypeStep, PTL DEF Spec

\* A request that is answered with a failure has changed nothing, however late
\* its deadline passed (FillTimeoutIfCancelled comes before the mutex).
THEOREM FailuresAreHarmless == Spec => []FailuresHaveNoEffect
<1>1. Init => WritesAnswered
  BY DEF Init, WritesAnswered
<1>2. TypeOK /\ WritesAnswered /\ [Next]_vars => WritesAnswered'
  <2> SUFFICES ASSUME TypeOK, WritesAnswered, [Next]_vars PROVE WritesAnswered'
    OBVIOUS
  <2>1. ASSUME NEW w \in Workers, Arrive(w) \/ Expire(w) PROVE WritesAnswered'
    BY <2>1 DEF TypeOK, WritesAnswered, Arrive, Expire, Goto, StoresUnchanged
  <2>2. ASSUME NEW w \in Workers, UNCHANGED wrote, pc[w] # "done",
               \A v \in Workers \ {w} : pc'[v] = pc[v] /\ reply'[v] = reply[v]
        PROVE  WritesAnswered'
    BY <2>2 DEF WritesAnswered
  <2>3. ASSUME NEW w \in Workers,
               \/ Forward(w) \/ ParseRequest(w) \/ CallService(w) \/ EnterService(w)
               \/ UserReply(w) \/ Get(w)
        PROVE  WritesAnswered'
    <3>1. UNCHANGED wrote /\ pc[w] # "done"
      BY <2>3 DEF Forward, ParseRequest, CallService, EnterService, UserReply,
         Get, StoresUnchanged
    <3>2. \A v \in Workers \ {w} : pc'[v] = pc[v] /\ reply'[v] = reply[v]
      BY <2>3 DEF TypeOK, Forward, ParseRequest, CallService, EnterService, UserReply, Get,
         Say, Answer, Goto
    <3> QED BY <3>1, <3>2, <2>2
  <2>4. ASSUME NEW w \in Workers, Create(w) \/ SubmitTaskEvent(w) PROVE WritesAnswered'
    <3>1. pc'[w] = "done" /\ reply'[w].code \in {"ok", "accepted"}
      BY <2>4 DEF TypeOK, Create, SubmitTaskEvent, Say, Answer, Goto, Reply
    <3>2. \A v \in Workers \ {w} :
            pc'[v] = pc[v] /\ reply'[v] = reply[v] /\ wrote'[v] = wrote[v]
      BY <2>4 DEF TypeOK, Create, SubmitTaskEvent, Say, Answer, Goto
    <3> QED BY <3>1, <3>2 DEF WritesAnswered
  <2>5. ASSUME NEW w \in Workers, Return(w) PROVE WritesAnswered'
    BY <2>5 DEF TypeOK, WritesAnswered, Return, Goto
  <2>6. CASE UNCHANGED vars
    BY <2>6 DEF WritesAnswered, vars
  <2> QED BY <2>1, <2>3, <2>4, <2>5, <2>6 DEF Next, ForwardStep, Finished
<1>3. WritesAnswered => FailuresHaveNoEffect
  BY DEF WritesAnswered, FailuresHaveNoEffect
<1> QED BY <1>1, <1>2, <1>3, TypeCorrect, PTL DEF Spec

\* The steps that leave the stores and what was issued alone.
LEMMA StoreSteps ==
    ASSUME TypeOK, [Next]_vars, ~(\E w \in Workers : Create(w) \/ SubmitTaskEvent(w))
    PROVE  UNCHANGED <<store, issued>>
  BY DEF Next, ForwardStep, Finished, vars, Arrive, Expire, Forward, ParseRequest,
         CallService, EnterService, UserReply, Get, Return, StoresUnchanged

\* An event changes no domain.
LEMMA EventDomains ==
    ASSUME TypeOK, NEW w \in Workers, SubmitTaskEvent(w)
    PROVE  /\ UNCHANGED issued
           /\ \A k \in Kinds : DOMAIN store'[k] = DOMAIN store[k]
<1>1. UNCHANGED issued
  BY DEF SubmitTaskEvent
<1>2. CASE UNCHANGED store
  BY <1>1, <1>2
<1>3. CASE store' = [store EXCEPT !["task"][request[w].id] = Written(request[w].event)]
  <2>1. store'["task"] = [store["task"] EXCEPT ![request[w].id] = Written(request[w].event)]
    BY <1>3, Values DEF TypeOK
  <2>2. \A k \in Kinds \ {"task"} : store'[k] = store[k]
    BY <1>3 DEF TypeOK
  <2> QED BY <1>1, <2>1, <2>2
<1> QED BY <1>2, <1>3 DEF SubmitTaskEvent

\* Every task and every file was answered to exactly one request, by its own
\* id.
THEOREM IdsIssuedOnce == Spec => []EveryIdIssuedOnce
<1>1. Init => EveryIdIssuedOnce
  BY DEF Init, EveryIdIssuedOnce, Empty
<1>2. TypeOK /\ EveryIdIssuedOnce /\ [Next]_vars => EveryIdIssuedOnce'
  <2> SUFFICES ASSUME TypeOK, EveryIdIssuedOnce, [Next]_vars
               PROVE  EveryIdIssuedOnce'
    OBVIOUS
  <2>1. ASSUME NEW w \in Workers, Create(w) PROVE EveryIdIssuedOnce'
    <3>1. PICK k \in Kinds :
            /\ store' = [store EXCEPT ![k] = Inserted(store[k], seq[k] + 1)]
            /\ issued' = [issued EXCEPT ![k] = Counted(issued[k], seq[k] + 1)]
      BY <2>1, CreateParts
    <3>2. seq[k] \in Nat /\ store[k] \in [1 .. seq[k] -> Records]
          /\ issued[k] \in [DOMAIN issued[k] -> Nat]
      BY DEF TypeOK
    <3>3. DOMAIN store'[k] = DOMAIN store[k] \cup {seq[k] + 1}
      BY <3>1, <3>2, Insertion DEF TypeOK
    <3>4. issued'[k] = Counted(issued[k], seq[k] + 1)
      BY <3>1 DEF TypeOK
    <3>5. DOMAIN issued[k] = 1 .. seq[k] /\ DOMAIN store[k] = 1 .. seq[k]
      BY <3>2 DEF EveryIdIssuedOnce
    <3>6. seq[k] + 1 \notin DOMAIN issued[k]
      BY <3>2, <3>5
    <3>7. /\ DOMAIN issued'[k] = DOMAIN issued[k] \cup {seq[k] + 1}
          /\ issued'[k][seq[k] + 1] = 1
          /\ \A i \in DOMAIN issued[k] \ {seq[k] + 1} : issued'[k][i] = issued[k][i]
      <4> DEFINE f == issued[k]
      <4>1. f \in [DOMAIN f -> Nat] /\ seq[k] + 1 \notin DOMAIN f
        BY <3>2, <3>6
      <4> HIDE DEF f
      <4>2. /\ DOMAIN Counted(f, seq[k] + 1) = DOMAIN f \cup {seq[k] + 1}
            /\ Counted(f, seq[k] + 1)[seq[k] + 1] = 1
            /\ \A i \in DOMAIN f \ {seq[k] + 1} : Counted(f, seq[k] + 1)[i] = f[i]
        BY <4>1, Counting
      <4> QED BY <4>2, <3>4 DEF f
    <3>8. DOMAIN issued'[k] = DOMAIN store'[k] /\ \A i \in DOMAIN issued'[k] : issued'[k][i] = 1
      <4>1. \A i \in DOMAIN issued[k] : issued[k][i] = 1
        BY DEF EveryIdIssuedOnce
      <4> QED BY <3>3, <3>5, <3>7, <4>1
    <3>9. \A j \in Kinds \ {k} : store'[j] = store[j] /\ issued'[j] = issued[j]
      BY <3>1 DEF TypeOK
    <3> QED BY <3>8, <3>9 DEF EveryIdIssuedOnce
  <2>2. ASSUME NEW w \in Workers, SubmitTaskEvent(w) PROVE EveryIdIssuedOnce'
    BY <2>2, EventDomains DEF EveryIdIssuedOnce
  <2>3. CASE UNCHANGED <<store, issued>>
    BY <2>3 DEF EveryIdIssuedOnce
  <2> QED BY <2>1, <2>2, <2>3, StoreSteps
<1> QED BY <1>1, <1>2, TypeCorrect, PTL DEF Spec

\* GetTask never answers a task half updated.
THEOREM ReadsWholeRecords == Spec => []ReadsAreWhole
<1> DEFINE Inv == ReadsAreWhole /\ StoresAreWhole
<1>0. \E e \in Fields : NoRecord = Written(e)
  BY DEF NoRecord, Fields
<1>1. Init => Inv
  BY <1>0 DEF Init, ReadsAreWhole, StoresAreWhole, Reply, Empty
<1>2. TypeOK /\ Inv /\ [Next]_vars => Inv'
  <2> SUFFICES ASSUME TypeOK, ReadsAreWhole, StoresAreWhole, [Next]_vars PROVE Inv'
    OBVIOUS
  <2>1. ASSUME NEW w \in Workers, NEW r, reply' = [reply EXCEPT ![w] = r],
               \E e \in Fields : r.record = Written(e)
        PROVE  ReadsAreWhole'
    BY <2>1 DEF ReadsAreWhole, TypeOK
  <2>2. ASSUME NEW w \in Workers, NEW c, Say(w, c) PROVE ReadsAreWhole'
    <3>1. reply' = [reply EXCEPT ![w] = Reply(c, 0, NoRecord)]
          /\ Reply(c, 0, NoRecord).record = NoRecord
      BY <2>2 DEF Say, Answer, Reply
    <3> QED BY <3>1, <2>1, <1>0
  <2>3. ASSUME NEW w \in Workers, Create(w) PROVE Inv'
    <3>1. PICK k \in Kinds :
            /\ store' = [store EXCEPT ![k] = Inserted(store[k], seq[k] + 1)]
            /\ Answer(w, Reply("ok", seq[k] + 1, NoRecord))
      BY <2>3, CreateParts
    <3>2. reply' = [reply EXCEPT ![w] = Reply("ok", seq[k] + 1, NoRecord)]
          /\ Reply("ok", seq[k] + 1, NoRecord).record = NoRecord
      BY <3>1 DEF Answer, Reply
    <3>3. store'[k] = Inserted(store[k], seq[k] + 1)
          /\ \A j \in Kinds \ {k} : store'[j] = store[j]
      BY <3>1 DEF TypeOK
    <3>4. /\ DOMAIN store'[k] = DOMAIN store[k] \cup {seq[k] + 1}
          /\ store'[k][seq[k] + 1] = Written("created")
          /\ \A i \in DOMAIN store[k] : store'[k][i] = store[k][i]
      <4>1. seq[k] \in Nat /\ store[k] \in [1 .. seq[k] -> Records]
        BY DEF TypeOK
      <4> QED BY <3>3, <4>1, Insertion, ZenonT(60)
    <3>5. StoresAreWhole'
      BY <3>3, <3>4, Values DEF StoresAreWhole
    <3> QED BY <3>2, <3>5, <2>1, <1>0
  <2>4. ASSUME NEW w \in Workers, Get(w) PROVE Inv'
    <3> DEFINE found == store[request[w].kind]
    <3>1. StoresAreWhole'
      BY <2>4 DEF Get, StoresUnchanged, StoresAreWhole
    <3>2. CASE request[w].id \in DOMAIN found
      <4>1. reply' = [reply EXCEPT ![w] = Reply("ok", request[w].id, found[request[w].id])]
            /\ Reply("ok", request[w].id, found[request[w].id]).record = found[request[w].id]
        BY <2>4, <3>2 DEF Get, Answer, Reply
      <4>2. \E e \in Fields : found[request[w].id] = Written(e)
        BY <2>4, <3>2, Values DEF StoresAreWhole, Get, TypeOK
      <4> QED BY <3>1, <4>1, <4>2, <2>1
    <3>3. CASE request[w].id \notin DOMAIN found
      BY <2>4, <3>1, <3>3, <2>2 DEF Get
    <3> QED BY <3>2, <3>3
  <2>5. ASSUME NEW w \in Workers, SubmitTaskEvent(w) PROVE Inv'
    <3>1. ReadsAreWhole'
      BY <2>5, <2>2 DEF SubmitTaskEvent
    <3>2. request[w].event \in Fields
      BY Values DEF TypeOK
    <3>3. CASE UNCHANGED store
      BY <3>1, <3>3 DEF StoresAreWhole
    <3>4. CASE store' = [store EXCEPT !["task"][request[w].id] = Written(request[w].event)]
      <4>1. store'["task"] = [store["task"] EXCEPT ![request[w].id] = Written(request[w].event)]
            /\ \A k \in Kinds \ {"task"} : store'[k] = store[k]
        BY <3>4, Values DEF TypeOK
      <4>2. \A i \in DOMAIN store'["task"] :
              store'["task"][i] = Written(request[w].event) \/ store'["task"][i] = store["task"][i]
        BY <4>1
      <4>3. DOMAIN store'["task"] = DOMAIN store["task"]
        BY <4>1
      <4> QED BY <3>1, <3>2, <4>1, <4>2, <4>3 DEF StoresAreWhole
    <3> QED BY <2>5, <3>3, <3>4 DEF SubmitTaskEvent
  <2>6. ASSUME NEW w \in Workers,
               \/ Forward(w) \/ ParseRequest(w) \/ CallService(w) \/ EnterService(w)
               \/ UserReply(w)
        PROVE  Inv'
    <3>1. UNCHANGED store /\ (UNCHANGED reply \/ \E c \in Codes : Say(w, c))
      BY <2>6, QuietSteps
    <3>2. StoresAreWhole'
      BY <3>1 DEF StoresAreWhole
    <3>3. CASE UNCHANGED reply
      BY <3>2, <3>3 DEF ReadsAreWhole
    <3>4. CASE \E c \in Codes : Say(w, c)
      BY <3>2, <3>4, <2>2
    <3> QED BY <3>1, <3>3, <3>4
  <2>7. ASSUME NEW w \in Workers, Return(w) PROVE Inv'
    <3>1. StoresAreWhole'
      BY <2>7 DEF Return, StoresAreWhole
    <3>2. reply' = [reply EXCEPT ![w] = Reply("none", 0, NoRecord)]
          /\ Reply("none", 0, NoRecord).record = NoRecord
      BY <2>7 DEF Return, Reply
    <3> QED BY <3>1, <3>2, <2>1, <1>0
  <2>8. CASE UNCHANGED <<reply, store>>
    BY <2>8 DEF ReadsAreWhole, StoresAreWhole
  <2> QED BY <2>3, <2>4, <2>5, <2>6, <2>7, <2>8 DEF Next, ForwardStep, Finished, vars,
       Arrive, Expire, StoresUnchanged
<1> QED BY <1>1, <1>2, TypeCorrect, PTL DEF Spec

\* A client that names an id it was given is heard.
THEOREM IssuedIdsHeard == Spec => []IssuedIdsAreHeard
<1> DEFINE Inv == IssuedIdsAreHeard /\ KnownIdsStay
<1>1. Init => Inv
  BY DEF Init, IssuedIdsAreHeard, KnownIdsStay
<1>2. TypeOK /\ TypeOK' /\ EveryIdIssuedOnce /\ Inv /\ [Next]_vars => Inv'
  <2> SUFFICES ASSUME TypeOK, TypeOK', EveryIdIssuedOnce, IssuedIdsAreHeard, KnownIdsStay,
                      [Next]_vars
               PROVE  Inv'
    OBVIOUS
  <2>0. \A k \in Kinds : DOMAIN store[k] \subseteq DOMAIN store'[k]
    <3>1. ASSUME NEW w \in Workers, Create(w)
          PROVE  \A k \in Kinds : DOMAIN store[k] \subseteq DOMAIN store'[k]
      <4>1. PICK k \in Kinds :
              store' = [store EXCEPT ![k] = Inserted(store[k], seq[k] + 1)]
        BY <3>1, CreateParts
      <4>2. store'[k] = Inserted(store[k], seq[k] + 1)
            /\ \A j \in Kinds \ {k} : store'[j] = store[j]
        BY <4>1 DEF TypeOK
      <4>3. DOMAIN store[k] \subseteq DOMAIN Inserted(store[k], seq[k] + 1)
        BY DEF Inserted
      <4> QED BY <4>2, <4>3
    <3> QED BY <3>1, StoreSteps, EventDomains
  \* A step of w that does not touch the other threads.
  <2> DEFINE Others(w) ==
        \A v \in Workers \ {w} :
          /\ pc'[v] = pc[v] /\ request'[v] = request[v] /\ reply'[v] = reply[v]
          /\ known'[v] = known[v] /\ wrote'[v] = wrote[v] /\ expired'[v] = expired[v]
  <2> DEFINE Heard(v) ==
        pc[v] = "done" /\ known[v]
          => /\ reply[v].code # "not found"
             /\ reply[v].code = "accepted" => wrote[v] \/ expired[v]
  <2> DEFINE Stays(v) ==
        known[v] => /\ request[v].op \in {"get", "event"}
                    /\ request[v].id \in DOMAIN store[request[v].kind]
  <2>1. ASSUME NEW w \in Workers, Others(w), Heard(w)', Stays(w)' PROVE Inv'
    <3>1. ASSUME NEW v \in Workers \ {w} PROVE Heard(v)' /\ Stays(v)'
      <4>1. Heard(v) /\ Stays(v)
        BY DEF IssuedIdsAreHeard, KnownIdsStay
      <4>2. known[v] => request[v].kind \in Kinds
        BY <4>1, Values DEF TypeOK
      <4> QED BY <2>0, <2>1, <4>1, <4>2
    <3> QED BY <2>1, <3>1 DEF IssuedIdsAreHeard, KnownIdsStay
  <2>2. ASSUME NEW w \in Workers, Arrive(w) PROVE Inv'
    <3>1. Others(w) /\ pc'[w] = "forward" /\ UNCHANGED <<store, issued>>
      BY <2>2 DEF Arrive, Goto, StoresUnchanged, TypeOK
    <3>2. PICK r \in Requests :
            /\ request'[w] = r
            /\ known'[w] = (r.op \in {"get", "event"} /\ r.id \in DOMAIN issued[r.kind])
      BY <2>2 DEF Arrive, TypeOK
    <3>3. Stays(w)'
      BY <3>1, <3>2, Values DEF EveryIdIssuedOnce
    <3> QED BY <3>1, <3>3, <2>1
  <2>3. ASSUME NEW w \in Workers, Expire(w) PROVE Inv'
    BY <2>3 DEF Expire, StoresUnchanged, TypeOK, IssuedIdsAreHeard, KnownIdsStay
  <2>4. ASSUME NEW w \in Workers, UNCHANGED <<request, known>>, Others(w), Heard(w)' PROVE Inv'
    <3>1. Stays(w) /\ (known[w] => request[w].kind \in Kinds)
      BY Values DEF KnownIdsStay, TypeOK
    <3>2. Stays(w)'
      BY <2>0, <2>4, <3>1
    <3> QED BY <2>4, <3>2, <2>1
  <2>5. ASSUME NEW w \in Workers,
               \/ Forward(w) \/ ParseRequest(w) \/ CallService(w) \/ EnterService(w)
               \/ UserReply(w)
        PROVE  Inv'
    <3>1. UNCHANGED <<request, known, wrote, expired>> /\ Others(w)
      <4>1. UNCHANGED <<request, known, wrote, expired>>
        BY <2>5, QuietSteps
      <4>2. \A v \in Workers \ {w} : pc'[v] = pc[v] /\ reply'[v] = reply[v]
        BY <2>5, QuietSteps, SayDoes, GotoDoes
      <4> QED BY <4>1, <4>2
    <3>2. CASE Forward(w)
      <4>1. known[w] => request[w].op # "other"
        BY DEF KnownIdsStay
      <4>2. known[w] => Say(w, "timeout") \/ Goto(w, "parse")
        BY <3>2, <4>1 DEF Forward
      <4>3. known[w] => reply'[w].code = "timeout" \/ pc'[w] = "parse"
        BY <4>2, SayDoes, GotoDoes
      <4>4. Heard(w)'
        BY <3>1, <4>3
      <4> QED BY <3>1, <4>4, <2>4
    <3>3. CASE ParseRequest(w) \/ CallService(w) \/ EnterService(w)
      <4>1. \/ \E c \in {"timeout", "internal error", "bad request"} : Say(w, c)
            \/ expired[w] /\ Say(w, "accepted")
            \/ \E p \in {"call", "service", "locked"} : Goto(w, p)
        BY <3>3 DEF ParseRequest, CallService, EnterService
      <4>2. \/ reply'[w].code \in {"timeout", "internal error", "bad request"}
            \/ expired[w] /\ reply'[w].code = "accepted"
            \/ pc'[w] \in {"call", "service", "locked"}
        BY <4>1, SayDoes, GotoDoes
      <4>3. Heard(w)'
        BY <3>1, <4>2
      <4> QED BY <3>1, <4>3, <2>4
    <3>4. CASE UserReply(w)
      <4>1. ~known[w]
        BY <3>4, Values DEF KnownIdsStay, UserReply, TypeOK, Kinds
      <4> QED BY <3>1, <4>1, <2>4
    <3> QED BY <2>5, <3>2, <3>3, <3>4
  <2>6. ASSUME NEW w \in Workers, Create(w) PROVE Inv'
    <3>1. UNCHANGED <<request, known>> /\ Others(w)
      BY <2>6 DEF Create, RequestsUnchanged, Answer, Goto, TypeOK
    <3>2. ~known[w]
      BY <2>6 DEF Create, KnownIdsStay
    <3> QED BY <3>1, <3>2, <2>4
  <2>7. ASSUME NEW w \in Workers, Get(w) PROVE Inv'
    <3>1. UNCHANGED <<request, known>> /\ Others(w)
      BY <2>7, SayDoes, AnswerDoes DEF Get, RequestsUnchanged, StoresUnchanged
    <3>2. known[w] => reply'[w].code = "ok"
      <4>1. known[w] => request[w].id \in DOMAIN store[request[w].kind]
        BY DEF KnownIdsStay
      <4>2. known[w] => \E i, k : Answer(w, Reply("ok", i, k))
        BY <2>7, <4>1 DEF Get
      <4>3. \A i, k : Reply("ok", i, k).code = "ok"
        BY DEF Reply
      <4> QED BY <4>2, <4>3, AnswerDoes
    <3> QED BY <3>1, <3>2, <2>4
  <2>8. ASSUME NEW w \in Workers, SubmitTaskEvent(w) PROVE Inv'
    <3>1. UNCHANGED <<request, known>> /\ Others(w)
      BY <2>8 DEF SubmitTaskEvent, RequestsUnchanged, Say, Answer, Goto, TypeOK
    <3>2. known[w] => wrote'[w]
      <4>1. request[w].kind = "task"
        BY <2>8, Values DEF SubmitTaskEvent, TypeOK
      <4> QED BY <2>8, <4>1 DEF SubmitTaskEvent, KnownIdsStay, TypeOK
    <3>3. reply'[w].code = "accepted"
      BY <2>8 DEF SubmitTaskEvent, Say, Answer, Reply, TypeOK
    <3> QED BY <3>1, <3>2, <3>3, <2>4
  <2>9. ASSUME NEW w \in Workers, Return(w) PROVE Inv'
    <3>1. Others(w) /\ ~known'[w]
      BY <2>9 DEF Return, Goto, TypeOK
    <3> QED BY <3>1, <2>1
  <2>10. CASE UNCHANGED vars
    BY <2>10 DEF vars, IssuedIdsAreHeard, KnownIdsStay
  <2> QED BY <2>2, <2>3, <2>5, <2>6, <2>7, <2>8, <2>9, <2>10 DEF Next, ForwardStep, Finished
<1>3. Inv => IssuedIdsAreHeard
  OBVIOUS
<1> QED BY <1>1, <1>2, <1>3, TypeCorrect, IdsIssuedOnce, PTL DEF Spec

-----------------------------------------------------------------------------
(* UserService implements LocalRpc, and its verdicts are real. *)

\* The functions of the detailed part are functions of the threads.
Threads == /\ conn \in [Workers -> {"none", "connect", "queued", "accepted", "answered", "broken"}]
           /\ DOMAIN line = Workers /\ DOMAIN data = Workers

UInv == TypeOK /\ Threads /\ CallsWait /\ LinesAreVerdicts

\* Every verdict, and every code of a call that fails, is one LocalRpc allows.
LEMMA VerdictCodes ==
    \A op, d : \A found : Verdict(op, d, found) \in UserCodes
BY DEF Verdict, UserCodes

\* So is every answer of the service in the gateway's process.
LEMMA LocalVerdictCodes ==
    \A op, d : LocalVerdicts(op, d) \subseteq UserCodes
BY VerdictCodes DEF LocalVerdicts, UserCodes

\* A call that ends with such a code is a reply of LocalRpc's user service.
LEMMA CallEndsDoes ==
    ASSUME NEW w \in Workers, NEW c \in UserCodes, AtUserService(w), CallEnds(w, c)
    PROVE  UserReply(w)
BY DEF CallEnds, UserReply, AtUserService

\* Each step of the detailed service is a step of LocalRpc, or none.
LEMMA StepRefines == UInv /\ [UNext]_allVars => [Next]_vars
<1> SUFFICES ASSUME UInv, [UNext]_allVars PROVE [Next]_vars
  OBVIOUS
<1> USE DEF UInv
<1>1. ASSUME NEW w \in Workers, UArrive(w) PROVE [Next]_vars
  BY <1>1 DEF UArrive, Next
<1>2. ASSUME NEW w \in Workers, Expire(w) PROVE [Next]_vars
  BY <1>2 DEF Next
<1>3. ASSUME NEW w \in Workers, ForwardStep(w) PROVE [Next]_vars
  BY <1>3 DEF Next
<1>4. ASSUME NEW w \in Workers, UReturn(w) PROVE [Next]_vars
  BY <1>4 DEF UReturn, Next
<1>5. ASSUME NEW w \in Workers, LocalCall(w) PROVE [Next]_vars
  <2>1. UserReply(w)
    BY <1>5, LocalVerdictCodes DEF LocalCall, UserReply, AtUserService, UserCodes
  <2> QED BY <2>1 DEF Next
<1>6. ASSUME NEW w \in Workers, AtUserService(w), CallFails(w) PROVE [Next]_vars
  <2>1. UserReply(w)
    BY <1>6, CallEndsDoes DEF CallFails, UserCodes
  <2> QED BY <2>1 DEF Next
<1>7. ASSUME NEW w \in Workers, StartCall(w) PROVE [Next]_vars
  BY <1>6, <1>7 DEF StartCall
<1>8. ASSUME NEW w \in Workers, Connect(w) PROVE [Next]_vars
  <2>1. AtUserService(w)
    BY <1>8 DEF Connect, CallsWait
  <2> QED BY <1>6, <1>8, <2>1 DEF Connect
<1>9. ASSUME NEW w \in Workers, ReadFails(w) PROVE [Next]_vars
  <2>1. AtUserService(w)
    BY <1>9 DEF ReadFails, CallsWait
  <2> QED BY <1>6, <1>9, <2>1 DEF ReadFails
<1>10. ASSUME NEW w \in Workers, ReadAnswer(w) PROVE [Next]_vars
  <2>1. AtUserService(w) /\ line[w] \in UserCodes
    BY <1>10, VerdictCodes, ZenonT(60) DEF ReadAnswer, CallsWait, LinesAreVerdicts, ServerVerdict, UserCodes
  <2>2. UserReply(w)
    BY <1>10, <2>1, CallEndsDoes DEF ReadAnswer
  <2> QED BY <2>2 DEF Next
<1>11. ASSUME NEW w \in Workers, Accept(w) \/ HandleSession(w) PROVE [Next]_vars
  BY <1>11 DEF Accept, HandleSession
<1>12. CASE Crash \/ Restart
  BY <1>12 DEF Crash, Restart
<1>13. CASE Finished
  BY <1>13 DEF Next
<1>14. CASE UNCHANGED allVars
  BY <1>14 DEF allVars
<1> QED
  BY <1>1, <1>2, <1>3, <1>4, <1>5, <1>7, <1>8, <1>9, <1>10, <1>11, <1>12, <1>13, <1>14
     DEF UNext, UStep

\* A step of LocalRpc belongs to one thread; the others stay where they are.
LEMMA OthersStay ==
    ASSUME TypeOK, NEW w \in Workers,
           Arrive(w) \/ Expire(w) \/ ForwardStep(w) \/ UserReply(w) \/ Return(w)
    PROVE  \A v \in Workers \ {w} :
             pc'[v] = pc[v] /\ request'[v] = request[v] /\ reply'[v] = reply[v]
<1>1. CASE Arrive(w)
  BY <1>1 DEF Arrive, Goto, TypeOK
<1>2. CASE Expire(w)
  BY <1>2 DEF Expire
<1>3. CASE Forward(w) \/ ParseRequest(w) \/ CallService(w) \/ EnterService(w) \/ UserReply(w)
  BY <1>3, QuietSteps, SayDoes, GotoDoes
<1>4. CASE Create(w)
  BY <1>4, AnswerDoes DEF Create, RequestsUnchanged
<1>5. CASE Get(w)
  BY <1>5, AnswerDoes, SayDoes DEF Get, RequestsUnchanged
<1>6. CASE SubmitTaskEvent(w)
  BY <1>6, SayDoes DEF SubmitTaskEvent, RequestsUnchanged
<1>7. CASE Return(w)
  BY <1>7 DEF Return, Goto, TypeOK
<1> QED BY <1>1, <1>2, <1>3, <1>4, <1>5, <1>6, <1>7 DEF ForwardStep

\* A thread that waits for the remote service takes no step of Forward.
LEMMA WaitingStays ==
    ASSUME UInv, NEW w \in Workers, ForwardStep(w) \/ Arrive(w) \/ Return(w)
    PROVE  conn[w] = "none"
BY DEF UInv, CallsWait, AtUserService, ForwardStep, Arrive, Return, Forward, ParseRequest,
       CallService, EnterService, Create, Get, SubmitTaskEvent, Kinds

\* The call of thread w is over: nobody else's is touched.
LEMMA CallEndsKeeps ==
    ASSUME UInv, NEW w \in Workers, NEW c \in UserCodes, AtUserService(w), CallEnds(w, c),
           UNCHANGED <<mode, data>>
    PROVE  Threads' /\ CallsWait' /\ LinesAreVerdicts'
<1>1. UserReply(w)
  BY CallEndsDoes
<1>2. \A v \in Workers \ {w} : pc'[v] = pc[v] /\ request'[v] = request[v]
  BY <1>1, OthersStay DEF UInv
<1>3. /\ conn'[w] = "none"
      /\ \A v \in Workers \ {w} : conn'[v] = conn[v] /\ line'[v] = line[v]
  BY DEF CallEnds, UInv, Threads
<1>4. Threads'
  BY DEF CallEnds, UInv, Threads
<1>5. CallsWait'
  BY <1>2, <1>3 DEF UInv, CallsWait, AtUserService
<1>6. LinesAreVerdicts'
  BY <1>2, <1>3 DEF UInv, LinesAreVerdicts, ServerVerdict
<1> QED BY <1>4, <1>5, <1>6

\* Steps that move one connection, and leave LocalRpc and the requests alone.
LEMMA ConnectionKeeps ==
    ASSUME UInv, NEW w \in Workers, NEW x \in {"connect", "queued", "accepted", "broken"},
           AtUserService(w), mode = "remote", conn' = [conn EXCEPT ![w] = x],
           UNCHANGED <<vars, mode, data, line>>
    PROVE  Threads' /\ CallsWait' /\ LinesAreVerdicts'
BY DEF UInv, Threads, CallsWait, LinesAreVerdicts, AtUserService, ServerVerdict, vars

LEMMA UInvStep == UInv /\ [UNext]_allVars => UInv'
<1> SUFFICES ASSUME UInv, [UNext]_allVars PROVE UInv'
  OBVIOUS
<1>0. TypeOK'
  BY StepRefines, TypeStep DEF UInv
<1> SUFFICES Threads' /\ CallsWait' /\ LinesAreVerdicts'
  BY <1>0 DEF UInv
<1>1. ASSUME NEW w \in Workers,
             Arrive(w) \/ Expire(w) \/ ForwardStep(w) \/ Return(w) \/ (UserReply(w) /\ conn[w] = "none"),
             UNCHANGED <<mode, conn, line>>, DOMAIN data' = Workers,
             \A v \in Workers \ {w} : data'[v] = data[v],
             Expire(w) => UNCHANGED data
      PROVE  Threads' /\ CallsWait' /\ LinesAreVerdicts'
  <2>1. Expire(w) \/ conn[w] = "none"
    BY <1>1, WaitingStays
  <2>2. \A v \in Workers : conn[v] # "none" =>
          pc'[v] = pc[v] /\ request'[v] = request[v] /\ data'[v] = data[v]
    BY <1>1, <2>1, OthersStay DEF UInv, Expire
  <2> QED
    BY <1>1, <2>2 DEF UInv, Threads, CallsWait, LinesAreVerdicts, AtUserService, ServerVerdict
<1>2. ASSUME NEW w \in Workers, UArrive(w) PROVE Threads' /\ CallsWait' /\ LinesAreVerdicts'
  <2>1. Arrive(w) /\ UNCHANGED <<mode, conn, line>> /\ \E d : data' = [data EXCEPT ![w] = d]
    BY <1>2 DEF UArrive
  <2>2. DOMAIN data' = Workers /\ \A v \in Workers \ {w} : data'[v] = data[v]
    BY <2>1 DEF UInv, Threads
  <2>3. ~Expire(w)
    BY <2>1 DEF Arrive, Expire
  <2> QED BY <1>1, <2>1, <2>2, <2>3
<1>3. ASSUME NEW w \in Workers, UReturn(w) PROVE Threads' /\ CallsWait' /\ LinesAreVerdicts'
  <2>1. Return(w) /\ UNCHANGED <<mode, conn, line>> /\ data' = [data EXCEPT ![w] = NoData]
    BY <1>3 DEF UReturn
  <2>2. DOMAIN data' = Workers /\ \A v \in Workers \ {w} : data'[v] = data[v]
    BY <2>1 DEF UInv, Threads
  <2>3. ~Expire(w)
    BY <2>1 DEF Return, Expire
  <2> QED BY <1>1, <2>1, <2>2, <2>3
<1>4. ASSUME NEW w \in Workers, Expire(w) \/ ForwardStep(w), UNCHANGED userVars
      PROVE  Threads' /\ CallsWait' /\ LinesAreVerdicts'
  BY <1>1, <1>4 DEF UInv, Threads, userVars
<1>5. ASSUME NEW w \in Workers, LocalCall(w) PROVE Threads' /\ CallsWait' /\ LinesAreVerdicts'
  <2>1. UserReply(w) /\ UNCHANGED userVars
    BY <1>5, LocalVerdictCodes DEF LocalCall, UserReply, AtUserService, UserCodes
  <2>2. conn[w] = "none"
    BY <1>5 DEF LocalCall, UInv, CallsWait
  <2> QED BY <1>1, <2>1, <2>2 DEF UInv, Threads, userVars, UserReply, Expire
<1>6. ASSUME NEW w \in Workers, AtUserService(w), CallFails(w), UNCHANGED <<mode, data>>
      PROVE  Threads' /\ CallsWait' /\ LinesAreVerdicts'
  BY <1>6, CallEndsKeeps DEF CallFails, UserCodes
<1>7. ASSUME NEW w \in Workers, StartCall(w) PROVE Threads' /\ CallsWait' /\ LinesAreVerdicts'
  BY <1>6, <1>7, ConnectionKeeps DEF StartCall
<1>8. ASSUME NEW w \in Workers, Connect(w) PROVE Threads' /\ CallsWait' /\ LinesAreVerdicts'
  <2>1. AtUserService(w) /\ mode = "remote"
    BY <1>8 DEF Connect, UInv, CallsWait
  <2> QED BY <1>6, <1>8, <2>1, ConnectionKeeps DEF Connect
<1>9. ASSUME NEW w \in Workers, ReadFails(w) PROVE Threads' /\ CallsWait' /\ LinesAreVerdicts'
  <2>1. AtUserService(w)
    BY <1>9 DEF ReadFails, UInv, CallsWait
  <2> QED BY <1>6, <1>9, <2>1 DEF ReadFails
<1>10. ASSUME NEW w \in Workers, ReadAnswer(w) PROVE Threads' /\ CallsWait' /\ LinesAreVerdicts'
  <2>1. AtUserService(w) /\ line[w] \in UserCodes
    BY <1>10, VerdictCodes, ZenonT(60)
       DEF ReadAnswer, UInv, CallsWait, LinesAreVerdicts, ServerVerdict, UserCodes
  <2> QED BY <1>10, <2>1, CallEndsKeeps DEF ReadAnswer
<1>11. ASSUME NEW w \in Workers, Accept(w) PROVE Threads' /\ CallsWait' /\ LinesAreVerdicts'
  <2>1. AtUserService(w) /\ mode = "remote"
    BY <1>11 DEF Accept, UInv, CallsWait
  <2> QED BY <1>11, <2>1, ConnectionKeeps DEF Accept
<1>12. ASSUME NEW w \in Workers, HandleSession(w)
       PROVE  Threads' /\ CallsWait' /\ LinesAreVerdicts'
  <2>1. AtUserService(w) /\ mode = "remote"
    BY <1>12 DEF HandleSession, UInv, CallsWait
  <2>2. /\ conn' = [conn EXCEPT ![w] = "answered"]
        /\ \E c \in {"timeout", "failed", ServerVerdict(w)} : line' = [line EXCEPT ![w] = c]
        /\ UNCHANGED <<vars, mode, data>>
    BY <1>12 DEF HandleSession, ServerVerdict
  <2>3. UNCHANGED <<pc, request>>
    BY <2>2 DEF vars
  <2> QED
    BY <2>1, <2>2, <2>3
       DEF UInv, Threads, CallsWait, LinesAreVerdicts, AtUserService, ServerVerdict
<1>13. CASE Crash
  <2>1. UNCHANGED <<pc, request, mode, data, line>>
    BY <1>13 DEF Crash, vars
  <2>2. \A v \in Workers : conn'[v] = conn[v] \/ (conn'[v] = "broken" /\ conn[v] # "none")
    BY <1>13 DEF Crash
  <2>3. conn' \in [Workers -> {"none", "connect", "queued", "accepted", "answered", "broken"}]
    BY <1>13 DEF Crash, UInv, Threads
  <2> QED
    BY <2>1, <2>2, <2>3
       DEF UInv, Threads, CallsWait, LinesAreVerdicts, AtUserService, ServerVerdict
<1>14. CASE Restart \/ (Finished /\ UNCHANGED userVars) \/ UNCHANGED allVars
  BY <1>14 DEF Restart, Finished, allVars, vars, userVars, UInv, Threads, CallsWait,
               LinesAreVerdicts, AtUserService, ServerVerdict
<1> QED
  BY <1>2, <1>3, <1>4, <1>5, <1>7, <1>8, <1>9, <1>10, <1>11, <1>12, <1>13, <1>14
     DEF UNext, UStep

LEMMA UInvInit == UInit => UInv
<1> SUFFICES ASSUME UInit PROVE UInv
  OBVIOUS
<1>1. TypeOK
  <2>1. Reply("none", 0, NoRecord) \in Replies
    BY Values DEF Codes
  <2> QED BY <2>1, LocalRpcAssumption DEF UInit, Init, TypeOK, Replies, Empty
<1>2. Threads /\ CallsWait /\ LinesAreVerdicts
  BY DEF UInit, Threads, CallsWait, LinesAreVerdicts
<1> QED BY <1>1, <1>2 DEF UInv

\* In all three deployments, and through crashes of the server process, the user
\* service does to LocalRpc's state only what LocalRpc lets it do, so what is
\* proved of LocalRpc holds with the user service in detail.
THEOREM UserServiceRefines == USpec => ImplementsLocalRpc
<1>1. UInit => Init
  BY DEF UInit
<1>2. USpec => []UInv
  BY UInvInit, UInvStep, PTL DEF USpec
<1> QED BY <1>1, <1>2, StepRefines, PTL DEF USpec, Spec, ImplementsLocalRpc

-----------------------------------------------------------------------------

\* A thread that a step leaves alone keeps its verdict.
LEMMA VerdictStays ==
    ASSUME NEW v \in Workers, VerdictIsReal(v), pc'[v] = pc[v], request'[v] = request[v],
           reply'[v] = reply[v], data'[v] = data[v], mode' = mode
    PROVE  VerdictIsReal(v)'
  BY DEF VerdictIsReal, Sent

\* The requests for user data, as the client's dispatch tells them apart.
LEMMA UserRequests ==
    ASSUME TypeOK, NEW w \in Workers, request[w].op \in {"login", "profile"}
    PROVE  request[w].kind = "user" /\ request[w].body = "good"
<1>1. request[w] \in Requests \/ request[w] = NoRequest
  BY DEF TypeOK
<1>2. request[w] # NoRequest
  BY DEF NoRequest
<1>3. \A r \in Requests : r.op \in {"login", "profile"} => r.kind = "user" /\ r.body = "good"
  BY DEF Requests
<1> QED BY <1>1, <1>2, <1>3

\* A verdict that was found with or without a failure of the mysql client.
LEMMA LookupVerdicts ==
    ASSUME NEW op \in {"login", "profile"}, NEW d, NEW c \in LocalVerdicts(op, d),
           mode = "mysql" => d.creds # "special"
    PROVE  \/ c = Verdict(op, d, InMemory(op, d))
           \/ mode = "mysql" /\ c \in {"unauthorized", "not found"}
<1>1. PICK found \in Lookups(op, d) : c = Verdict(op, d, found)
  BY DEF LocalVerdicts
<1> QED BY <1>1 DEF Lookups, Verdict

\* The answer to the request of w is a verdict that is real, or a failure.
LEMMA AnswerIsReal ==
    ASSUME NEW w \in Workers, NEW c, TypeOK, Say(w, c), UNCHANGED <<request, mode>>,
           data'[w] = data[w],
           request[w].op \in {"login", "profile"} /\ Sent(w) =>
             \/ c \in {Verdict(request[w].op, data[w], InMemory(request[w].op, data[w])),
                        "timeout", "failed"}
             \/ mode = "mysql" /\ c \in {"unauthorized", "not found"}
    PROVE  VerdictIsReal(w)'
<1>1. reply'[w].code = c
  BY SayDoes DEF Reply
<1>2. Sent(w)' = Sent(w)
  BY DEF Sent
<1> QED BY <1>1, <1>2 DEF VerdictIsReal

LEMMA VerdictStep == UInv /\ VerdictsAreReal /\ [UNext]_allVars => VerdictsAreReal'
<1> SUFFICES ASSUME UInv, VerdictsAreReal, [UNext]_allVars PROVE VerdictsAreReal'
  OBVIOUS
<1> USE DEF UInv
\* The thread w takes a step of LocalRpc.
<1>1. ASSUME NEW w \in Workers, VerdictIsReal(w)',
             Arrive(w) \/ Expire(w) \/ ForwardStep(w) \/ UserReply(w) \/ Return(w),
             mode' = mode, \A v \in Workers \ {w} : data'[v] = data[v]
      PROVE  VerdictsAreReal'
  BY <1>1, OthersStay, VerdictStays DEF VerdictsAreReal
<1>2. ASSUME NEW w \in Workers, UArrive(w) \/ UReturn(w) PROVE VerdictsAreReal'
  <2>1. /\ Arrive(w) \/ Return(w)
        /\ mode' = mode /\ \E d : data' = [data EXCEPT ![w] = d]
    BY <1>2 DEF UArrive, UReturn
  <2>2. pc'[w] # "done"
    BY <2>1 DEF Arrive, Return, Goto, TypeOK
  <2> QED BY <1>1, <2>1, <2>2 DEF VerdictIsReal, Threads
<1>3. ASSUME NEW w \in Workers, Expire(w), UNCHANGED userVars PROVE VerdictsAreReal'
  <2>1. pc'[w] # "done"
    BY <1>3 DEF Expire
  <2> QED BY <1>1, <1>3, <2>1 DEF VerdictIsReal, userVars
<1>4. ASSUME NEW w \in Workers, ForwardStep(w), UNCHANGED userVars PROVE VerdictsAreReal'
  <2> DEFINE user == request[w].op \in {"login", "profile"}
  <2>1. user => /\ Forward(w) \/ ParseRequest(w) \/ CallService(w)
                /\ Say(w, "timeout") \/ \E x \in {"parse", "call", "service"} : Goto(w, x)
    <3>1. user => request[w].kind = "user" /\ request[w].body = "good"
      BY UserRequests
    <3> QED BY <1>4, <3>1 DEF ForwardStep, Forward, ParseRequest, CallService, EnterService,
                              Create, Get, SubmitTaskEvent, Kinds
  <2>2. request'[w] = request[w]
    BY <1>4 DEF ForwardStep, Forward, ParseRequest, CallService, EnterService, Create, Get,
                SubmitTaskEvent, RequestsUnchanged
  <2>3. VerdictIsReal(w)'
    <3>1. CASE user /\ Say(w, "timeout")
      <4>1. reply'[w].code = "timeout"
        BY <3>1, SayDoes DEF Reply
      <4> QED BY <4>1 DEF VerdictIsReal
    <3>2. CASE \E x \in {"parse", "call", "service"} : Goto(w, x)
      <4>1. pc'[w] # "done"
        BY <3>2 DEF Goto, TypeOK
      <4> QED BY <4>1 DEF VerdictIsReal
    <3>3. CASE ~user
      BY <2>2, <3>3 DEF VerdictIsReal
    <3> QED BY <2>1, <3>1, <3>2, <3>3
  <2> QED BY <1>1, <1>4, <2>3 DEF userVars
<1>5. ASSUME NEW w \in Workers, LocalCall(w) PROVE VerdictsAreReal'
  <2>1. UserReply(w) /\ UNCHANGED userVars /\ UNCHANGED request
    BY <1>5, LocalVerdictCodes DEF LocalCall, UserReply, AtUserService, UserCodes, RequestsUnchanged
  <2>2. VerdictIsReal(w)'
    <3>1. CASE Say(w, "timeout")
      BY <2>1, <3>1, AnswerIsReal DEF userVars
    <3>2. ASSUME NEW c \in LocalVerdicts(request[w].op, data[w]), Say(w, c)
          PROVE  VerdictIsReal(w)'
      <4>1. request[w].op \in {"login", "profile"} /\ Sent(w) =>
              \/ c = Verdict(request[w].op, data[w], InMemory(request[w].op, data[w]))
              \/ mode = "mysql" /\ c \in {"unauthorized", "not found"}
        BY LookupVerdicts DEF Sent
      <4>2. Say(w, c) /\ data'[w] = data[w] /\ UNCHANGED <<request, mode>>
        BY <2>1, <3>2 DEF userVars
      <4> QED BY <4>1, <4>2, AnswerIsReal
    <3> QED BY <1>5, <3>1, <3>2 DEF LocalCall
  <2> QED BY <1>1, <2>1, <2>2 DEF userVars
\* The call of w ends with an answer it may end with.
<1>6. ASSUME NEW w \in Workers, NEW c \in UserCodes, AtUserService(w), CallEnds(w, c),
             UNCHANGED <<mode, data>>,
             Sent(w) => c \in {"timeout", "failed",
                               Verdict(request[w].op, data[w], InMemory(request[w].op, data[w]))}
      PROVE  VerdictsAreReal'
  <2>1. UserReply(w)
    BY <1>6, CallEndsDoes
  <2>2. VerdictIsReal(w)'
    BY <1>6, AnswerIsReal DEF CallEnds, RequestsUnchanged
  <2> QED BY <1>1, <1>6, <2>1, <2>2
<1>7. ASSUME NEW w \in Workers, AtUserService(w), CallFails(w), UNCHANGED <<mode, data>>
      PROVE  VerdictsAreReal'
  BY <1>6, <1>7 DEF CallFails, UserCodes
\* Steps that leave LocalRpc alone.
<1>8. ASSUME UNCHANGED <<vars, mode, data>> PROVE VerdictsAreReal'
  BY <1>8, VerdictStays DEF vars, VerdictsAreReal
<1>9. ASSUME NEW w \in Workers, StartCall(w) PROVE VerdictsAreReal'
  BY <1>7, <1>8, <1>9 DEF StartCall
<1>10. ASSUME NEW w \in Workers, Connect(w) PROVE VerdictsAreReal'
  <2>1. AtUserService(w)
    BY <1>10 DEF Connect, CallsWait
  <2> QED BY <1>7, <1>8, <1>10, <2>1 DEF Connect
<1>11. ASSUME NEW w \in Workers, ReadFails(w) PROVE VerdictsAreReal'
  <2>1. AtUserService(w)
    BY <1>11 DEF ReadFails, CallsWait
  <2> QED BY <1>7, <1>11, <2>1 DEF ReadFails
<1>12. ASSUME NEW w \in Workers, ReadAnswer(w) PROVE VerdictsAreReal'
  <2>1. AtUserService(w) /\ mode = "remote" /\ line[w] \in {"timeout", "failed", ServerVerdict(w)}
    BY <1>12 DEF ReadAnswer, CallsWait, LinesAreVerdicts
  <2>2. line[w] \in UserCodes
    BY <2>1, VerdictCodes DEF ServerVerdict, UserCodes
  <2>3. Sent(w) => ServerVerdict(w) =
                     Verdict(request[w].op, data[w], InMemory(request[w].op, data[w]))
    BY <2>1 DEF Sent, ServerVerdict
  <2> QED BY <1>6, <1>12, <2>1, <2>2, <2>3 DEF ReadAnswer
<1>13. ASSUME NEW w \in Workers, Accept(w) \/ HandleSession(w) PROVE VerdictsAreReal'
  BY <1>8, <1>13 DEF Accept, HandleSession
<1>14. CASE Crash \/ Restart
  BY <1>8, <1>14 DEF Crash, Restart
<1>15. CASE (Finished /\ UNCHANGED userVars) \/ UNCHANGED allVars
  BY <1>8, <1>15 DEF Finished, allVars, userVars
<1> QED
  BY <1>2, <1>3, <1>4, <1>5, <1>9, <1>10, <1>11, <1>12, <1>13, <1>14, <1>15 DEF UNext, UStep

\* No thread is granted or refused what another asked for, and no failure on the
\* way to the user service passes for its verdict, for any number of threads and
\* of crashes of the server process.  Nothing is said of an id that is cut and of a
\* name that quoting does not keep, and a mysql client that fails is the exception
\* that VerdictIsReal names.
THEOREM VerdictsReal == USpec => []VerdictsAreReal
<1>1. UInit => VerdictsAreReal
  BY DEF UInit, Init, VerdictsAreReal, VerdictIsReal
<1>2. USpec => []UInv
  BY UInvInit, UInvStep, PTL DEF USpec
<1> QED BY <1>1, <1>2, VerdictStep, PTL DEF USpec
=============================================================================
