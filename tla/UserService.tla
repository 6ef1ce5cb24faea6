---------------------------- MODULE UserService -----------------------------
(***************************************************************************)
(* The user service behind LocalRpcUpstreamClient, in its three            *)
(* deployments: UserServiceImpl over InMemoryUserRepository, over          *)
(* MysqlCliUserRepository, and RemoteUserServiceClient with the process    *)
(* of user_service_server_main.cc at the other end.                        *)
(*                                                                         *)
(* A remote call opens a connection of its own, sends one line and blocks  *)
(* until a line comes back or the connection breaks; it looks at the       *)
(* deadline before it starts and, for the error code, after it failed.     *)
(* The server process accepts in one thread, serves each connection in a   *)
(* thread of its own, and may be down, crash or be started again.          *)
(***************************************************************************)
EXTENDS LocalRpc

CONSTANTS
    Modes,          \* deployments: subset of {"memory", "mysql", "remote"}
    UserIds,        \* the user ids that clients ask for
    AdminId,        \* the one user of InMemoryUserRepository
    IdSpan,         \* 2^32: what an int tells apart
    MaxCrashes      \* bound: crashes of the server process

ASSUME UserAssumption ==
    /\ UserIds \subseteq Nat /\ MaxCrashes \in Nat
    /\ IdSpan \in Nat /\ AdminId \in 1 .. IdSpan - 1

VARIABLES
    mode,       \* what main.cc wired at start
    data,       \* what each thread's login or profile request carries
    conn,       \* the connection of its remote call
    line,       \* the answer that waits in the connection: an RpcCode
    server,     \* the user service process
    crashes     \* how often it has crashed

userVars == <<mode, data, conn, line, server, crashes>>
allVars == <<vars, userVars>>

\* "binary": a name that is not UTF-8, which json::dump refuses.  "special": one
\* with a character that means something to the shell or to mysql in quotes.
Credentials == {"right", "wrong", "empty", "binary", "special"}
Data == [creds : Credentials, id : Nat]
NoData == [creds |-> "empty", id |-> 0]

\* What a request for user data that can be read carries.
DataFor(r) ==
    CASE r.op = "login" -> [creds : Credentials, id : {0}]
      [] r.op = "profile" -> [creds : {"empty"}, id : UserIds]
      [] OTHER -> {NoData}

UInit ==
    /\ Init
    /\ mode \in Modes
    /\ data = [w \in Workers |-> NoData]
    /\ conn = [w \in Workers |-> "none"]
    /\ line = [w \in Workers |-> "none"]
    /\ server \in IF mode = "remote" THEN {"up", "down"} ELSE {"none"}
    /\ crashes = 0

-----------------------------------------------------------------------------
(* UserServiceImpl: Login and GetProfile, after the deadline *)

\* What the service says of a request whose lookup finds the user when found.
Verdict(op, d, found) ==
    IF op = "login"
      THEN IF d.creds = "empty" THEN "bad request"
           ELSE IF found /\ d.creds = "right" THEN "ok"
           ELSE "unauthorized"
      ELSE IF found THEN "ok" ELSE "not found"

\* InMemoryUserRepository has the admin.
InMemory(op, d) == IF op = "login" THEN d.creds \in {"right", "wrong"} ELSE d.id = AdminId

\* MysqlCliUserRepository answers nullopt for a row that is not there and for a
\* mysql client that fails.
Lookups(op, d) ==
    IF mode = "mysql" THEN {InMemory(op, d), FALSE} ELSE {InMemory(op, d)}

\* FindByUsername puts the name into a command line.  ShellQuote leaves "$" and the
\* backtick as they are, SqlQuote the backslash, so a special name asks for what
\* the shell and mysql make of it: a row of another name, whose password may be the
\* request's, no row, or text that is not a row, on which stoll throws.
LocalVerdicts(op, d) ==
    IF mode = "mysql" /\ d.creds = "special"
      THEN {"ok", "unauthorized", "bad request", "internal error"}
      ELSE {Verdict(op, d, found) : found \in Lookups(op, d)}

AtUserService(w) == pc[w] = "service" /\ request[w].kind = "user"

LocalCall(w) ==
    /\ AtUserService(w) /\ mode # "remote"
    /\ IF expired[w] THEN Say(w, "timeout")
       ELSE \E c \in LocalVerdicts(request[w].op, data[w]) : Say(w, c)
    /\ RequestsUnchanged /\ StoresUnchanged /\ UNCHANGED userVars

-----------------------------------------------------------------------------
(* RemoteUserServiceClient *)

\* Mutation: the connection of a call that is over is left for the next one.
CallEndsOpen(w, c) ==
    Say(w, c) /\ UNCHANGED <<conn, line>> /\ RequestsUnchanged /\ StoresUnchanged

\* The call is over: its answer has the code c, and its socket is closed.
CallEnds(w, c) ==
    /\ Say(w, c)
    /\ conn' = [conn EXCEPT ![w] = "none"]
    /\ line' = [line EXCEPT ![w] = "none"]
    /\ RequestsUnchanged /\ StoresUnchanged

\* An exception in Login or GetProfile: the deadline chooses the code.
CallFails(w) == CallEnds(w, IF expired[w] THEN "timeout" ELSE "failed")

\* The payload is built, then Call looks at the deadline.
StartCall(w) ==
    /\ AtUserService(w) /\ mode = "remote" /\ conn[w] = "none"
    /\ IF data[w].creds = "binary" \/ expired[w]
         THEN CallFails(w)
         ELSE conn' = [conn EXCEPT ![w] = "connect"] /\ UNCHANGED <<vars, line>>
    /\ UNCHANGED <<mode, data, server, crashes>>

\* connect, and write of the request: the kernel of the server's host takes
\* both before the process accepts.
Connect(w) ==
    /\ conn[w] = "connect"
    /\ IF server = "up"
         THEN conn' = [conn EXCEPT ![w] = "queued"] /\ UNCHANGED <<vars, line>>
         ELSE CallFails(w)
    /\ UNCHANGED <<mode, data, server, crashes>>

\* Mutation: the threads share one connection, and each takes the line that
\* comes first.
ReadAnyAnswer(w) ==
    /\ conn[w] \in {"queued", "accepted", "answered"}
    /\ \E v \in Workers :
         /\ conn[v] = "answered"
         /\ Say(w, line[v])
         /\ line' = [line EXCEPT ![v] = line[w], ![w] = "none"]
         /\ conn' = [conn EXCEPT ![v] = conn[w], ![w] = "none"]
    /\ RequestsUnchanged /\ StoresUnchanged /\ UNCHANGED <<mode, data, server, crashes>>

\* read_until returned a line, which FillMetaFromJson takes as it is.
ReadAnswer(w) ==
    /\ conn[w] = "answered"
    /\ CallEnds(w, line[w])
    /\ UNCHANGED <<mode, data, server, crashes>>

\* Mutation: a broken connection is opened again, until it works.
ReconnectForEver(w) ==
    /\ conn[w] = "broken"
    /\ conn' = [conn EXCEPT ![w] = IF server = "up" THEN "queued" ELSE "broken"]
    /\ UNCHANGED <<vars, mode, data, line, server, crashes>>

\* read_until throws, for the connection is closed or reset.
ReadFails(w) ==
    /\ conn[w] = "broken"
    /\ CallFails(w)
    /\ UNCHANGED <<mode, data, server, crashes>>

-----------------------------------------------------------------------------
(* The server process *)

\* The accept loop starts a thread for the connection.
Accept(w) ==
    /\ server = "up" /\ conn[w] = "queued"
    /\ conn' = [conn EXCEPT ![w] = "accepted"]
    /\ UNCHANGED <<vars, mode, data, line, server, crashes>>

\* HandleRequest reads a user id into an int.
Narrow(d) == [d EXCEPT !.id = @ % IdSpan]

\* HandleSession: a deadline of its own starts with the request, so only a
\* thread that is held up finds it over; the service is UserServiceImpl over
\* InMemoryUserRepository.  An exception (none but of memory can come of a request
\* that the client sends) is answered as an internal error: "failed".
HandleSession(w) ==
    /\ server = "up" /\ conn[w] = "accepted"
    /\ conn' = [conn EXCEPT ![w] = "answered"]
    /\ LET op == request[w].op
           d == Narrow(data[w]) IN
       \E c \in {"timeout", "failed", Verdict(op, d, InMemory(op, d))} :
         line' = [line EXCEPT ![w] = c]
    /\ UNCHANGED <<vars, mode, data, server, crashes>>

\* The process dies (an exception in the accept loop ends it too), and with it
\* its threads and connections; an answer on its way may still arrive.
Crash ==
    /\ server = "up" /\ crashes < MaxCrashes
    /\ server' = "down"
    /\ crashes' = crashes + 1
    /\ \E lost \in SUBSET {w \in Workers : conn[w] = "answered"} :
         conn' = [w \in Workers |->
                    IF conn[w] \in {"queued", "accepted"} \/ w \in lost
                    THEN "broken" ELSE conn[w]]
    /\ UNCHANGED <<vars, mode, data, line>>

Restart ==
    /\ server = "down"
    /\ server' = "up"
    /\ UNCHANGED <<vars, mode, data, conn, line, crashes>>

-----------------------------------------------------------------------------
UArrive(w) ==
    /\ Arrive(w)
    /\ \E d \in DataFor(request'[w]) : data' = [data EXCEPT ![w] = d]
    /\ UNCHANGED <<mode, conn, line, server, crashes>>

UReturn(w) ==
    /\ Return(w)
    /\ data' = [data EXCEPT ![w] = NoData]
    /\ UNCHANGED <<mode, conn, line, server, crashes>>

\* Steps of the thread itself.
UStep(w) ==
    \/ ForwardStep(w) /\ UNCHANGED userVars
    \/ UReturn(w)
    \/ LocalCall(w) \/ StartCall(w) \/ Connect(w) \/ ReadFails(w)

UNext ==
    \/ \E w \in Workers :
         \/ UArrive(w)
         \/ Expire(w) /\ UNCHANGED userVars
         \/ UStep(w) \/ ReadAnswer(w)
         \/ Accept(w) \/ HandleSession(w)
    \/ Crash \/ Restart
    \/ Finished /\ UNCHANGED userVars

USpec == UInit /\ [][UNext]_allVars

\* A thread that can go on does.  The server process, while it runs, accepts and
\* serves, and the network delivers its answer or the end of the connection:
\* the code has no timeout that would do without this.
UFairness ==
    \A w \in Workers :
        /\ WF_allVars(UStep(w) \/ ReadAnswer(w))
        /\ WF_allVars(Accept(w))
        /\ WF_allVars(HandleSession(w))

UFairSpec == USpec /\ UFairness

-----------------------------------------------------------------------------
(* Properties *)

\* A request that reaches the server or the users table as it was sent: its id is
\* not cut, and its name says to the shell and to mysql what it says.
Sent(w) ==
    /\ mode = "remote" => Narrow(data[w]) = data[w]
    /\ mode = "mysql" => data[w].creds # "special"

\* What the code owes a request that arrives as it was sent.
VerdictIsReal(w) ==
    LET d == data[w]
        op == request[w].op
        real == Verdict(op, d, InMemory(op, d)) IN
    pc[w] = "done" /\ op \in {"login", "profile"} /\ Sent(w)
      => \/ reply[w].code \in {real, "timeout", "failed"}
         \/ mode = "mysql" /\ reply[w].code \in {"unauthorized", "not found"}

\* A login or a profile is granted only to the request that earned it, and
\* refused only by the service: a server that is down, a broken connection, a
\* deadline and another thread's answer are never taken for a verdict on the
\* user.  Three exceptions are the code's.  Of two of them nothing is said (Sent):
\* an id of more than 32 bits is cut on the way to the server, and a name that
\* ShellQuote or SqlQuote does not keep may be answered with a row of another
\* name.  The third is allowed: a mysql client that fails looks like a user that
\* is not there.
VerdictsAreReal == \A w \in Workers : VerdictIsReal(w)

\* The strengthenings that make VerdictsAreReal inductive: a connection belongs
\* to a call that waits for the remote service, and the line that waits in it is
\* the server's verdict on that call's request.
ServerVerdict(w) ==
    Verdict(request[w].op, Narrow(data[w]), InMemory(request[w].op, Narrow(data[w])))
CallsWait ==
    \A w \in Workers : conn[w] # "none" => AtUserService(w) /\ mode = "remote"
LinesAreVerdicts ==
    \A w \in Workers : conn[w] = "answered" => line[w] \in {"timeout", "failed", ServerVerdict(w)}

\* Every request is answered, through crashes of the server at any moment of a
\* call, as long as a server that runs also serves.
RequestsAnswered ==
    \A w \in Workers : pc[w] # "idle" ~> pc[w] = "idle"

\* The detailed user service does what LocalRpc lets it do.
ImplementsLocalRpc == Spec
=============================================================================
