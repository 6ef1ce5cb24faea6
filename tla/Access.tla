------------------------------- MODULE Access -------------------------------
(***************************************************************************)
(* Who gets through the gateway, as whom and to what: the configuration    *)
(* main loads, the handlers and the fallback of the Router, the filters of *)
(* GatewayHandler::Handle in their order, the login that issues tokens and *)
(* the requests that present them later.                                   *)
(*                                                                         *)
(* A token is its text.  That nobody but IssueToken can sign one is an     *)
(* assumption on HMAC; a request without a token stands for all that       *)
(* ValidateToken refuses for its form or its signature.  The system clock  *)
(* does not go back.  A user's role lives in a database others may change. *)
(* RateLimit says which requests are over the limit, here any may be.      *)
(***************************************************************************)
EXTENDS PathRules, TokenCodec, FiniteSets

CONSTANTS
    Workers,        \* worker threads
    Users,          \* user ids
    Characters,     \* what paths are made of
    Roles,          \* role names, as texts
    DefaultRole,    \* "user"
    Requests,       \* methods and paths requests ask for
    Starts,         \* configuration files, and the users' names
    Pages,          \* paths main gives to handlers that anyone may GET
    GuardedPages,   \* paths main gives to handlers behind RequireAuth
    Bad,            \* see ConfigLoader
    LoginRoute,     \* "/api/user/login"
    LoginPath,      \* the upstream path of Login
    MaxTime,        \* bound: the clock stops here
    MaxTokens       \* bound: tokens in a behaviour, but for logins under way

ASSUME AccessAssumption ==
    MaxTime \in Nat /\ MaxTokens \in Nat /\ Users \subseteq Nat /\ Pages \cap GuardedPages = {}

Loader == INSTANCE ConfigLoader WITH LoginPath <- LoginRoute

\* A role's name has no newline, carriage return or tab (see Letters).
ASSUME RoleAssumption ==
    \A r \in Roles : r \in Seq(0 .. 255) /\ \A i \in 1 .. Len(r) : r[i] \notin Controls

ASSUME RequestAssumption == \A r \in Requests : r.path \in Seq(Characters)

\* The files are YAML of the expected shape.
ASSUME FileAssumption ==
    \A s \in Starts :
        /\ s.names \in [Users -> Seq(0 .. 255)]
        /\ Loader!TypedBy(Loader!Child(s.file, "auth"), [token_ttl_seconds |-> Int])
        /\ Loader!TypedBy(Loader!Child(s.file, "rate_limit"), [default_max_requests |-> Int])
        /\ Loader!TypedEntries(Loader!Child(s.file, "routes"),
                               [path |-> Seq(Characters), strip_prefix |-> BOOLEAN])
        /\ Loader!TypedEntries(Loader!Child(s.file, "rbac"), [path |-> Seq(Characters)])
        /\ Loader!TypedEntries(Loader!Child(Loader!Child(s.file, "rate_limit"), "rules"),
                               [path |-> Seq(Characters), max_requests |-> Int])

VARIABLES
    config,     \* AppConfig: what the filters read of it
    routes,     \* RouteRuleManager::routes_
    clock,      \* system clock in seconds
    name,       \* name[u] in the user repository
    role,       \* role[u] in the user repository
    tokens,     \* tokens that were issued, and (history) what for
    pc,         \* where each worker is in Handle
    req,        \* its request: method, path and token
    match,      \* its RouteMatchResult: route and upstream path, or <<>>
    identity,   \* AuthResult, or the record Login found: <<>> if none
    limit,      \* the limit that applies, 0 before it was resolved
    reply,      \* the response
    \* History, read by properties only:
    foundAt,    \* when Login looked the user up
    lastHad,    \* lastHad[u][r]: when u last lost role r, -1 if never
    skew        \* the longest time between a lookup and its token

frame == <<pc, req, match, identity, limit, reply, foundAt>>
vars == <<config, routes, clock, name, role, tokens, frame, lastHad, skew>>

NoToken == <<>>
NoRequest == [method |-> "none", path |-> <<>>, token |-> NoToken]

\* main: the file is read and the filters are made; a file that is refused
\* leaves no gateway.
Start(s) ==
    LET loaded == Loader!LoadFromFile(s.file)
        c == loaded[1]
    IN  /\ loaded # <<>>
        /\ config = [auth |-> c.auth, rbac_rules |-> c.rbac_rules, rate_limit |-> c.rate_limit,
                     rate_limit_rules |-> c.rate_limit_rules, routes |-> c.routes]
        /\ name = s.names

Init ==
    /\ \E s \in Starts : Start(s)
    /\ routes \in SortedRoutes(config.routes)
    /\ clock = 0
    /\ role \in [Users -> Roles]
    /\ tokens = {}
    /\ pc = [w \in Workers |-> "idle"]
    /\ req = [w \in Workers |-> NoRequest]
    /\ match = [w \in Workers |-> <<>>]
    /\ identity = [w \in Workers |-> <<>>]
    /\ limit = [w \in Workers |-> 0]
    /\ reply = [w \in Workers |-> "none"]
    /\ foundAt = [w \in Workers |-> 0]
    /\ lastHad = [u \in Users |-> [r \in Roles |-> -1]]
    /\ skew = 0

-----------------------------------------------------------------------------
(* The Router *)

Goto(w, step) == pc' = [pc EXCEPT ![w] = step]

Answer(w, r) == Goto(w, "done") /\ reply' = [reply EXCEPT ![w] = r]

\* A request comes in and Dispatch looks for its handler.
Arrive(w, r, t) ==
    /\ pc[w] = "idle"
    /\ req' = [req EXCEPT ![w] = [method |-> r.method, path |-> r.path, token |-> t]]
    /\ IF r.method = "GET" /\ r.path \in Pages THEN Answer(w, "page")
       ELSE /\ Goto(w, IF r.method = "GET" /\ r.path \in GuardedPages THEN "guard" ELSE "handle")
            /\ UNCHANGED reply
    /\ UNCHANGED <<config, routes, clock, name, role, tokens, match, identity, limit, foundAt,
                   lastHad, skew>>

\* Mutation: the time of a token is not looked at.
ValidateAnyToken(t) == TokenClaims(t, DefaultRole)

\* ValidateToken for a token that was issued: the claims, unless it has expired.
ValidateToken(t) ==
    LET claims == TokenClaims(t, DefaultRole)
    IN  IF claims = <<>> \/ claims[1].exp <= clock THEN <<>> ELSE claims

\* AuthFilter::Check: the caller goes on, or the request is refused.
AuthCheck(w, Allowed) ==
    LET p == req[w].path
        t == IF req[w].token = NoToken THEN <<>> ELSE ValidateToken(req[w].token)
    IN  IF ~config.auth.enabled \/ p \in config.auth.public_paths
          THEN Allowed /\ UNCHANGED identity
        ELSE IF t = <<>>
          THEN Answer(w, "unauthorized") /\ UNCHANGED identity
        ELSE IF config.auth.rbac_enabled /\ ~IsRoleAllowed(config.rbac_rules, p, t[1].role)
          THEN Answer(w, "forbidden") /\ UNCHANGED identity
        ELSE /\ identity' = [identity EXCEPT ![w] = <<[user_id |-> t[1].user_id,
                                 username |-> t[1].username, role |-> t[1].role]>>]
             /\ Allowed

\* RequireAuth around a handler of the admin pages.
RequireAuth(w) ==
    /\ pc[w] = "guard"
    /\ AuthCheck(w, Answer(w, "guarded page"))
    /\ UNCHANGED <<config, routes, clock, name, role, tokens, req, match, limit, foundAt, lastHad,
                   skew>>

-----------------------------------------------------------------------------
(* GatewayHandler::Handle *)

\* The request is matched with a route.
Handle(w) ==
    LET p == req[w].path
        m == Match(routes, p) IN
    /\ pc[w] = "handle"
    /\ IF m = <<>>
         THEN Answer(w, "not found") /\ UNCHANGED match
         ELSE /\ match' = [match EXCEPT ![w] =
                   <<[route |-> m[1],
                      upstream_path |-> BuildUpstreamPath(m[1].path, p, m[1].strip_prefix)]>>]
              /\ Goto(w, "auth")
              /\ UNCHANGED reply
    /\ UNCHANGED <<config, routes, clock, name, role, tokens, req, identity, limit, foundAt,
                   lastHad, skew>>

\* The filter's answer is the response, or the rate limit comes next.
Authenticate(w) ==
    /\ pc[w] = "auth"
    /\ AuthCheck(w, Goto(w, "limit") /\ UNCHANGED reply)
    /\ UNCHANGED <<config, routes, clock, name, role, tokens, req, match, limit, foundAt, lastHad,
                   skew>>

\* RateLimitFilter::Check finds the limit and admits the request or not.
CheckLimit(w) ==
    /\ pc[w] = "limit"
    /\ IF config.rate_limit.enabled
         THEN /\ limit' = [limit EXCEPT ![w] =
                   ResolveLimit(config.rate_limit_rules, config.rate_limit.default_max_requests,
                                req[w].path)]
              /\ \/ Answer(w, "too many requests")
                 \/ Goto(w, "forward") /\ UNCHANGED reply
         ELSE Goto(w, "forward") /\ UNCHANGED <<limit, reply>>
    /\ UNCHANGED <<config, routes, clock, name, role, tokens, req, match, identity, foundAt, lastHad, skew>>

-----------------------------------------------------------------------------
(* LocalRpcUpstreamClient *)

IsLogin(r, m) ==
    r.method = "POST" /\ m.route.upstream = "UserService" /\ m.upstream_path = LoginPath

\* All but the login only reads or is modelled elsewhere.
Forward(w) ==
    /\ pc[w] = "forward"
    /\ IF IsLogin(req[w], match[w][1])
         THEN Goto(w, "login") /\ UNCHANGED reply
         ELSE Answer(w, "forwarded")
    /\ UNCHANGED <<config, routes, clock, name, role, tokens, req, match, identity, limit, foundAt,
                   lastHad, skew>>

\* ForwardUserService parses the body and UserServiceImpl::Login looks at the
\* deadline, at the arguments, then for the user.
Login(w) ==
    /\ pc[w] = "login"
    /\ \/ /\ \E r \in {"timeout", "internal error", "bad request", "no such user"} : Answer(w, r)
          /\ UNCHANGED <<identity, foundAt>>
       \/ /\ Cardinality(tokens) < MaxTokens
          /\ \E u \in Users : identity' = [identity EXCEPT ![w] =
                            <<[user_id |-> u, username |-> name[u], role |-> role[u]]>>]
          /\ foundAt' = [foundAt EXCEPT ![w] = clock]
          /\ Goto(w, "issue")
          /\ UNCHANGED reply
    /\ UNCHANGED <<config, routes, clock, name, role, tokens, req, match, limit, lastHad, skew>>

\* IssueToken, with the record that Login returned.
IssueToken(w) ==
    LET late == clock - foundAt[w]
        ttl == config.auth.token_ttl_seconds
        record == identity[w][1] IN
    /\ pc[w] = "issue"
    /\ tokens' = tokens \cup
         {[text |-> TokenText(record.user_id, record.username, record.role, clock, ttl),
           of |-> record, exp |-> clock + ttl]}
    /\ skew' = IF late > skew THEN late ELSE skew
    /\ Answer(w, "ok")
    /\ UNCHANGED <<config, routes, clock, name, role, req, match, identity, limit, foundAt, lastHad>>

\* Handle returns and its frame is gone.
Return(w) ==
    /\ pc[w] = "done"
    /\ Goto(w, "idle")
    /\ req' = [req EXCEPT ![w] = NoRequest]
    /\ match' = [match EXCEPT ![w] = <<>>]
    /\ identity' = [identity EXCEPT ![w] = <<>>]
    /\ limit' = [limit EXCEPT ![w] = 0]
    /\ reply' = [reply EXCEPT ![w] = "none"]
    /\ foundAt' = [foundAt EXCEPT ![w] = 0]
    /\ UNCHANGED <<config, routes, clock, name, role, tokens, lastHad, skew>>

-----------------------------------------------------------------------------
(* The environment *)

Tick ==
    /\ clock < MaxTime
    /\ clock' = clock + 1
    /\ UNCHANGED <<config, routes, name, role, tokens, frame, lastHad, skew>>

\* The user table is changed behind the gateway.
ChangeRole(u, r) ==
    /\ r # role[u]
    /\ role' = [role EXCEPT ![u] = r]
    /\ lastHad' = [lastHad EXCEPT ![u][role[u]] = clock]
    /\ UNCHANGED <<config, routes, clock, name, tokens, frame, skew>>

Run(w) ==
    \/ RequireAuth(w) \/ Handle(w) \/ Authenticate(w) \/ CheckLimit(w) \/ Forward(w) \/ Login(w)
    \/ IssueToken(w) \/ Return(w)

Next ==
    \/ \E w \in Workers, r \in Requests, t \in {k.text : k \in tokens} \cup {NoToken} : Arrive(w, r, t)
    \/ \E w \in Workers : Run(w)
    \/ Tick
    \/ \E u \in Users, r \in Roles : ChangeRole(u, r)

Spec == Init /\ [][Next]_vars

-----------------------------------------------------------------------------
(* Properties *)

\* A request goes to a most specific route for its path, by whole segments,
\* however the routes were written down and sorted; it is not found only if no
\* route governs its path (RouteRuleManager::Match).
RoutedToMostSpecific ==
    \A w \in Workers : match[w] # <<>> \/ reply[w] = "not found" =>
        LET prefixes == {i \in DOMAIN config.routes : config.routes[i].match_type = "prefix"}
            best == MostSpecific(config.routes, prefixes, req[w].path)
        IN  IF match[w] = <<>>
              THEN best = {}
              ELSE \E i \in best : match[w][1].route = config.routes[i]

\* The upstream path is absolute and, behind the route it was stripped of, the
\* request's: nothing is lost or added but a final slash (BuildUpstreamPath).
UpstreamPathRejoins ==
    \A w \in Workers : match[w] # <<>> =>
        LET m == match[w][1]
            prefix == IF m.route.strip_prefix THEN m.route.path ELSE <<>>
        IN  /\ IsPrefix(<<"/">>, m.upstream_path)
            /\ prefix \o m.upstream_path \in {req[w].path, req[w].path \o <<"/">>}

\* The request has passed AuthFilter and was not yet forwarded, or it was a
\* guarded handler's.
Passed(w) == pc[w] \in {"limit", "forward"} \/ reply[w] = "guarded page"

\* Authentication covers what routing forwards and what RequireAuth guards: a
\* request that has passed the filter asks for a public path, or has a user whose
\* role the most specific rule for its path names (of equal rules the first); one
\* that was forbidden has not.  The filter and the router test prefixes in
\* different ways.
RolesEnforced ==
    \A w \in Workers :
        LET best == MostSpecific(config.rbac_rules, DOMAIN config.rbac_rules, req[w].path)
            Allowed(r) == \/ ~config.auth.rbac_enabled \/ best = {}
                          \/ \E i \in best : /\ \A j \in best : i <= j
                                             /\ r \in config.rbac_rules[i].roles
        IN  /\ Passed(w) /\ config.auth.enabled /\ req[w].path \notin config.auth.public_paths
                 => identity[w] # <<>> /\ Allowed(identity[w][1].role)
            /\ reply[w] = "forbidden" =>
                 \E k \in tokens : k.text = req[w].token /\ ~Allowed(k.of.role)

\* A token says what it was issued for, whatever characters the user's name is
\* made of: who passes with it is its user in its role, and it is refused only
\* when its time is over.  Only a newline, carriage return or tab of the name
\* comes back as the letter n, r or t (JsonEscape, JsonStringValue,
\* Base64UrlEncode, Base64UrlDecode).
TokensKeepClaims ==
    \A w \in Workers, k \in tokens : req[w].token = k.text =>
        /\ Passed(w) /\ identity[w] # <<>> =>
             identity[w][1] = [k.of EXCEPT !.username = Letters(k.of.username)]
        /\ reply[w] = "unauthorized" => k.exp <= clock

\* The limit of a request is that of the most specific rule for its path (of
\* equal rules the last), or the default, and never below 1 (ResolveLimit).
LimitMostSpecific ==
    \A w \in Workers : limit[w] # 0 =>
        LET rules == config.rate_limit_rules
            best == MostSpecific(rules, DOMAIN rules, req[w].path)
        IN  IF best = {}
              THEN limit[w] = IF config.rate_limit.default_max_requests < 1
                                THEN 1 ELSE config.rate_limit.default_max_requests
              ELSE \E i \in best : /\ \A j \in best : j <= i
                                   /\ limit[w] = rules[i].max_requests

\* A role counts for at most the life of a token, and the time its login took,
\* after the user lost it (IssueToken, ValidateToken).
RolesExpire ==
    [][\A w \in Workers : pc[w] \in {"auth", "guard"} /\ identity'[w] # <<>> =>
         LET u == identity'[w][1].user_id
             r == identity'[w][1].role
         IN  \/ role[u] = r
             \/ /\ lastHad[u][r] # -1
                /\ clock < lastHad[u][r] + config.auth.token_ttl_seconds + skew]_vars

\* Requests come in origin-form: their paths begin with a slash.
OriginForm == \A r \in Requests : IsPrefix(<<"/">>, r.path)

\* The properties above strengthened so that they are inductive.

Steps == {"idle", "guard", "handle", "auth", "limit", "forward", "login", "issue", "done"}

Typed ==
    /\ clock \in Nat /\ skew \in Nat
    /\ role \in [Users -> Roles] /\ lastHad \in [Users -> [Roles -> Int]]
    /\ pc \in [Workers -> Steps] /\ foundAt \in [Workers -> Nat]
    /\ DOMAIN req = Workers /\ DOMAIN match = Workers /\ DOMAIN identity = Workers
    /\ DOMAIN limit = Workers /\ DOMAIN reply = Workers

\* What a request has at each step of its way: a route once it was matched, a
\* limit after the check, a reply at the end.
FrameInv ==
    \A w \in Workers :
        /\ pc[w] # "done" => reply[w] = "none"
        /\ pc[w] # "idle" => \E r \in Requests : req[w].path = r.path
        /\ pc[w] \in {"idle", "guard", "handle"} => match[w] = <<>>
        /\ pc[w] \in {"idle", "guard", "handle", "auth"} => identity[w] = <<>>
        /\ pc[w] \in {"idle", "guard", "handle", "auth", "limit"} => limit[w] = 0
        /\ req[w].token \in {k.text : k \in tokens} \cup {NoToken}

\* The user had the role at some time since the given one.
HadSince(u, r, time) == role[u] = r \/ (lastHad[u][r] # -1 /\ time <= lastHad[u][r])

IsUser(record) == record \in [user_id : Users, username : Seq(0 .. 255), role : Roles]

\* The role in a token is one its user had when the token's record was read, which
\* was at most skew before the token was issued.
TokenInv ==
    /\ \A k \in tokens :
         LET ttl == config.auth.token_ttl_seconds
             issued == k.exp - ttl
         IN  /\ IsUser(k.of) /\ k.exp \in Int /\ issued \in 0 .. clock
             /\ HadSince(k.of.user_id, k.of.role, issued - skew)
             /\ k.text = TokenText(k.of.user_id, k.of.username, k.of.role, issued, ttl)
    /\ \A w \in Workers : pc[w] = "issue" =>
         /\ identity[w] # <<>> /\ IsUser(identity[w][1]) /\ foundAt[w] <= clock
         /\ HadSince(identity[w][1].user_id, identity[w][1].role, foundAt[w])

AccessInv == Typed /\ FrameInv /\ TokenInv
=============================================================================
