------------------------------ MODULE MCAccess ------------------------------
(* Small instances of Access for TLC: paths over "/", "a" and "b". *)
EXTENDS Access, TLC

A == <<"/", "a">>
AB == <<"/", "a", "/", "b">>

Admin == <<97>>
User == <<117>>
MCRoles == {Admin, User}

\* Rules that are equal, nested, or prefixes of each other inside a segment,
\* with and without a final slash.
RulePaths == {A, A \o <<"/">>, A \o <<"b">>, AB}

\* The n-th rule of each table; what is not said is left to the defaults.
RouteFor(p, n) ==
    [name |-> "route", path |-> p, upstream |-> "TaskService"]
      @@ (IF n = 3 THEN [match_type |-> "exact"] ELSE <<>>)
      @@ (IF n = 1 THEN [strip_prefix |-> FALSE] ELSE <<>>)
RbacFor(p, n) == [path |-> p, roles |-> IF n = 1 THEN {Admin, <<>>} ELSE {User}]
LimitFor(p, n) == [path |-> p, max_requests |-> n]

\* All tables carry the same paths; limits are off where auth is; the login is
\* the default public path, below "/a".
FileFor(ps, auth, more) ==
    [gateway |-> [enable_auth |-> auth, enable_rate_limit |-> auth],
     auth |-> more @@ [token_ttl_seconds |-> 1],
     rbac |-> [n \in 1 .. Len(ps) |-> RbacFor(ps[n], n)],
     rate_limit |-> [default_max_requests |-> 0,
                     rules |-> [n \in 1 .. Len(ps) |-> LimitFor(ps[n], n)]],
     routes |-> <<[name |-> "users", path |-> A, upstream |-> "UserService"]>>
                  \o [n \in 1 .. Len(ps) |-> RouteFor(ps[n], n)]]

Plain == <<98>>

\* Names that hold what a token's text is made of: a quote and a role, an escape
\* at the end, control characters with and without a letter, and lengths that
\* base64url pads or not.
Names ==
    {<<>>, <<Quote, Comma, Quote, Role, Quote, Colon, Quote>> \o Admin, <<98, Backslash>>,
     <<Newline, 98, Quote>>, <<Role>>, <<Tab, Quote, CarriageReturn, 8>>, <<CarriageReturn>>}

With(file, n) == [file |-> file, names |-> [u \in Users |-> n]]

MCStarts ==
    {With(FileFor(ps, TRUE, <<>>), Plain) :
        ps \in {<<>>} \cup {<<p, q>> : p, q \in RulePaths}}
      \cup {With(FileFor(<<A, AB, A>>, TRUE, <<>>), Plain),
            With(FileFor(<<AB>>, FALSE, <<>>), Plain),
            With(FileFor(<<AB>>, TRUE, [rbac_enabled |-> FALSE]), Plain),
            With(FileFor(<<AB>>, FALSE, [enabled |-> TRUE, token_ttl_seconds |-> -1]), Plain)}
      \cup {With(FileFor(<<A>>, TRUE, <<>>), n) : n \in Names}
      \* Files that are refused.
      \cup {With(FileFor(<<<<>>>>, TRUE, <<>>), Plain),
            With(FileFor(<<A>>, TRUE, [token_ttl_seconds |-> Bad]), Plain)}

\* At, below, beside and above the rules, with and without empty segments; the
\* handlers' paths with another method.
MCRequests ==
    [method : {"GET"},
     path : {<<"/">>, A, AB, A \o <<"/">>, A \o <<"b">>, A \o <<"/", "/">>, AB \o <<"/", "a">>,
             <<"/", "/", "a">>}]
      \cup [method : {"POST"}, path : {AB, AB \o <<"/", "a">>, <<"/">>}]
MCPages == {<<"/">>}
MCGuardedPages == {AB \o <<"/", "a">>}
MCLoginPath == <<"/", "b">>
=============================================================================
