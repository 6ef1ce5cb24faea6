---------------------------- MODULE ConfigLoader ----------------------------
(***************************************************************************)
(* ConfigLoader::LoadFromFile: what configuration the gateway runs with,   *)
(* given the file it was started with, and which files it refuses to start *)
(* with.                                                                   *)
(*                                                                         *)
(* A YAML map is a function from the keys that are present; a list is a    *)
(* sequence, or a set where its order does not count (paths, roles).  Bad  *)
(* is what throws when it is read: of another kind than expected, or out   *)
(* of the range of its type; a section that is no map throws alike and is  *)
(* left out.  Hosts, ports, secrets, texts, the section log and the keys   *)
(* request_timeout_ms and expose_debug_headers decide nothing here and are *)
(* left out too.  Paths and role names are sequences, sample_ratio is in   *)
(* percent.                                                                *)
(***************************************************************************)
EXTENDS Integers, Sequences

CONSTANTS
    Bad,        \* what as<T>() throws on
    LoginPath   \* "/api/user/login"

NoNode == <<>>

\* root[key]: the node below key, an empty one where there is none.
Child(node, key) == IF key \in DOMAIN node THEN node[key] ELSE NoNode

GetOrDefault(node, key, default) == IF key \in DOMAIN node THEN node[key] ELSE default

\* A section: every key it has a default for.
Section(node, defaults) == [k \in DOMAIN defaults |-> GetOrDefault(node, k, defaults[k])]

\* as<T>() throws for none of the keys of a section.
Converts(section) == \A k \in DOMAIN section : section[k] # Bad

\* Where a key of the node is present, its value is of the key's type, or one
\* that as<T>() throws on.
TypedBy(node, types) ==
    \A k \in DOMAIN types : k \in DOMAIN node => node[k] \in {Bad} \cup types[k]

TypedEntries(list, types) ==
    list = Bad \/ (Len(list) \in Nat /\ \A i \in 1 .. Len(list) : TypedBy(list[i], types))

ServerConfig ==
    [keep_alive |-> TRUE, read_timeout_ms |-> 3000, write_timeout_ms |-> 3000,
     body_limit_bytes |-> 1048576]
RuntimeConfig == [io_threads |-> 2, worker_threads |-> 4]
GatewayConfig ==
    [enable_auth |-> TRUE, enable_rate_limit |-> TRUE, enable_tracing |-> TRUE]
UserServiceRpcConfig == [enabled |-> FALSE, timeout_ms |-> 1000]
MysqlConfig == [enabled |-> FALSE]
RedisRateLimitConfig == [enabled |-> FALSE, fail_open |-> TRUE]
RetryConfig ==
    [enabled |-> TRUE, max_attempts |-> 2, backoff_ms |-> 20, retry_non_idempotent |-> FALSE]
CircuitBreakerConfig ==
    [enabled |-> TRUE, failure_threshold |-> 5, open_seconds |-> 10,
     half_open_success_threshold |-> 2]
FallbackConfig == [enabled |-> TRUE]
GovernanceConfig == [enabled |-> TRUE]

\* Sections that are on or off as the section gateway says, if they do not.
AuthConfig(enabled) ==
    [enabled |-> enabled, rbac_enabled |-> TRUE, token_ttl_seconds |-> 7200,
     public_paths |-> {LoginPath}]
RateLimitConfig(enabled) ==
    [enabled |-> enabled, window_seconds |-> 60, default_max_requests |-> 120]
TracingConfig(enabled) ==
    [enabled |-> enabled, sample_ratio |-> 100, max_finished_spans |-> 1024,
     accept_traceparent |-> TRUE, otlp_exporter_enabled |-> FALSE, otlp_timeout_ms |-> 1000]

\* The entries of the lists.  The limit of a rule is by default the section's.
RbacRuleConfig == [path |-> <<>>, roles |-> Bad]
RateLimitRuleConfig(limit) == [path |-> <<>>, max_requests |-> limit]
RouteConfig ==
    [name |-> "", match_type |-> "prefix", path |-> <<>>, upstream |-> "", strip_prefix |-> TRUE,
     timeout_ms |-> 1000]

\* A list; other kinds of node throw.
Entries(list, defaults) ==
    IF list = Bad THEN Bad ELSE [i \in 1 .. Len(list) |-> Section(list[i], defaults)]

-----------------------------------------------------------------------------
(* The checks of each section; a section that is absent passes them. *)

ServerAccepted(c) ==
    /\ Converts(c)
    /\ c.read_timeout_ms > 0 /\ c.write_timeout_ms > 0 /\ c.body_limit_bytes > 0

UserServiceRpcAccepted(c) == Converts(c) /\ c.timeout_ms > 0

RetryAccepted(c) == Converts(c) /\ c.max_attempts > 0 /\ c.backoff_ms >= 0

CircuitBreakerAccepted(c) ==
    /\ Converts(c)
    /\ c.failure_threshold > 0 /\ c.open_seconds > 0 /\ c.half_open_success_threshold > 0

TracingAccepted(c) ==
    /\ Converts(c)
    /\ c.sample_ratio >= 0 /\ c.sample_ratio <= 100
    /\ c.max_finished_spans > 0 /\ c.otlp_timeout_ms > 0

AuthAccepted(c) == Converts(c) /\ <<>> \notin c.public_paths

RbacRuleAccepted(r) == Converts(r) /\ r.path # <<>> /\ r.roles \ {<<>>} # {}

RateLimitRuleAccepted(r) == Converts(r) /\ r.path # <<>> /\ r.max_requests > 0

RouteAccepted(r) ==
    Converts(r) /\ r.name # "" /\ r.path # <<>> /\ r.upstream # "" /\ r.timeout_ms > 0

EveryEntry(list, EntryAccepted(_)) == list # Bad /\ \A i \in DOMAIN list : EntryAccepted(list[i])

-----------------------------------------------------------------------------
(* LoadFromFile *)

\* The sections as they are read, over their defaults.
AppConfig(file) ==
    LET governance == Child(file, "governance")
        gateway == Section(Child(file, "gateway"), GatewayConfig)
        rate_limit == Section(Child(file, "rate_limit"), RateLimitConfig(gateway.enable_rate_limit))
    IN  [server |-> Section(Child(file, "server"), ServerConfig),
         runtime |-> Section(Child(file, "runtime"), RuntimeConfig),
         gateway |-> gateway,
         user_service_rpc |-> Section(Child(file, "user_service_rpc"), UserServiceRpcConfig),
         mysql |-> Section(Child(file, "mysql"), MysqlConfig),
         auth |-> Section(Child(file, "auth"), AuthConfig(gateway.enable_auth)),
         rbac_rules |-> Entries(Child(file, "rbac"), RbacRuleConfig),
         rate_limit |-> rate_limit,
         redis |-> Section(Child(Child(file, "rate_limit"), "redis"), RedisRateLimitConfig),
         rate_limit_rules |-> Entries(Child(Child(file, "rate_limit"), "rules"),
                                      RateLimitRuleConfig(rate_limit.default_max_requests)),
         governance |-> Section(governance, GovernanceConfig),
         retry |-> Section(Child(governance, "retry"), RetryConfig),
         circuit_breaker |-> Section(Child(governance, "circuit_breaker"), CircuitBreakerConfig),
         fallback |-> Section(Child(governance, "fallback"), FallbackConfig),
         tracing |-> Section(Child(file, "tracing"), TracingConfig(gateway.enable_tracing)),
         routes |-> Entries(Child(file, "routes"), RouteConfig)]

\* No check throws.
Accepted(c) ==
    /\ ServerAccepted(c.server)
    /\ Converts(c.runtime) /\ Converts(c.gateway) /\ Converts(c.mysql)
    /\ UserServiceRpcAccepted(c.user_service_rpc)
    /\ AuthAccepted(c.auth)
    /\ EveryEntry(c.rbac_rules, RbacRuleAccepted)
    /\ Converts(c.rate_limit) /\ Converts(c.redis)
    /\ EveryEntry(c.rate_limit_rules, RateLimitRuleAccepted)
    /\ Converts(c.governance) /\ RetryAccepted(c.retry)
    /\ CircuitBreakerAccepted(c.circuit_breaker) /\ Converts(c.fallback)
    /\ TracingAccepted(c.tracing)
    /\ EveryEntry(c.routes, RouteAccepted)

\* Empty role names are left out of a rule.
Named(rules) ==
    [i \in DOMAIN rules |-> [path |-> rules[i].path, roles |-> rules[i].roles \ {<<>>}]]

\* The configuration main gets, or none: it throws and the gateway does not start.
LoadFromFile(file) ==
    LET c == AppConfig(file)
    IN  IF Accepted(c) THEN <<[c EXCEPT !.rbac_rules = Named(c.rbac_rules)]>> ELSE <<>>

\* What GovernanceUpstreamClient is given of it, the thresholds of the breaker
\* apart.
GovernanceOf(c) ==
    [enabled |-> c.governance.enabled, breaker |-> c.circuit_breaker.enabled,
     retry |-> c.retry.enabled, maxAttempts |-> c.retry.max_attempts,
     backoff |-> c.retry.backoff_ms > 0, retryNonIdempotent |-> c.retry.retry_non_idempotent,
     fallback |-> c.fallback.enabled]
=============================================================================
