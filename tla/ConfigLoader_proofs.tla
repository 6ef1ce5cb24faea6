------------------------- MODULE ConfigLoader_proofs -------------------------
(***************************************************************************)
(* What the loader guarantees of every file it accepts: the assumptions    *)
(* the models of the components make about their configuration.            *)
(***************************************************************************)
EXTENDS ConfigLoader, Governance, TLAPS

RetryTypes ==
    [enabled |-> BOOLEAN, max_attempts |-> Int, backoff_ms |-> Int, retry_non_idempotent |-> BOOLEAN]
CircuitBreakerTypes ==
    [enabled |-> BOOLEAN, failure_threshold |-> Int, open_seconds |-> Int,
     half_open_success_threshold |-> Int]
SwitchTypes == [enabled |-> BOOLEAN]
TracingTypes == [max_finished_spans |-> Nat]
RouteTypes == [timeout_ms |-> Int]
RateLimitRuleTypes == [max_requests |-> Int]

\* The file is YAML of the expected shape.
WellTyped(file) ==
    LET governance == Child(file, "governance") IN
    /\ TypedBy(governance, SwitchTypes)
    /\ TypedBy(Child(governance, "retry"), RetryTypes)
    /\ TypedBy(Child(governance, "circuit_breaker"), CircuitBreakerTypes)
    /\ TypedBy(Child(governance, "fallback"), SwitchTypes)
    /\ TypedBy(Child(file, "tracing"), TracingTypes)
    /\ TypedEntries(Child(file, "routes"), RouteTypes)
    /\ TypedBy(Child(file, "rate_limit"), [default_max_requests |-> Int])
    /\ TypedEntries(Child(Child(file, "rate_limit"), "rules"), RateLimitRuleTypes)

-----------------------------------------------------------------------------

\* A key of a section has the type of its value in the file, or of its default,
\* once the section has been read without an exception.
LEMMA SectionTyped ==
    ASSUME NEW node, NEW defaults, NEW k \in DOMAIN defaults, NEW T,
           k \in DOMAIN node => node[k] \in T \cup {Bad}, defaults[k] \in T,
           Converts(Section(node, defaults))
    PROVE  Section(node, defaults)[k] \in T
BY DEF Converts, Section, GetOrDefault

LEMMA RetryFits ==
    ASSUME NEW node, TypedBy(node, RetryTypes), RetryAccepted(Section(node, RetryConfig))
    PROVE  LET c == Section(node, RetryConfig) IN
           /\ c.enabled \in BOOLEAN /\ c.retry_non_idempotent \in BOOLEAN
           /\ c.max_attempts \in Nat \ {0} /\ c.backoff_ms \in Nat
<1> DEFINE c == Section(node, RetryConfig)
<1>1. Converts(c) /\ c.max_attempts > 0 /\ c.backoff_ms >= 0
  BY DEF RetryAccepted
<1>2. /\ RetryConfig.enabled \in BOOLEAN /\ RetryConfig.retry_non_idempotent \in BOOLEAN
      /\ RetryConfig.max_attempts \in Int /\ RetryConfig.backoff_ms \in Int
      /\ {"enabled", "retry_non_idempotent", "max_attempts", "backoff_ms"} \subseteq DOMAIN RetryConfig
  BY DEF RetryConfig
<1>3. /\ "enabled" \in DOMAIN node => node["enabled"] \in BOOLEAN \cup {Bad}
      /\ "retry_non_idempotent" \in DOMAIN node => node["retry_non_idempotent"] \in BOOLEAN \cup {Bad}
      /\ "max_attempts" \in DOMAIN node => node["max_attempts"] \in Int \cup {Bad}
      /\ "backoff_ms" \in DOMAIN node => node["backoff_ms"] \in Int \cup {Bad}
  BY DEF TypedBy, RetryTypes
<1>4. c["enabled"] \in BOOLEAN
  BY <1>1, <1>2, <1>3, SectionTyped
<1>5. c["retry_non_idempotent"] \in BOOLEAN
  BY <1>1, <1>2, <1>3, SectionTyped
<1>6. c["max_attempts"] \in Int
  BY <1>1, <1>2, <1>3, SectionTyped
<1>7. c["backoff_ms"] \in Int
  BY <1>1, <1>2, <1>3, SectionTyped
<1> QED BY <1>1, <1>4, <1>5, <1>6, <1>7

LEMMA CircuitBreakerFits ==
    ASSUME NEW node, TypedBy(node, CircuitBreakerTypes),
           CircuitBreakerAccepted(Section(node, CircuitBreakerConfig))
    PROVE  LET c == Section(node, CircuitBreakerConfig) IN
           /\ c.enabled \in BOOLEAN
           /\ c.failure_threshold \in Nat \ {0} /\ c.open_seconds \in Nat \ {0}
           /\ c.half_open_success_threshold \in Nat \ {0}
<1> DEFINE c == Section(node, CircuitBreakerConfig)
<1>1. /\ Converts(c)
      /\ c.failure_threshold > 0 /\ c.open_seconds > 0 /\ c.half_open_success_threshold > 0
  BY DEF CircuitBreakerAccepted
<1>2. /\ CircuitBreakerConfig.enabled \in BOOLEAN
      /\ CircuitBreakerConfig.failure_threshold \in Int /\ CircuitBreakerConfig.open_seconds \in Int
      /\ CircuitBreakerConfig.half_open_success_threshold \in Int
      /\ {"enabled", "failure_threshold", "open_seconds", "half_open_success_threshold"}
           \subseteq DOMAIN CircuitBreakerConfig
  BY DEF CircuitBreakerConfig
<1>3. /\ "enabled" \in DOMAIN node => node["enabled"] \in BOOLEAN \cup {Bad}
      /\ "failure_threshold" \in DOMAIN node => node["failure_threshold"] \in Int \cup {Bad}
      /\ "open_seconds" \in DOMAIN node => node["open_seconds"] \in Int \cup {Bad}
      /\ "half_open_success_threshold" \in DOMAIN node
           => node["half_open_success_threshold"] \in Int \cup {Bad}
  BY DEF TypedBy, CircuitBreakerTypes
<1>4. c["enabled"] \in BOOLEAN
  BY <1>1, <1>2, <1>3, SectionTyped
<1>5. c["failure_threshold"] \in Int
  BY <1>1, <1>2, <1>3, SectionTyped
<1>6. c["open_seconds"] \in Int
  BY <1>1, <1>2, <1>3, SectionTyped
<1>7. c["half_open_success_threshold"] \in Int
  BY <1>1, <1>2, <1>3, SectionTyped
<1> QED BY <1>1, <1>4, <1>5, <1>6, <1>7

LEMMA SwitchFits ==
    ASSUME NEW node, TypedBy(node, SwitchTypes), NEW b \in BOOLEAN,
           Converts(Section(node, [enabled |-> b]))
    PROVE  Section(node, [enabled |-> b]).enabled \in BOOLEAN
<1>1. "enabled" \in DOMAIN node => node["enabled"] \in BOOLEAN \cup {Bad}
  BY DEF TypedBy, SwitchTypes
<1>2. "enabled" \in DOMAIN [enabled |-> b] /\ [enabled |-> b]["enabled"] \in BOOLEAN
  OBVIOUS
<1> QED BY <1>1, <1>2, SectionTyped

LEMMA TracingFits ==
    ASSUME NEW node, TypedBy(node, TracingTypes), NEW b,
           TracingAccepted(Section(node, TracingConfig(b)))
    PROVE  Section(node, TracingConfig(b)).max_finished_spans \in Nat \ {0}
<1>1. /\ Converts(Section(node, TracingConfig(b)))
      /\ Section(node, TracingConfig(b)).max_finished_spans > 0
  BY DEF TracingAccepted
<1>2. "max_finished_spans" \in DOMAIN node => node["max_finished_spans"] \in Nat \cup {Bad}
  BY DEF TypedBy, TracingTypes
<1>3. /\ "max_finished_spans" \in DOMAIN TracingConfig(b)
      /\ TracingConfig(b)["max_finished_spans"] \in Nat
  BY DEF TracingConfig
<1>4. Section(node, TracingConfig(b))["max_finished_spans"] \in Nat
  BY <1>1, <1>2, <1>3, SectionTyped
<1> QED BY <1>1, <1>4

LEMMA RouteFits ==
    ASSUME NEW node, TypedBy(node, RouteTypes), RouteAccepted(Section(node, RouteConfig))
    PROVE  LET r == Section(node, RouteConfig) IN r.path # <<>> /\ r.timeout_ms \in Nat \ {0}
<1> DEFINE r == Section(node, RouteConfig)
<1>1. Converts(r) /\ r.path # <<>> /\ r.timeout_ms > 0
  BY DEF RouteAccepted
<1>2. "timeout_ms" \in DOMAIN node => node["timeout_ms"] \in Int \cup {Bad}
  BY DEF TypedBy, RouteTypes
<1>3. "timeout_ms" \in DOMAIN RouteConfig /\ RouteConfig["timeout_ms"] \in Int
  <2>1. "timeout_ms" \in DOMAIN RouteConfig
    BY Zenon DEF RouteConfig
  <2>2. RouteConfig["timeout_ms"] = 1000
    BY Zenon DEF RouteConfig
  <2> QED BY <2>1, <2>2
<1>4. r["timeout_ms"] \in Int
  BY <1>1, <1>2, <1>3, SectionTyped
<1> QED BY <1>1, <1>4

LEMMA LimitRuleFits ==
    ASSUME NEW node, TypedBy(node, RateLimitRuleTypes), NEW d \in Int,
           RateLimitRuleAccepted(Section(node, RateLimitRuleConfig(d)))
    PROVE  LET r == Section(node, RateLimitRuleConfig(d))
           IN  r.path # <<>> /\ r.max_requests \in Nat \ {0}
<1> DEFINE r == Section(node, RateLimitRuleConfig(d))
<1>1. Converts(r) /\ r.path # <<>> /\ r.max_requests > 0
  BY DEF RateLimitRuleAccepted
<1>2. "max_requests" \in DOMAIN node => node["max_requests"] \in Int \cup {Bad}
  BY DEF TypedBy, RateLimitRuleTypes
<1>3. "max_requests" \in DOMAIN RateLimitRuleConfig(d) /\ RateLimitRuleConfig(d)["max_requests"] \in Int
  BY DEF RateLimitRuleConfig
<1>4. r["max_requests"] \in Int
  BY <1>1, <1>2, <1>3, SectionTyped
<1> QED BY <1>1, <1>4

-----------------------------------------------------------------------------

\* A file that LoadFromFile accepts gives Governance a configuration of its type
\* and positive thresholds and route timeouts, which ConfigAssumption,
\* ThresholdAssumption and TimeAssumption ask for.
THEOREM GovernanceConfigured ==
    ASSUME NEW file, WellTyped(file), NEW c, LoadFromFile(file) = <<c>>
    PROVE  /\ GovernanceOf(c) \in ConfigType
           /\ c.circuit_breaker.failure_threshold \in Nat \ {0}
           /\ c.circuit_breaker.open_seconds \in Nat \ {0}
           /\ c.circuit_breaker.half_open_success_threshold \in Nat \ {0}
           /\ \A i \in DOMAIN c.routes : c.routes[i].timeout_ms \in Nat \ {0}
<1> DEFINE a == AppConfig(file)
           governance == Child(file, "governance")
<1>1. Accepted(a) /\ c = [a EXCEPT !.rbac_rules = Named(a.rbac_rules)]
  BY DEF LoadFromFile
<1>2. /\ a.governance = Section(governance, GovernanceConfig)
      /\ a.retry = Section(Child(governance, "retry"), RetryConfig)
      /\ a.circuit_breaker = Section(Child(governance, "circuit_breaker"), CircuitBreakerConfig)
      /\ a.fallback = Section(Child(governance, "fallback"), FallbackConfig)
      /\ a.routes = Entries(Child(file, "routes"), RouteConfig)
  BY DEF AppConfig
<1>3. /\ c.governance = a.governance /\ c.retry = a.retry /\ c.fallback = a.fallback
      /\ c.circuit_breaker = a.circuit_breaker /\ c.routes = a.routes
  BY <1>1 DEF AppConfig
<1>4. /\ c.retry.enabled \in BOOLEAN /\ c.retry.retry_non_idempotent \in BOOLEAN
      /\ c.retry.max_attempts \in Nat \ {0} /\ c.retry.backoff_ms \in Nat
  BY <1>1, <1>2, <1>3, RetryFits DEF Accepted, WellTyped
<1>5. /\ c.circuit_breaker.enabled \in BOOLEAN
      /\ c.circuit_breaker.failure_threshold \in Nat \ {0}
      /\ c.circuit_breaker.open_seconds \in Nat \ {0}
      /\ c.circuit_breaker.half_open_success_threshold \in Nat \ {0}
  BY <1>1, <1>2, <1>3, CircuitBreakerFits DEF Accepted, WellTyped
<1>6. c.governance.enabled \in BOOLEAN /\ c.fallback.enabled \in BOOLEAN
  BY <1>1, <1>2, <1>3, SwitchFits DEF Accepted, WellTyped, GovernanceConfig, FallbackConfig
<1>7. ASSUME NEW i \in DOMAIN c.routes PROVE c.routes[i].timeout_ms \in Nat \ {0}
  <2> DEFINE list == Child(file, "routes")
  <2>1. a.routes # Bad /\ RouteAccepted(a.routes[i])
    BY <1>1, <1>3, <1>7 DEF Accepted, EveryEntry
  <2>2. list # Bad /\ a.routes = [j \in 1 .. Len(list) |-> Section(list[j], RouteConfig)]
    BY <1>2, <2>1 DEF Entries
  <2>3. i \in 1 .. Len(list) /\ a.routes[i] = Section(list[i], RouteConfig)
    BY <1>3, <1>7, <2>2
  <2>4. TypedBy(list[i], RouteTypes)
    BY <2>2, <2>3 DEF WellTyped, TypedEntries
  <2> QED BY <1>3, <2>1, <2>3, <2>4, RouteFits
<1>8. GovernanceOf(c) \in ConfigType
  BY <1>4, <1>5, <1>6 DEF GovernanceOf, ConfigType
<1> QED BY <1>5, <1>7, <1>8

\* ... and it gives the rate limiter rules with a path and a positive limit, the
\* routes a path, and the tracer a ring of at least one span.
THEOREM FiltersConfigured ==
    ASSUME NEW file, WellTyped(file), NEW c, LoadFromFile(file) = <<c>>
    PROVE  /\ \A i \in DOMAIN c.rate_limit_rules :
                c.rate_limit_rules[i].path # <<>> /\ c.rate_limit_rules[i].max_requests \in Nat \ {0}
           /\ \A i \in DOMAIN c.routes : c.routes[i].path # <<>>
           /\ \A i \in DOMAIN c.rbac_rules :
                c.rbac_rules[i].path # <<>> /\ \E r \in c.rbac_rules[i].roles : r # <<>>
           /\ c.tracing.max_finished_spans \in Nat \ {0}
<1> DEFINE a == AppConfig(file)
           section == Child(file, "rate_limit")
           list == Child(section, "rules")
           d == Section(section, RateLimitConfig(a.gateway.enable_rate_limit)).default_max_requests
<1>1. Accepted(a) /\ c = [a EXCEPT !.rbac_rules = Named(a.rbac_rules)]
  BY DEF LoadFromFile
<1>2. /\ a.rate_limit = Section(section, RateLimitConfig(a.gateway.enable_rate_limit))
      /\ a.rate_limit_rules = Entries(list, RateLimitRuleConfig(d))
      /\ a.tracing = Section(Child(file, "tracing"), TracingConfig(a.gateway.enable_tracing))
  BY DEF AppConfig
<1>3. /\ c.tracing = a.tracing /\ c.rate_limit_rules = a.rate_limit_rules /\ c.routes = a.routes
      /\ c.rbac_rules = Named(a.rbac_rules)
  BY <1>1 DEF AppConfig
<1>4. d \in Int
  <2>1. Converts(Section(section, RateLimitConfig(a.gateway.enable_rate_limit)))
    BY <1>1, <1>2 DEF Accepted
  <2>2. "default_max_requests" \in DOMAIN section => section["default_max_requests"] \in Int \cup {Bad}
    BY DEF WellTyped, TypedBy
  <2>3. /\ "default_max_requests" \in DOMAIN RateLimitConfig(a.gateway.enable_rate_limit)
        /\ RateLimitConfig(a.gateway.enable_rate_limit)["default_max_requests"] \in Int
    BY DEF RateLimitConfig
  <2> QED BY <2>1, <2>2, <2>3, SectionTyped
<1>5. ASSUME NEW i \in DOMAIN c.rate_limit_rules
      PROVE  c.rate_limit_rules[i].path # <<>> /\ c.rate_limit_rules[i].max_requests \in Nat \ {0}
  <2>1. a.rate_limit_rules # Bad /\ RateLimitRuleAccepted(a.rate_limit_rules[i])
    BY <1>1, <1>3, <1>5 DEF Accepted, EveryEntry
  <2>2. /\ list # Bad
        /\ a.rate_limit_rules = [j \in 1 .. Len(list) |-> Section(list[j], RateLimitRuleConfig(d))]
    BY <1>2, <2>1 DEF Entries
  <2>3. /\ i \in 1 .. Len(list)
        /\ a.rate_limit_rules[i] = Section(list[i], RateLimitRuleConfig(d))
    BY <1>3, <1>5, <2>2
  <2>4. TypedBy(list[i], RateLimitRuleTypes)
    BY <2>2, <2>3 DEF WellTyped, TypedEntries
  <2> HIDE DEF d
  <2> QED BY <1>3, <1>4, <2>1, <2>3, <2>4, LimitRuleFits
<1>6. \A i \in DOMAIN c.routes : c.routes[i].path # <<>>
  BY <1>1, <1>3 DEF Accepted, EveryEntry, RouteAccepted
<1>7. ASSUME NEW i \in DOMAIN c.rbac_rules
      PROVE  c.rbac_rules[i].path # <<>> /\ \E r \in c.rbac_rules[i].roles : r # <<>>
  <2>1. i \in DOMAIN a.rbac_rules /\ RbacRuleAccepted(a.rbac_rules[i])
    BY <1>1, <1>3, <1>7 DEF Accepted, EveryEntry, Named
  <2>2. c.rbac_rules[i] = [path |-> a.rbac_rules[i].path, roles |-> a.rbac_rules[i].roles \ {<<>>}]
    BY <1>3, <2>1 DEF Named
  <2> QED BY <2>1, <2>2 DEF RbacRuleAccepted
<1>8. c.tracing.max_finished_spans \in Nat \ {0}
  BY <1>1, <1>2, <1>3, TracingFits DEF Accepted, WellTyped
<1> QED BY <1>5, <1>6, <1>7, <1>8
=============================================================================
