----------------------------- MODULE PathRules ------------------------------
(***************************************************************************)
(* The three tables of rules the gateway looks a request path up in:       *)
(* routes (RouteRuleManager), role rules (AuthFilter) and limit rules      *)
(* (RateLimitFilter).  Each has its own loop and its own test for a prefix.*)
(* A path is the sequence of its characters.                               *)
(***************************************************************************)
EXTENDS Integers, SequencesExt

\* Mutation: a prefix may end inside a segment.
StringPrefixMatch(rule, path) == rule # <<>> /\ IsPrefix(rule, path)

\* IsPrefixMatch, of routes and, written a second time, of limit rules.
IsPrefixMatch(rule, path) ==
    /\ rule # <<>>
    /\ IsPrefix(rule, path)
    /\ Len(path) = Len(rule) \/ path[Len(rule) + 1] = "/"

\* Mutation: a path that is all prefix leaves nothing.
BuildUpstreamPathBare(rule, path, strip) ==
    IF strip THEN SubSeq(path, Len(rule) + 1, Len(path)) ELSE path

BuildUpstreamPath(rule, path, strip) ==
    LET stripped == SubSeq(path, Len(rule) + 1, Len(path)) IN
    IF ~strip THEN path
    ELSE IF stripped = <<>> THEN <<"/">>
    ELSE IF stripped[1] # "/" THEN <<"/">> \o stripped
    ELSE stripped

\* The orders in which the constructor of RouteRuleManager may leave the routes:
\* by decreasing length, equal ones as std::sort likes.
SortedRoutes(rs) ==
    LET n == Len(rs)
        orders == {f \in Bijection(1 .. n, 1 .. n) :
                     \A i \in 1 .. n - 1 : Len(rs[f[i]].path) >= Len(rs[f[i + 1]].path)}
    IN  {[i \in 1 .. n |-> rs[f[i]]] : f \in orders}

\* Match: the first route that fits; none is the empty sequence.
Match(rs, path) ==
    LET hits == {i \in 1 .. Len(rs) : rs[i].match_type = "prefix" /\ IsPrefixMatch(rs[i].path, path)}
    IN  IF hits = {} THEN <<>> ELSE <<rs[CHOOSE i \in hits : \A j \in hits : i <= j]>>

\* AuthFilter's own test for a prefix.
RbacApplies(rule, path) ==
    /\ IsPrefix(rule, path)
    /\ Len(path) > Len(rule) => path[Len(rule) + 1] = "/"

\* Mutation: a later rule replaces an earlier one that is more specific.
LastRule(rules, path) ==
    [n \in 0 .. Len(rules) |->
       LET fit == {i \in 1 .. n : RbacApplies(rules[i].path, path)}
       IN  IF fit = {} THEN 0 ELSE CHOOSE i \in fit : \A j \in fit : j <= i]

\* best_rule after n rounds of the loop in IsRoleAllowed, 0 for the null pointer.
BestRule(rules, path) ==
    LET best[n \in 0 .. Len(rules)] ==
          IF n = 0 THEN 0
          ELSE IF /\ RbacApplies(rules[n].path, path)
                  /\ best[n - 1] = 0 \/ Len(rules[n].path) > Len(rules[best[n - 1]].path)
            THEN n ELSE best[n - 1]
    IN  best

\* IsRoleAllowed with RBAC enabled.
IsRoleAllowed(rules, path, role) ==
    LET best == BestRule(rules, path)[Len(rules)]
    IN  best = 0 \/ role \in rules[best].roles

\* Mutation: the first rule that fits decides.
ResolveLimitFirst(rules, default, path) ==
    LET hits == SelectSeq(rules, LAMBDA r : IsPrefixMatch(r.path, path))
        limit == IF hits = <<>> THEN default ELSE hits[1].max_requests
    IN  IF limit < 1 THEN 1 ELSE limit

\* best_size and limit after n rounds of the loop in ResolveLimit.
BestLimit(rules, default, path) ==
    LET best[n \in 0 .. Len(rules)] ==
          IF n = 0 THEN [size |-> 0, limit |-> default]
          ELSE IF IsPrefixMatch(rules[n].path, path) /\ Len(rules[n].path) >= best[n - 1].size
            THEN [size |-> Len(rules[n].path), limit |-> rules[n].max_requests]
            ELSE best[n - 1]
    IN  best

\* ResolveLimit, and Check's lower bound of 1.
ResolveLimit(rules, default, path) ==
    LET limit == BestLimit(rules, default, path)[Len(rules)].limit
    IN  IF limit < 1 THEN 1 ELSE limit

-----------------------------------------------------------------------------
(* What the rules mean: a rule governs the paths that begin with its segments. *)

\* The ends of a path and its slashes, between which its segments are.
Cuts(p) == {0, Len(p) + 1} \cup {i \in 1 .. Len(p) : p[i] = "/"}

\* Each with the next one.
Gaps(p) ==
    {c \in Cuts(p) \X Cuts(p) :
       c[1] < c[2] /\ \A k \in Cuts(p) : k <= c[1] \/ c[2] <= k}

\* The segments of a path, each with the place where it begins.
Segments(p) == {<<c[1], SubSeq(p, c[1] + 1, c[2] - 1)>> : c \in Gaps(p)}

Governs(rule, path) == Segments(rule) \subseteq Segments(path)

\* Of the rules with the given indices, those that govern the path and have all
\* the segments of every other that does.
MostSpecific(rules, indices, path) ==
    LET fit == {i \in indices : Governs(rules[i].path, path)}
    IN  {i \in fit : \A j \in fit : Segments(rules[j].path) \subseteq Segments(rules[i].path)}
=============================================================================
