---------------------------- MODULE Access_proofs ----------------------------
(***************************************************************************)
(* Proofs about PathRules and Access, for every configuration file of the  *)
(* expected shape, all tables, paths and users, any number of workers, and *)
(* an unbounded clock (MaxTime is any natural number).                     *)
(*                                                                         *)
(* Rules that test characters govern by segments, and the loops over the   *)
(* tables find the most specific rule; the loader makes such tables; a     *)
(* worker's way through Handle, and the tokens, keep AccessInv; what was   *)
(* written into a token is read from it (TokenCodec_proofs); the           *)
(* properties follow.                                                      *)
(***************************************************************************)
EXTENDS Access, TokenCodec_proofs

-----------------------------------------------------------------------------
(* Segments *)

\* A prefix, character by character.
LEMMA PrefixAt ==
    ASSUME NEW C, NEW s \in Seq(C), NEW t \in Seq(C)
    PROVE  IsPrefix(s, t) <=> Len(s) <= Len(t) /\ \A i \in 1 .. Len(s) : s[i] = t[i]
<1>1. CASE Len(s) <= Len(t)
  <2>1. SubSeq(s, 1, Len(s)) = [i \in 1 .. Len(s) |-> s[i]]
    OBVIOUS
  <2>2. SubSeq(t, 1, Len(s)) = [i \in 1 .. Len(s) |-> t[i]]
    BY <1>1
  <2> QED BY <1>1, <2>1, <2>2 DEF IsPrefix
<1>2. CASE ~ (Len(s) <= Len(t))
  BY <1>2 DEF IsPrefix
<1> QED BY <1>1, <1>2

\* The part of a sequence between two places.
LEMMA Between ==
    ASSUME NEW C, NEW s \in Seq(C), NEW a \in 0 .. Len(s), NEW b \in 1 .. Len(s) + 1, a < b
    PROVE  /\ SubSeq(s, a + 1, b - 1) = [n \in 1 .. b - 1 - a |-> s[a + n]]
           /\ Len(SubSeq(s, a + 1, b - 1)) = b - 1 - a
<1>1. SubSeq(s, a + 1, b - 1) \in Seq(C) /\ Len(SubSeq(s, a + 1, b - 1)) = b - 1 - a
  OBVIOUS
<1>2. DOMAIN SubSeq(s, a + 1, b - 1) = 1 .. b - 1 - a
  BY <1>1
<1>3. ASSUME NEW n \in 1 .. b - 1 - a PROVE SubSeq(s, a + 1, b - 1)[n] = s[a + n]
  OBVIOUS
<1> QED BY <1>1, <1>2, <1>3

\* The first and the last cut of a path.
LEMMA CutsTyped ==
    ASSUME NEW C, NEW p \in Seq(C)
    PROVE  Cuts(p) \subseteq 0 .. Len(p) + 1 /\ 0 \in Cuts(p) /\ Len(p) + 1 \in Cuts(p)
BY DEF Cuts

\* Behind every place there is a next cut.
LEMMA NextCut ==
    ASSUME NEW C, NEW p \in Seq(C), NEW i \in 0 .. Len(p)
    PROVE  \E j \in Cuts(p) : i < j /\ \A k \in Cuts(p) : k <= i \/ j <= k
<1> DEFINE T == {j \in Cuts(p) : i < j}
<1>1. T \subseteq Nat /\ Len(p) + 1 \in T
  BY CutsTyped
<1>2. PICK j \in T : \A k \in T : j <= k
  BY <1>1, LeastNat
<1>3. \A k \in Cuts(p) : k \in Int
  BY CutsTyped
<1> QED BY <1>2, <1>3

\* Before every place there is a last cut.
LEMMA LastCut ==
    ASSUME NEW C, NEW p \in Seq(C), NEW i \in 1 .. Len(p) + 1
    PROVE  \E j \in Cuts(p) : j < i /\ \A k \in Cuts(p) : k <= j \/ i <= k
<1> DEFINE T == {d \in 1 .. i : i - d \in Cuts(p)}
<1>1. T \subseteq Nat /\ i \in T
  BY CutsTyped
<1>2. PICK d \in T : \A e \in T : d <= e
  BY <1>1, LeastNat
<1>3. ASSUME NEW k \in Cuts(p), ~ (i <= k) PROVE k <= i - d
  <2>1. k \in 0 .. i - 1 /\ i - (i - k) = k
    BY <1>3, CutsTyped
  <2>2. i - k \in T
    BY <2>1
  <2>3. d <= i - k
    BY <1>2, <2>2
  <2> QED BY <2>1, <2>3
<1>4. i - d \in Cuts(p) /\ i - d < i
  OBVIOUS
<1> QED BY <1>3, <1>4

\* A gap of the rule is one of a path that the rule governs.
LEMMA GapsOfGoverned ==
    ASSUME NEW C, NEW rule \in Seq(C), NEW path \in Seq(C), Governs(rule, path),
           NEW i \in Cuts(rule), NEW j \in Cuts(rule), i < j,
           \A k \in Cuts(rule) : k <= i \/ j <= k
    PROVE  /\ i \in Cuts(path) /\ j \in Cuts(path)
           /\ \A k \in i + 1 .. j - 1 : k <= Len(path) /\ rule[k] = path[k]
<1>0. i \in 0 .. Len(rule) /\ j \in 1 .. Len(rule) + 1
  BY CutsTyped
<1>1. <<i, j>> \in Gaps(rule)
  BY DEF Gaps
<1>2. <<i, SubSeq(rule, i + 1, j - 1)>> \in Segments(rule)
  <2>1. <<<<i, j>>[1], SubSeq(rule, <<i, j>>[1] + 1, <<i, j>>[2] - 1)>> \in Segments(rule)
    BY <1>1, Zenon DEF Segments
  <2> QED BY <2>1
<1>3. <<i, SubSeq(rule, i + 1, j - 1)>> \in Segments(path)
  BY <1>2 DEF Governs
<1>4. PICK c \in Gaps(path) :
        <<i, SubSeq(rule, i + 1, j - 1)>> = <<c[1], SubSeq(path, c[1] + 1, c[2] - 1)>>
  BY <1>3, Zenon DEF Segments
<1>5. /\ c[1] \in Cuts(path) /\ c[2] \in Cuts(path) /\ c[1] < c[2]
      /\ c[1] = i /\ SubSeq(rule, i + 1, j - 1) = SubSeq(path, i + 1, c[2] - 1)
  BY <1>4 DEF Gaps
<1>6. c[2] \in 1 .. Len(path) + 1
  BY <1>0, <1>5, CutsTyped
<1>7. /\ Len(SubSeq(rule, i + 1, j - 1)) = j - 1 - i
      /\ \A n \in 1 .. j - 1 - i : SubSeq(rule, i + 1, j - 1)[n] = rule[i + n]
  BY <1>0, Between
<1>8. ASSUME NEW b \in 1 .. Len(path) + 1, i < b, b = c[2], i <= Len(path)
      PROVE  /\ Len(SubSeq(path, i + 1, b - 1)) = b - 1 - i
             /\ \A n \in 1 .. b - 1 - i : SubSeq(path, i + 1, b - 1)[n] = path[i + n]
             /\ b = j
  <2>1. i \in 0 .. Len(path)
    BY <1>0, <1>8
  <2>2. /\ Len(SubSeq(path, i + 1, b - 1)) = b - 1 - i
        /\ \A n \in 1 .. b - 1 - i : SubSeq(path, i + 1, b - 1)[n] = path[i + n]
    <3>1. /\ SubSeq(path, i + 1, b - 1) = [n \in 1 .. b - 1 - i |-> path[i + n]]
          /\ Len(SubSeq(path, i + 1, b - 1)) = b - 1 - i
      BY <1>8, <2>1, Between
    <3> QED BY <3>1
  <2>3. SubSeq(rule, i + 1, j - 1) = SubSeq(path, i + 1, b - 1)
    BY <1>5, <1>8
  <2>4. j - 1 - i = b - 1 - i
    BY <1>7, <2>2, <2>3
  <2> QED BY <1>0, <1>8, <2>2, <2>4, SMTT(40)
<1>9. /\ c[2] = j /\ j \in 1 .. Len(path) + 1
      /\ \A n \in 1 .. j - 1 - i : SubSeq(path, i + 1, j - 1)[n] = path[i + n]
  BY <1>0, <1>5, <1>6, <1>8
<1>10. ASSUME NEW k \in i + 1 .. j - 1 PROVE k <= Len(path) /\ rule[k] = path[k]
  <2>1. k - i \in 1 .. j - 1 - i /\ i + (k - i) = k
    BY <1>0
  <2>2. rule[i + (k - i)] = path[i + (k - i)]
    BY <1>5, <1>7, <1>9, <2>1, ZenonT(60)
  <2> QED BY <1>0, <1>9, <2>1, <2>2
<1> QED BY <1>5, <1>9, <1>10

\* A rule governs a path, by segments, exactly if IsPrefixMatch says so.
LEMMA GovernsIsPrefixMatch ==
    ASSUME NEW C, NEW rule \in Seq(C), NEW path \in Seq(C), rule # <<>>
    PROVE  Governs(rule, path) <=> IsPrefixMatch(rule, path)
<1> DEFINE m == Len(rule)
<1>0. m \in Nat /\ m >= 1 /\ Len(path) \in Nat
  OBVIOUS
<1>1. ASSUME Governs(rule, path) PROVE IsPrefixMatch(rule, path)
  <2>1. ASSUME NEW k \in 1 .. m PROVE k <= Len(path) /\ rule[k] = path[k]
    <3>1. CASE rule[k] = "/"
      <4>1. k \in Cuts(rule)
        BY <3>1 DEF Cuts
      <4>2. PICK j \in Cuts(rule) : k < j /\ \A l \in Cuts(rule) : l <= k \/ j <= l
        BY NextCut
      <4>3. k \in Cuts(path) /\ j \in Cuts(path)
        BY <1>1, <4>1, <4>2, GapsOfGoverned
      <4>4. j <= Len(path) + 1
        BY <4>3, CutsTyped
      <4>5. j \in Int
        BY <4>2, CutsTyped
      <4> QED BY <1>0, <3>1, <4>2, <4>3, <4>4, <4>5 DEF Cuts
    <3>2. CASE rule[k] # "/"
      <4>1. PICK i \in Cuts(rule) : i < k /\ \A l \in Cuts(rule) : l <= i \/ k <= l
        BY LastCut
      <4>2. i \in 0 .. m
        BY <4>1, CutsTyped
      <4>3. PICK j \in Cuts(rule) : i < j /\ \A l \in Cuts(rule) : l <= i \/ j <= l
        BY <4>2, NextCut
      <4>4. k <= j /\ k # j /\ j \in Int
        BY <1>0, <3>2, <4>1, <4>2, <4>3, CutsTyped DEF Cuts
      <4>5. k \in i + 1 .. j - 1
        BY <4>1, <4>2, <4>4
      <4> QED BY <1>1, <4>1, <4>3, <4>5, GapsOfGoverned
    <3> QED BY <3>1, <3>2
  <2>2. m <= Len(path)
    BY <1>0, <2>1
  <2>3. m + 1 \in Cuts(path)
    <3>1. PICK i \in Cuts(rule) : i < m + 1 /\ \A l \in Cuts(rule) : l <= i \/ m + 1 <= l
      BY <1>0, LastCut
    <3>2. m + 1 \in Cuts(rule)
      BY CutsTyped
    <3> QED BY <1>1, <3>1, <3>2, GapsOfGoverned
  <2>4. Len(path) = m \/ path[m + 1] = "/"
    BY <1>0, <2>3 DEF Cuts
  <2>5. IsPrefix(rule, path)
    BY <2>1, <2>2, PrefixAt
  <2> QED BY <2>4, <2>5 DEF IsPrefixMatch
<1>2. ASSUME IsPrefixMatch(rule, path) PROVE Governs(rule, path)
  <2>1. /\ m <= Len(path) /\ \A k \in 1 .. m : rule[k] = path[k]
        /\ Len(path) = m \/ path[m + 1] = "/"
    BY <1>2, PrefixAt DEF IsPrefixMatch
  <2>2. \A k \in 0 .. m + 1 : k \in Cuts(rule) => k \in Cuts(path)
    BY <1>0, <2>1 DEF Cuts
  <2>3. \A k \in 0 .. m : k \in Cuts(path) => k \in Cuts(rule)
    BY <1>0, <2>1 DEF Cuts
  <2>4. ASSUME NEW c \in Gaps(rule)
        PROVE  /\ c \in Gaps(path)
               /\ SubSeq(rule, c[1] + 1, c[2] - 1) = SubSeq(path, c[1] + 1, c[2] - 1)
    <3>1. /\ c \in Cuts(rule) \X Cuts(rule)
          /\ c[1] \in Cuts(rule) /\ c[2] \in Cuts(rule) /\ c[1] < c[2]
          /\ \A k \in Cuts(rule) : k <= c[1] \/ c[2] <= k
      BY <2>4 DEF Gaps
    <3>2. c[1] \in 0 .. m /\ c[2] \in 1 .. m + 1
      BY <3>1, CutsTyped
    <3>3. c[1] \in Cuts(path) /\ c[2] \in Cuts(path)
      BY <1>0, <2>2, <3>1, <3>2
    <3>4. \A k \in Cuts(path) : k <= c[1] \/ c[2] <= k
      BY <2>3, <3>1, <3>2, CutsTyped
    <3>5. c \in Gaps(path)
      BY <3>1, <3>3, <3>4 DEF Gaps
    <3>6. /\ SubSeq(rule, c[1] + 1, c[2] - 1) = [n \in 1 .. c[2] - 1 - c[1] |-> rule[c[1] + n]]
          /\ SubSeq(path, c[1] + 1, c[2] - 1) = [n \in 1 .. c[2] - 1 - c[1] |-> path[c[1] + n]]
      <4>1. \A a \in 0 .. m, b \in 1 .. m + 1 : a < b =>
              /\ SubSeq(rule, a + 1, b - 1) = [n \in 1 .. b - 1 - a |-> rule[a + n]]
              /\ SubSeq(path, a + 1, b - 1) = [n \in 1 .. b - 1 - a |-> path[a + n]]
        <5> TAKE a \in 0 .. m, b \in 1 .. m + 1
        <5>1. a \in 0 .. Len(path) /\ b \in 1 .. Len(path) + 1
          BY <1>0, <2>1
        <5> QED BY <5>1, Between
      <4> QED BY <3>1, <3>2, <4>1, Zenon
    <3>7. \A n \in 1 .. c[2] - 1 - c[1] : rule[c[1] + n] = path[c[1] + n]
      BY <1>0, <2>1, <3>1, <3>2, SMTT(40)
    <3> QED BY <3>5, <3>6, <3>7
  <2>5. \A c \in Gaps(rule) : <<c[1], SubSeq(rule, c[1] + 1, c[2] - 1)>> \in Segments(path)
    BY <2>4, Zenon DEF Segments
  <2> QED BY <2>5, Zenon DEF Governs, Segments
<1> QED BY <1>1, <1>2

\* Of two rules that govern a path, the longer one is the more specific.
LEMMA LongerIsMoreSpecific ==
    ASSUME NEW C, NEW r \in Seq(C), NEW s \in Seq(C), NEW path \in Seq(C), r # <<>>, s # <<>>,
           IsPrefixMatch(r, path), IsPrefixMatch(s, path)
    PROVE  Segments(r) \subseteq Segments(s) <=> Len(r) <= Len(s)
<1>1. Segments(r) \subseteq Segments(s) <=> IsPrefixMatch(r, s)
  BY GovernsIsPrefixMatch DEF Governs
<1>2. /\ Len(r) <= Len(path) /\ \A k \in 1 .. Len(r) : r[k] = path[k]
      /\ Len(path) = Len(r) \/ path[Len(r) + 1] = "/"
  BY PrefixAt DEF IsPrefixMatch
<1>3. Len(s) <= Len(path) /\ \A k \in 1 .. Len(s) : s[k] = path[k]
  BY PrefixAt DEF IsPrefixMatch
<1>4. IsPrefixMatch(r, s) => Len(r) <= Len(s)
  BY PrefixAt DEF IsPrefixMatch
<1>5. ASSUME Len(r) <= Len(s) PROVE IsPrefixMatch(r, s)
  <2>1. IsPrefix(r, s)
    BY <1>2, <1>3, <1>5, PrefixAt
  <2>2. Len(s) = Len(r) \/ s[Len(r) + 1] = "/"
    BY <1>2, <1>3, <1>5
  <2> QED BY <2>1, <2>2 DEF IsPrefixMatch
<1> QED BY <1>1, <1>4, <1>5

-----------------------------------------------------------------------------
(* The loops *)

\* A table of rules: each has a path.
Table(C, rules) ==
    /\ Len(rules) \in Nat /\ DOMAIN rules = 1 .. Len(rules)
    /\ \A i \in 1 .. Len(rules) : rules[i].path \in Seq(C) /\ rules[i].path # <<>>

\* The most specific rules are the longest that fit.
LEMMA LongestFit ==
    ASSUME NEW C, NEW rules, Table(C, rules), NEW path \in Seq(C), NEW I \in SUBSET DOMAIN rules
    PROVE  LET fit == {i \in I : IsPrefixMatch(rules[i].path, path)} IN
           MostSpecific(rules, I, path)
             = {i \in fit : \A j \in fit : Len(rules[j].path) <= Len(rules[i].path)}
<1> DEFINE fit == {i \in I : IsPrefixMatch(rules[i].path, path)}
<1>1. \A i \in I : rules[i].path \in Seq(C) /\ rules[i].path # <<>>
  BY DEF Table
<1>2. {i \in I : Governs(rules[i].path, path)} = fit
  BY <1>1, GovernsIsPrefixMatch
<1>3. \A i, j \in fit : Segments(rules[j].path) \subseteq Segments(rules[i].path)
                          <=> Len(rules[j].path) <= Len(rules[i].path)
  BY <1>1, LongerIsMoreSpecific
<1>4. MostSpecific(rules, I, path)
        = {i \in fit : \A j \in fit : Len(rules[j].path) <= Len(rules[i].path)}
  <2> HIDE DEF fit
  <2> QED BY <1>2, <1>3, Zenon DEF MostSpecific
<1> QED BY <1>4

\* AuthFilter's test for a prefix is that of the routes.
LEMMA RbacIsPrefixMatch ==
    ASSUME NEW C, NEW rule \in Seq(C), NEW path \in Seq(C), rule # <<>>
    PROVE  RbacApplies(rule, path) <=> IsPrefixMatch(rule, path)
BY PrefixAt DEF RbacApplies, IsPrefixMatch

\* A round of the loop in IsRoleAllowed.
LEMMA BestRuleLoop ==
    ASSUME NEW C, NEW rules, Table(C, rules), NEW path
    PROVE  LET best == BestRule(rules, path) IN
           /\ best[0] = 0
           /\ \A n \in 1 .. Len(rules) :
                best[n] = IF /\ RbacApplies(rules[n].path, path)
                             /\ best[n - 1] = 0 \/ Len(rules[n].path) > Len(rules[best[n - 1]].path)
                            THEN n ELSE best[n - 1]
<1> DEFINE len == Len(rules)
           S == 0 .. len
           Better(b, n) == /\ RbacApplies(rules[n].path, path)
                           /\ b = 0 \/ Len(rules[n].path) > Len(rules[b].path)
           step == [x \in S \X (1 .. len) |-> IF Better(x[1], x[2]) THEN x[2] ELSE x[1]]
           Loop(g) == [n \in 0 .. len |-> IF n = 0 THEN 0 ELSE IF Better(g[n - 1], n) THEN n ELSE g[n - 1]]
<1>0. len \in Nat /\ 0 \in S
  BY DEF Table
<1>1. step \in [S \X (1 .. len) -> S]
  BY <1>0
<1>2. PICK f \in [0 .. len -> S] : f[0] = 0 /\ \A n \in 1 .. len : f[n] = step[<<f[n - 1], n>>]
  <2> HIDE DEF step, S, len
  <2>1. Loops(S, len, 0, step) # {}
    BY <1>0, <1>1, LoopRuns
  <2> QED BY <2>1, Zenon DEF Loops
<1>3. ASSUME NEW n \in 1 .. len PROVE f[n] = IF Better(f[n - 1], n) THEN n ELSE f[n - 1]
  <2>1. <<f[n - 1], n>> \in S \X (1 .. len)
    BY <1>0
  <2>2. step[<<f[n - 1], n>>] = IF Better(f[n - 1], n) THEN n ELSE f[n - 1]
    <3> HIDE DEF Better
    <3> QED BY <2>1
  <2> QED BY <1>2, <2>2
<1>4. f = Loop(f)
  <2> HIDE DEF Better
  <2> QED BY <1>0, <1>2, <1>3
<1>5. BestRule(rules, path) = CHOOSE g : g = Loop(g)
  BY DEF BestRule
<1>6. BestRule(rules, path) = Loop(BestRule(rules, path))
  <2> HIDE DEF Loop
  <2> QED BY <1>4, <1>5
<1> QED
  <2> DEFINE best == BestRule(rules, path)
  <2> HIDE DEF best
  <2>1. best = Loop(best)
    BY <1>6 DEF best
  <2>2. best[0] = 0
    BY <1>0, <2>1
  <2>3. ASSUME NEW n \in 1 .. len PROVE best[n] = IF Better(best[n - 1], n) THEN n ELSE best[n - 1]
    <3> HIDE DEF Better
    <3> QED BY <1>0, <2>1
  <2> QED BY <2>2, <2>3 DEF best

\* The rule that IsRoleAllowed is left with is the first of the longest that fit.
LEMMA BestRuleIs ==
    ASSUME NEW C, NEW rules, Table(C, rules), NEW path \in Seq(C)
    PROVE  LET best == BestRule(rules, path)[Len(rules)]
               fit == {i \in DOMAIN rules : IsPrefixMatch(rules[i].path, path)}
           IN  \/ best = 0 /\ fit = {}
               \/ best \in fit /\ \A i \in fit :
                    \/ Len(rules[i].path) < Len(rules[best].path)
                    \/ Len(rules[i].path) = Len(rules[best].path) /\ best <= i
<1> DEFINE len == Len(rules)
           b == BestRule(rules, path)
           Size(i) == Len(rules[i].path)
           Fits(i) == IsPrefixMatch(rules[i].path, path)
           Found(n) == \/ b[n] = 0 /\ \A i \in 1 .. n : ~Fits(i)
                       \/ /\ b[n] \in 1 .. n /\ Fits(b[n])
                          /\ \A i \in 1 .. n : Fits(i) =>
                               Size(i) < Size(b[n]) \/ (Size(i) = Size(b[n]) /\ b[n] <= i)
           T == {n \in 0 .. len : Found(n)}
<1>1. len \in Nat /\ DOMAIN rules = 1 .. len /\ \A i \in 1 .. len : Size(i) \in Nat
  BY DEF Table
<1>2. b[0] = 0 /\ \A n \in 1 .. len :
        b[n] = IF Fits(n) /\ (b[n - 1] = 0 \/ Size(n) > Size(b[n - 1])) THEN n ELSE b[n - 1]
  <2>1. \A n \in 1 .. len : RbacApplies(rules[n].path, path) <=> Fits(n)
    BY RbacIsPrefixMatch DEF Table
  <2> QED BY <2>1, BestRuleLoop
<1> HIDE DEF b, Size, Fits
<1>3. Found(0)
  BY <1>2
<1>4. ASSUME NEW n \in 0 .. len - 1, Found(n) PROVE Found(n + 1)
  <2>1. n + 1 \in 1 .. len /\ (n + 1) - 1 = n
    BY <1>1
  <2>2. b[n + 1] = IF Fits(n + 1) /\ (b[n] = 0 \/ Size(n + 1) > Size(b[n])) THEN n + 1 ELSE b[n]
    BY <1>2, <2>1
  <2>3. \A i \in 1 .. n + 1 : i = n + 1 \/ i \in 1 .. n
    OBVIOUS
  <2>4. \A i \in 1 .. n + 1 : Size(i) \in Nat
    BY <1>1, <2>1
  <2>5. CASE b[n] = 0 /\ \A i \in 1 .. n : ~Fits(i)
    BY <2>1, <2>2, <2>3, <2>4, <2>5
  <2>6. CASE /\ b[n] \in 1 .. n /\ Fits(b[n])
             /\ \A i \in 1 .. n : Fits(i) =>
                  Size(i) < Size(b[n]) \/ (Size(i) = Size(b[n]) /\ b[n] <= i)
    <3>1. CASE Fits(n + 1) /\ Size(n + 1) > Size(b[n])
      BY <2>1, <2>2, <2>3, <2>4, <2>6, <3>1
    <3>2. CASE ~ (Fits(n + 1) /\ Size(n + 1) > Size(b[n]))
      <4>1. b[n + 1] = b[n]
        BY <2>2, <2>6, <3>2
      <4> QED BY <2>1, <2>3, <2>4, <2>6, <3>2, <4>1
    <3> QED BY <3>1, <3>2
  <2> QED BY <1>4, <2>5, <2>6
<1>5. len \in T
  <2>1. 0 \in T /\ \A n \in 0 .. len - 1 : n \in T => n + 1 \in T
    <3> HIDE DEF Found
    <3> QED BY <1>1, <1>3, <1>4
  <2> HIDE DEF T
  <2>2. \A n \in 0 .. len : n \in T
    BY <1>1, <2>1, UpTo
  <2> QED BY <1>1, <2>2
<1>6. Found(len)
  BY <1>5
<1> QED BY <1>1, <1>6 DEF b, Size, Fits

\* IsRoleAllowed asks the first of the most specific rules.
LEMMA RoleAllowedByMostSpecific ==
    ASSUME NEW C, NEW rules, Table(C, rules), NEW path \in Seq(C), NEW r
    PROVE  LET best == MostSpecific(rules, DOMAIN rules, path) IN
           IsRoleAllowed(rules, path, r) <=>
             \/ best = {}
             \/ \E i \in best : (\A j \in best : i <= j) /\ r \in rules[i].roles
<1> DEFINE best == MostSpecific(rules, DOMAIN rules, path)
           fit == {i \in DOMAIN rules : IsPrefixMatch(rules[i].path, path)}
           b == BestRule(rules, path)[Len(rules)]
           Size(i) == Len(rules[i].path)
<1>1. best = {i \in fit : \A j \in fit : Size(j) <= Size(i)}
  BY LongestFit
<1>2. \/ b = 0 /\ fit = {}
      \/ b \in fit /\ \A i \in fit : Size(i) < Size(b) \/ (Size(i) = Size(b) /\ b <= i)
  BY BestRuleIs
<1>3. fit \subseteq Nat \ {0} /\ \A i \in fit : Size(i) \in Nat
  BY DEF Table
<1>4. IsRoleAllowed(rules, path, r) <=> b = 0 \/ r \in rules[b].roles
  BY DEF IsRoleAllowed
<1> SUFFICES IsRoleAllowed(rules, path, r) <=>
               best = {} \/ \E i \in best : (\A j \in best : i <= j) /\ r \in rules[i].roles
  OBVIOUS
<1> HIDE DEF best, fit, b, Size
<1>5. CASE b = 0 /\ fit = {}
  BY <1>1, <1>4, <1>5
<1>6. CASE b \in fit /\ \A i \in fit : Size(i) < Size(b) \/ (Size(i) = Size(b) /\ b <= i)
  <2>1. b \in best /\ \A j \in best : b <= j
    BY <1>1, <1>3, <1>6
  <2>2. \A i \in best : (\A j \in best : i <= j) => i = b
    BY <1>1, <1>3, <2>1
  <2>3. b # 0
    BY <1>3, <1>6
  <2> QED BY <1>4, <2>1, <2>2, <2>3
<1> QED BY <1>2, <1>5, <1>6

\* A round of the loop in ResolveLimit.
LEMMA BestLimitLoop ==
    ASSUME NEW C, NEW rules, Table(C, rules), NEW path, NEW default \in Int,
           \A i \in 1 .. Len(rules) : rules[i].max_requests \in Int
    PROVE  LET best == BestLimit(rules, default, path) IN
           /\ best[0] = [size |-> 0, limit |-> default]
           /\ \A n \in 1 .. Len(rules) :
                best[n] = IF IsPrefixMatch(rules[n].path, path) /\ Len(rules[n].path) >= best[n - 1].size
                            THEN [size |-> Len(rules[n].path), limit |-> rules[n].max_requests]
                            ELSE best[n - 1]
<1> DEFINE len == Len(rules)
           S == [size : Nat, limit : Int]
           start == [size |-> 0, limit |-> default]
           Better(b, n) == IsPrefixMatch(rules[n].path, path) /\ Len(rules[n].path) >= b.size
           Rule(n) == [size |-> Len(rules[n].path), limit |-> rules[n].max_requests]
           step == [x \in S \X (1 .. len) |-> IF Better(x[1], x[2]) THEN Rule(x[2]) ELSE x[1]]
           Loop(g) == [n \in 0 .. len |-> IF n = 0 THEN start
                                         ELSE IF Better(g[n - 1], n) THEN Rule(n) ELSE g[n - 1]]
<1>0. len \in Nat /\ start \in S /\ \A n \in 1 .. len : Rule(n) \in S
  BY DEF Table
<1> HIDE DEF S, start, Better, Rule
<1>1. step \in [S \X (1 .. len) -> S]
  BY <1>0
<1>2. PICK f \in [0 .. len -> S] : f[0] = start /\ \A n \in 1 .. len : f[n] = step[<<f[n - 1], n>>]
  <2> HIDE DEF step, len
  <2>1. Loops(S, len, start, step) # {}
    BY <1>0, <1>1, LoopRuns
  <2> QED BY <2>1, Zenon DEF Loops
<1>3. ASSUME NEW n \in 1 .. len PROVE f[n] = IF Better(f[n - 1], n) THEN Rule(n) ELSE f[n - 1]
  <2>1. <<f[n - 1], n>> \in S \X (1 .. len)
    BY <1>0
  <2>2. step[<<f[n - 1], n>>] = IF Better(f[n - 1], n) THEN Rule(n) ELSE f[n - 1]
    BY <2>1
  <2> QED BY <1>2, <2>2
<1>4. f = Loop(f)
  BY <1>0, <1>2, <1>3
<1>5. BestLimit(rules, default, path) = CHOOSE g : g = Loop(g)
  BY DEF BestLimit, Better, Rule, start
<1>6. BestLimit(rules, default, path) = Loop(BestLimit(rules, default, path))
  <2> HIDE DEF Loop
  <2> QED BY <1>4, <1>5
<1> QED
  <2> DEFINE best == BestLimit(rules, default, path)
  <2> HIDE DEF best
  <2>1. best = Loop(best)
    BY <1>6 DEF best
  <2>2. best[0] = start
    BY <1>0, <2>1
  <2>3. ASSUME NEW n \in 1 .. len PROVE best[n] = IF Better(best[n - 1], n) THEN Rule(n) ELSE best[n - 1]
    BY <1>0, <2>1
  <2> QED BY <2>2, <2>3 DEF best, Better, Rule, start

\* The limit that ResolveLimit is left with is that of the last of the longest
\* rules that fit.
LEMMA BestLimitIs ==
    ASSUME NEW C, NEW rules, Table(C, rules), NEW path \in Seq(C), NEW default \in Int,
           \A i \in 1 .. Len(rules) : rules[i].max_requests \in Int
    PROVE  LET limit_ == BestLimit(rules, default, path)[Len(rules)].limit
               fit == {i \in DOMAIN rules : IsPrefixMatch(rules[i].path, path)}
           IN  \/ limit_ = default /\ fit = {}
               \/ \E b \in fit :
                    /\ limit_ = rules[b].max_requests
                    /\ \A i \in fit : \/ Len(rules[i].path) < Len(rules[b].path)
                                      \/ Len(rules[i].path) = Len(rules[b].path) /\ i <= b
<1> DEFINE len == Len(rules)
           f == BestLimit(rules, default, path)
           Size(i) == Len(rules[i].path)
           Fits(i) == IsPrefixMatch(rules[i].path, path)
           LimitAt(i) == rules[i].max_requests
           LastBest(b, n) == \A i \in 1 .. n : Fits(i) => Size(i) < Size(b) \/ (Size(i) = Size(b) /\ i <= b)
           Found(n) == \/ /\ f[n].size = 0 /\ f[n].limit = default
                          /\ \A i \in 1 .. n : ~Fits(i)
                       \/ \E b \in 1 .. n : /\ Fits(b) /\ LastBest(b, n)
                                            /\ f[n].size = Size(b) /\ f[n].limit = LimitAt(b)
           T == {n \in 0 .. len : Found(n)}
<1>1. len \in Nat /\ DOMAIN rules = 1 .. len /\ \A i \in 1 .. len : Size(i) \in Nat
  BY DEF Table
<1>2. /\ f[0] = [size |-> 0, limit |-> default]
      /\ \A n \in 1 .. len : f[n] = IF Fits(n) /\ Size(n) >= f[n - 1].size
                                      THEN [size |-> Size(n), limit |-> LimitAt(n)] ELSE f[n - 1]
  BY BestLimitLoop
<1> HIDE DEF f, Size, Fits, LimitAt
<1>3. Found(0)
  BY <1>2
<1>4. ASSUME NEW n \in 0 .. len - 1, Found(n) PROVE Found(n + 1)
  <2>1. n + 1 \in 1 .. len /\ (n + 1) - 1 = n /\ n + 1 \in 1 .. n + 1
    BY <1>1
  <2>2. f[n + 1] = IF Fits(n + 1) /\ Size(n + 1) >= f[n].size
                     THEN [size |-> Size(n + 1), limit |-> LimitAt(n + 1)] ELSE f[n]
    BY <1>2, <2>1
  <2>3. \A i \in 1 .. n + 1 : i = n + 1 \/ i \in 1 .. n
    OBVIOUS
  <2>4. \A i \in 1 .. n + 1 : Size(i) \in Nat
    BY <1>1, <2>1
  <2>5. CASE Fits(n + 1) /\ Size(n + 1) >= f[n].size
    <3>1. f[n + 1].size = Size(n + 1) /\ f[n + 1].limit = LimitAt(n + 1)
      BY <2>2, <2>5
    <3>2. LastBest(n + 1, n + 1)
      <4>1. CASE f[n].size = 0 /\ \A i \in 1 .. n : ~Fits(i)
        BY <2>3, <4>1
      <4>2. CASE \E b \in 1 .. n : LastBest(b, n) /\ f[n].size = Size(b)
        <5>1. PICK b \in 1 .. n : LastBest(b, n) /\ f[n].size = Size(b)
          BY <4>2
        <5>2. b \in 1 .. n + 1
          OBVIOUS
        <5> QED BY <2>3, <2>4, <2>5, <5>1, <5>2
      <4> QED BY <1>4, <4>1, <4>2
    <3> QED BY <2>1, <2>5, <3>1, <3>2
  <2>6. CASE ~ (Fits(n + 1) /\ Size(n + 1) >= f[n].size)
    <3>1. f[n + 1] = f[n]
      BY <2>2, <2>6
    <3>2. CASE f[n].size = 0 /\ f[n].limit = default /\ \A i \in 1 .. n : ~Fits(i)
      BY <2>1, <2>3, <2>4, <2>6, <3>1, <3>2
    <3>3. CASE \E b \in 1 .. n : /\ Fits(b) /\ LastBest(b, n)
                                 /\ f[n].size = Size(b) /\ f[n].limit = LimitAt(b)
      <4>1. PICK b \in 1 .. n : /\ Fits(b) /\ LastBest(b, n)
                                /\ f[n].size = Size(b) /\ f[n].limit = LimitAt(b)
        BY <3>3
      <4>2. b \in 1 .. n + 1
        OBVIOUS
      <4>3. LastBest(b, n + 1)
        <5>1. Fits(n + 1) => Size(n + 1) < Size(b)
          <6>1. Size(n + 1) \in Nat /\ Size(b) \in Nat
            BY <2>1, <2>4, <4>2
          <6> QED BY <2>6, <4>1, <6>1
        <5>2. ASSUME NEW i \in 1 .. n + 1, Fits(i)
              PROVE  Size(i) < Size(b) \/ (Size(i) = Size(b) /\ i <= b)
          <6>1. CASE i = n + 1
            BY <5>1, <5>2, <6>1
          <6>2. CASE i \in 1 .. n
            BY <4>1, <5>2, <6>2
          <6> QED BY <2>3, <6>1, <6>2
        <5> QED BY <5>2
      <4> QED BY <3>1, <4>1, <4>2, <4>3
    <3> QED BY <1>4, <3>2, <3>3
  <2> QED BY <2>5, <2>6
<1>5. len \in T
  <2>1. 0 \in T /\ \A n \in 0 .. len - 1 : n \in T => n + 1 \in T
    <3> HIDE DEF Found
    <3> QED BY <1>1, <1>3, <1>4
  <2> HIDE DEF T
  <2>2. \A n \in 0 .. len : n \in T
    BY <1>1, <2>1, UpTo
  <2> QED BY <1>1, <2>2
<1>6. Found(len)
  BY <1>5
<1> QED BY <1>1, <1>6 DEF f, Size, Fits, LimitAt

\* ResolveLimit takes the last of the most specific rules, or the default.
LEMMA LimitByMostSpecific ==
    ASSUME NEW C, NEW rules, Table(C, rules), NEW path \in Seq(C), NEW default \in Int,
           \A i \in 1 .. Len(rules) : rules[i].max_requests \in Nat \ {0}
    PROVE  LET best == MostSpecific(rules, DOMAIN rules, path)
               l == ResolveLimit(rules, default, path)
           IN  IF best = {} THEN l = IF default < 1 THEN 1 ELSE default
               ELSE \E i \in best : (\A j \in best : j <= i) /\ l = rules[i].max_requests
<1> DEFINE best == MostSpecific(rules, DOMAIN rules, path)
           fit == {i \in DOMAIN rules : IsPrefixMatch(rules[i].path, path)}
           found == BestLimit(rules, default, path)[Len(rules)].limit
           l == ResolveLimit(rules, default, path)
           Size(i) == Len(rules[i].path)
           LimitAt(i) == rules[i].max_requests
<1>1. best = {i \in fit : \A j \in fit : Size(j) <= Size(i)}
  BY LongestFit
<1>2. \A i \in 1 .. Len(rules) : rules[i].max_requests \in Int
  OBVIOUS
<1>3. \/ found = default /\ fit = {}
      \/ \E b \in fit : /\ found = LimitAt(b)
                        /\ \A i \in fit : Size(i) < Size(b) \/ (Size(i) = Size(b) /\ i <= b)
  BY <1>2, BestLimitIs
<1>4. fit \subseteq Nat /\ \A i \in fit : Size(i) \in Nat /\ LimitAt(i) \in Nat \ {0}
  BY DEF Table
<1>5. l = IF found < 1 THEN 1 ELSE found
  BY DEF ResolveLimit
<1> SUFFICES IF best = {} THEN l = IF default < 1 THEN 1 ELSE default
             ELSE \E i \in best : (\A j \in best : j <= i) /\ l = LimitAt(i)
  OBVIOUS
<1> HIDE DEF best, fit, found, l, Size, LimitAt
<1>6. CASE found = default /\ fit = {}
  <2>1. best = {}
    BY <1>1, <1>6
  <2> QED BY <1>5, <1>6, <2>1
<1>7. CASE \E b \in fit : /\ found = LimitAt(b)
                          /\ \A i \in fit : Size(i) < Size(b) \/ (Size(i) = Size(b) /\ i <= b)
  <2>1. PICK b \in fit : /\ found = LimitAt(b)
                         /\ \A i \in fit : Size(i) < Size(b) \/ (Size(i) = Size(b) /\ i <= b)
    BY <1>7
  <2>2. l = LimitAt(b)
    BY <1>4, <1>5, <2>1
  <2>3. b \in best /\ \A j \in best : j <= b
    BY <1>1, <1>4, <2>1
  <2> QED BY <2>2, <2>3
<1> QED BY <1>3, <1>6, <1>7

\* Match finds a most specific prefix route, if there is one, in whatever order
\* std::sort left the routes.
LEMMA MatchIsMostSpecific ==
    ASSUME NEW C, NEW rules, Table(C, rules), NEW rs \in SortedRoutes(rules), NEW path \in Seq(C)
    PROVE  LET prefixes == {i \in DOMAIN rules : rules[i].match_type = "prefix"}
               best == MostSpecific(rules, prefixes, path)
               m == Match(rs, path)
           IN  IF m = <<>> THEN best = {}
               ELSE \E i \in best : m = <<rules[i]>> /\ IsPrefixMatch(rules[i].path, path)
<1> DEFINE n == Len(rules)
           prefixes == {i \in DOMAIN rules : rules[i].match_type = "prefix"}
           best == MostSpecific(rules, prefixes, path)
           fit == {i \in prefixes : IsPrefixMatch(rules[i].path, path)}
           hits == {i \in 1 .. Len(rs) : rs[i].match_type = "prefix" /\ IsPrefixMatch(rs[i].path, path)}
           Size(i) == Len(rules[i].path)
<1>1. best = {i \in fit : \A j \in fit : Size(j) <= Size(i)}
  BY LongestFit
<1>2. n \in Nat /\ DOMAIN rules = 1 .. n /\ \A i \in 1 .. n : Size(i) \in Nat
  BY DEF Table
<1>3. PICK f \in [1 .. n -> 1 .. n] :
        /\ \A k \in 1 .. n : \E i \in 1 .. n : f[i] = k
        /\ \A i \in 1 .. n - 1 : Size(f[i]) >= Size(f[i + 1])
        /\ rs = [i \in 1 .. n |-> rules[f[i]]]
  BY DEF SortedRoutes, Bijection, Surjection
<1>4. Len(rs) = n /\ \A i \in 1 .. n : rs[i] = rules[f[i]]
  BY <1>2, <1>3
<1>5. hits = {i \in 1 .. n : f[i] \in fit}
  BY <1>2, <1>3, <1>4
<1> HIDE DEF Size
<1>6. ASSUME NEW i \in 1 .. n, NEW j \in i .. n PROVE Size(f[i]) >= Size(f[j])
  <2> DEFINE T == {d \in 0 .. n - i : Size(f[i]) >= Size(f[i + d])}
  <2>1. 0 \in T
    <3>1. f[i] \in 1 .. n /\ i + 0 = i /\ 0 \in 0 .. n - i
      BY <1>2
    <3>2. Size(f[i]) >= Size(f[i + 0])
      BY <1>2, <3>1
    <3> QED BY <3>1, <3>2
  <2>2. ASSUME NEW d \in 0 .. n - i - 1, d \in T PROVE d + 1 \in T
    <3>1. i + d \in 1 .. n - 1 /\ i + d \in 1 .. n /\ i + d + 1 \in 1 .. n /\ i + (d + 1) = i + d + 1
      BY <1>2
    <3>2. Size(f[i + d]) >= Size(f[i + d + 1])
      BY <1>3, <3>1
    <3>5. Size(f[i]) >= Size(f[i + d])
      BY <2>2
    <3>3. Size(f[i]) \in Nat /\ Size(f[i + d]) \in Nat /\ Size(f[i + d + 1]) \in Nat
      BY <1>2, <1>3, <3>1
    <3>4. Size(f[i]) >= Size(f[i + (d + 1)])
      BY <3>1, <3>2, <3>3, <3>5
    <3> QED BY <1>2, <3>4
  <2>3. \A d \in 0 .. n - i : d \in T
    <3> HIDE DEF T
    <3>1. n - i \in Nat
      BY <1>2
    <3> QED BY <2>1, <2>2, <3>1, UpTo
  <2>4. j - i \in 0 .. n - i /\ i + (j - i) = j
    BY <1>2
  <2>5. Size(f[i]) >= Size(f[i + (j - i)])
    BY <2>3, <2>4
  <2> QED BY <2>4, <2>5
<1>7. /\ hits = {} => Match(rs, path) = <<>>
      /\ hits # {} => Match(rs, path) = <<rs[CHOOSE i \in hits : \A j \in hits : i <= j]>>
  BY DEF Match
<1> SUFFICES IF Match(rs, path) = <<>> THEN best = {}
             ELSE \E i \in best : /\ Match(rs, path) = <<rules[i]>>
                                  /\ IsPrefixMatch(rules[i].path, path)
  OBVIOUS
<1>8. fit \subseteq 1 .. n /\ \A i \in fit : IsPrefixMatch(rules[i].path, path)
  BY <1>2
<1> HIDE DEF n, best, fit, hits, prefixes
<1>9. CASE hits = {}
  <2>1. fit = {}
    BY <1>3, <1>5, <1>8, <1>9
  <2> QED BY <1>1, <1>7, <1>9, <2>1
<1>10. CASE hits # {}
  <2> DEFINE h == CHOOSE i \in hits : \A j \in hits : i <= j
  <2>1. hits \subseteq Nat
    BY <1>2, <1>5
  <2>2. \E i \in hits : \A j \in hits : i <= j
    BY <1>10, <2>1, LeastNat
  <2>3. h \in hits /\ \A j \in hits : h <= j
    BY <2>2, Zenon
  <2>4. Match(rs, path) = <<rs[h]>>
    BY <1>7, <1>10
  <2> HIDE DEF h
  <2>5. h \in 1 .. n /\ f[h] \in fit /\ rs[h] = rules[f[h]]
    BY <1>4, <1>5, <2>3
  <2>6. ASSUME NEW k \in fit PROVE Size(k) <= Size(f[h])
    <3>1. PICK j \in 1 .. n : f[j] = k
      BY <1>3, <1>8
    <3>2. h <= j
      BY <1>5, <2>3, <3>1
    <3>3. j \in h .. n
      BY <1>2, <2>5, <3>2
    <3>4. Size(f[h]) >= Size(f[j])
      BY <1>6, <2>5, <3>3
    <3>5. Size(f[h]) \in Nat /\ Size(f[j]) \in Nat
      BY <1>2, <1>3, <2>5
    <3> QED BY <3>1, <3>4, <3>5
  <2>7. f[h] \in best /\ IsPrefixMatch(rules[f[h]].path, path)
    BY <1>1, <1>8, <2>5, <2>6
  <2>8. Match(rs, path) # <<>>
    BY <2>4
  <2> QED BY <2>4, <2>5, <2>7, <2>8
<1> QED BY <1>9, <1>10

\* A path that a rule fits has the rule in front of what is sent upstream, but for
\* a final slash.
LEMMA UpstreamPathOf ==
    ASSUME NEW C, NEW rule \in Seq(C), NEW path \in Seq(C), NEW strip \in BOOLEAN,
           IsPrefixMatch(rule, path), IsPrefix(<<"/">>, path)
    PROVE  LET u == BuildUpstreamPath(rule, path, strip)
               prefix == IF strip THEN rule ELSE <<>>
           IN  /\ IsPrefix(<<"/">>, u)
               /\ prefix \o u \in {path, path \o <<"/">>}
<1> DEFINE u == BuildUpstreamPath(rule, path, strip)
           m == Len(rule)
           rest == SubSeq(path, m + 1, Len(path))
           D == C \cup {"/"}
<1>0. rule \in Seq(D) /\ path \in Seq(D) /\ <<"/">> \in Seq(D)
  OBVIOUS
<1>1. m <= Len(path) /\ \A i \in 1 .. m : rule[i] = path[i]
  BY PrefixAt DEF IsPrefixMatch
<1>2. m \in Nat /\ (Len(path) = m \/ path[m + 1] = "/")
  BY DEF IsPrefixMatch
<1>3. /\ rest \in Seq(D) /\ Len(rest) = Len(path) - m
      /\ \A i \in 1 .. Len(path) - m : rest[i] = path[m + i]
  BY <1>0, <1>1, <1>2
<1>4. rule \o rest = path
  <2>1. rule \o rest \in Seq(D) /\ Len(rule \o rest) = Len(path)
    BY <1>0, <1>2, <1>3
  <2>2. ASSUME NEW i \in 1 .. Len(path) PROVE (rule \o rest)[i] = path[i]
    <3>1. CASE i <= m
      BY <1>0, <1>1, <1>2, <1>3, <3>1
    <3>2. CASE i > m
      <4>1. (rule \o rest)[i] = rest[i - m]
        BY <1>0, <1>2, <1>3, <3>2
      <4>2. i - m \in 1 .. Len(path) - m /\ m + (i - m) = i
        BY <1>2, <3>2
      <4> QED BY <1>3, <4>1, <4>2
    <3> QED BY <1>2, <3>1, <3>2
  <2> QED BY <2>1, <2>2
<1>5. CASE ~strip
  <2>1. u = path
    BY <1>5 DEF BuildUpstreamPath
  <2>2. <<>> \o path = path
    OBVIOUS
  <2> QED BY <1>5, <2>1, <2>2
<1>6. CASE strip /\ Len(path) = m
  <2>1. rest = <<>>
    BY <1>3, <1>6
  <2>2. u = <<"/">>
    BY <1>6, <2>1 DEF BuildUpstreamPath
  <2>3. rule = path
    <3>1. \A i \in 1 .. Len(path) : rule[i] = path[i]
      BY <1>1, <1>6
    <3> QED BY <1>0, <1>6, <3>1
  <2>4. IsPrefix(<<"/">>, <<"/">>)
    BY DEF IsPrefix
  <2> QED BY <1>6, <2>2, <2>3, <2>4
<1>7. CASE strip /\ Len(path) # m
  <2>1. path[m + 1] = "/" /\ Len(rest) >= 1 /\ rest[1] = "/" /\ rest # <<>>
    <3>1. path[m + 1] = "/" /\ 1 \in 1 .. Len(path) - m
      BY <1>1, <1>2, <1>7
    <3>2. rest[1] = path[m + 1]
      BY <1>3, <3>1
    <3> HIDE DEF rest
    <3> QED BY <1>2, <1>3, <3>1, <3>2
  <2>2. u = rest
    BY <1>7, <2>1 DEF BuildUpstreamPath
  <2>3. IsPrefix(<<"/">>, rest)
    <3>1. Len(<<"/">>) = 1 /\ <<"/">>[1] = "/"
      OBVIOUS
    <3>2. \A i \in 1 .. 1 : <<"/">>[i] = rest[i]
      BY <2>1, <3>1
    <3> HIDE DEF rest
    <3> QED BY <1>0, <1>3, <2>1, <3>1, <3>2, PrefixAt
  <2> QED BY <1>4, <1>7, <2>2, <2>3
<1> QED BY <1>2, <1>5, <1>6, <1>7

-----------------------------------------------------------------------------
(* The configuration *)

\* What the filters rely on.
Configured ==
    /\ Table(Characters, config.routes) /\ routes \in SortedRoutes(config.routes)
    /\ \A i \in 1 .. Len(config.routes) : config.routes[i].strip_prefix \in BOOLEAN
    /\ Table(Characters, config.rbac_rules)
    /\ Table(Characters, config.rate_limit_rules)
    /\ \A i \in 1 .. Len(config.rate_limit_rules) : config.rate_limit_rules[i].max_requests \in Nat \ {0}
    /\ config.rate_limit.default_max_requests \in Int
    /\ config.auth.token_ttl_seconds \in Int
    /\ name \in [Users -> Seq(0 .. 255)]

\* A key of a section has the type of its value in the file, or of its default.
LEMMA SectionTyped ==
    ASSUME NEW node, NEW defaults, NEW k \in DOMAIN defaults, NEW T,
           k \in DOMAIN node => node[k] \in {Bad} \cup T, defaults[k] \in T,
           Loader!Converts(Loader!Section(node, defaults))
    PROVE  Loader!Section(node, defaults)[k] \in T
BY DEF Loader!Converts, Loader!Section, Loader!GetOrDefault

\* A list as it was read and accepted.
LEMMA EntriesRead ==
    ASSUME NEW list, NEW defaults, NEW types, Loader!TypedEntries(list, types),
           Loader!Entries(list, defaults) # Bad
    PROVE  LET read == Loader!Entries(list, defaults) IN
           /\ Len(read) \in Nat /\ DOMAIN read = 1 .. Len(read)
           /\ \A i \in 1 .. Len(read) :
                read[i] = Loader!Section(list[i], defaults) /\ Loader!TypedBy(list[i], types)
<1> DEFINE read == Loader!Entries(list, defaults)
           n == Len(list)
<1>1. list # Bad /\ read = [i \in 1 .. n |-> Loader!Section(list[i], defaults)]
  BY DEF Loader!Entries
<1>2. n \in Nat /\ \A i \in 1 .. n : Loader!TypedBy(list[i], types)
  BY <1>1 DEF Loader!TypedEntries
<1>3. read \in Seq({read[i] : i \in 1 .. n}) /\ Len(read) = n
  BY <1>1, <1>2
<1> QED BY <1>1, <1>2, <1>3

\* The path of an entry.
LEMMA PathTyped ==
    ASSUME NEW node, NEW defaults, NEW types, Loader!TypedBy(node, types),
           "path" \in DOMAIN types, types["path"] = Seq(Characters),
           "path" \in DOMAIN defaults, defaults["path"] = <<>>,
           Loader!Converts(Loader!Section(node, defaults))
    PROVE  Loader!Section(node, defaults).path \in Seq(Characters)
<1>1. "path" \in DOMAIN node => node["path"] \in {Bad} \cup Seq(Characters)
  BY DEF Loader!TypedBy
<1>2. defaults["path"] \in Seq(Characters)
  OBVIOUS
<1>3. Loader!Section(node, defaults)["path"] \in Seq(Characters)
  BY <1>1, <1>2, SectionTyped
<1> QED BY <1>3

\* The configuration that main gets from a file it accepts.
LEMMA LoadedIsTyped ==
    ASSUME NEW s \in Starts, Start(s), routes \in SortedRoutes(config.routes)
    PROVE  Configured
<1> DEFINE file == s.file
           a == Loader!AppConfig(file)
           limits == Loader!Child(file, "rate_limit")
           d == Loader!Section(limits, Loader!RateLimitConfig(a.gateway.enable_rate_limit))
                  .default_max_requests
<1>1. Loader!Accepted(a) /\ Loader!LoadFromFile(file) = <<[a EXCEPT !.rbac_rules = Loader!Named(a.rbac_rules)]>>
  BY DEF Start, Loader!LoadFromFile
<1>2. /\ config.auth = a.auth /\ config.rbac_rules = Loader!Named(a.rbac_rules)
      /\ config.rate_limit = a.rate_limit /\ config.rate_limit_rules = a.rate_limit_rules
      /\ config.routes = a.routes /\ name = s.names
  BY <1>1 DEF Start, Loader!AppConfig
<1>3. /\ a.auth = Loader!Section(Loader!Child(file, "auth"), Loader!AuthConfig(a.gateway.enable_auth))
      /\ a.rbac_rules = Loader!Entries(Loader!Child(file, "rbac"), Loader!RbacRuleConfig)
      /\ a.rate_limit = Loader!Section(limits, Loader!RateLimitConfig(a.gateway.enable_rate_limit))
      /\ a.rate_limit_rules = Loader!Entries(Loader!Child(limits, "rules"), Loader!RateLimitRuleConfig(d))
      /\ a.routes = Loader!Entries(Loader!Child(file, "routes"), Loader!RouteConfig)
  BY DEF Loader!AppConfig
<1>4. /\ Loader!Converts(a.auth) /\ Loader!Converts(a.rate_limit)
      /\ Loader!EveryEntry(a.rbac_rules, Loader!RbacRuleAccepted)
      /\ Loader!EveryEntry(a.rate_limit_rules, Loader!RateLimitRuleAccepted)
      /\ Loader!EveryEntry(a.routes, Loader!RouteAccepted)
  BY <1>1 DEF Loader!Accepted, Loader!AuthAccepted
<1>5. config.auth.token_ttl_seconds \in Int
  <2> DEFINE node == Loader!Child(file, "auth")
             defaults == Loader!AuthConfig(a.gateway.enable_auth)
  <2>1. "token_ttl_seconds" \in DOMAIN node => node["token_ttl_seconds"] \in {Bad} \cup Int
    BY FileAssumption DEF Loader!TypedBy
  <2>2. "token_ttl_seconds" \in DOMAIN defaults /\ defaults["token_ttl_seconds"] \in Int
    BY DEF Loader!AuthConfig
  <2> HIDE DEF node, defaults
  <2>3. Loader!Section(node, defaults)["token_ttl_seconds"] \in Int
    BY <1>3, <1>4, <2>1, <2>2, SectionTyped DEF node, defaults
  <2> QED BY <1>2, <1>3, <2>3 DEF node, defaults
<1>6. config.rate_limit.default_max_requests \in Int /\ d \in Int
  <2> DEFINE defaults == Loader!RateLimitConfig(a.gateway.enable_rate_limit)
  <2>1. "default_max_requests" \in DOMAIN limits => limits["default_max_requests"] \in {Bad} \cup Int
    BY FileAssumption DEF Loader!TypedBy
  <2>2. "default_max_requests" \in DOMAIN defaults /\ defaults["default_max_requests"] \in Int
    BY DEF Loader!RateLimitConfig
  <2>3. Loader!Converts(Loader!Section(limits, defaults))
    BY <1>3, <1>4
  <2> HIDE DEF limits, defaults
  <2>4. Loader!Section(limits, defaults)["default_max_requests"] \in Int
    BY <2>1, <2>2, <2>3, SectionTyped
  <2> QED BY <1>2, <1>3, <2>4 DEF defaults, limits
<1> HIDE DEF a, d, limits
<1>7. /\ Table(Characters, config.routes)
      /\ \A i \in 1 .. Len(config.routes) : config.routes[i].strip_prefix \in BOOLEAN
  <2> DEFINE list == Loader!Child(file, "routes")
             types == [path |-> Seq(Characters), strip_prefix |-> BOOLEAN]
             read == Loader!Entries(list, Loader!RouteConfig)
  <2>1. Loader!TypedEntries(list, types)
    BY FileAssumption
  <2>2. read # Bad /\ \A i \in DOMAIN read : Loader!RouteAccepted(read[i])
    BY <1>3, <1>4 DEF Loader!EveryEntry
  <2>3. /\ "path" \in DOMAIN types /\ types["path"] = Seq(Characters)
        /\ "strip_prefix" \in DOMAIN types /\ types["strip_prefix"] = BOOLEAN
    BY Zenon
  <2>4. /\ "path" \in DOMAIN Loader!RouteConfig /\ Loader!RouteConfig["path"] = <<>>
        /\ "strip_prefix" \in DOMAIN Loader!RouteConfig
        /\ Loader!RouteConfig["strip_prefix"] \in BOOLEAN
    BY Zenon DEF Loader!RouteConfig
  <2> HIDE DEF list, types
  <2>5. /\ Len(read) \in Nat /\ DOMAIN read = 1 .. Len(read)
        /\ \A i \in 1 .. Len(read) : /\ read[i] = Loader!Section(list[i], Loader!RouteConfig)
                                     /\ Loader!TypedBy(list[i], types)
    BY <2>1, <2>2, EntriesRead
  <2>6. ASSUME NEW i \in 1 .. Len(read)
        PROVE  /\ read[i].path \in Seq(Characters) /\ read[i].path # <<>>
               /\ read[i].strip_prefix \in BOOLEAN
    <3>1. /\ Loader!Converts(Loader!Section(list[i], Loader!RouteConfig)) /\ read[i].path # <<>>
          /\ Loader!TypedBy(list[i], types) /\ read[i] = Loader!Section(list[i], Loader!RouteConfig)
      BY <2>2, <2>5 DEF Loader!RouteAccepted
    <3> HIDE DEF read
    <3>2. read[i].path \in Seq(Characters)
      BY <2>3, <2>4, <3>1, PathTyped
    <3>3. "strip_prefix" \in DOMAIN list[i] => list[i]["strip_prefix"] \in {Bad} \cup BOOLEAN
      BY <2>3, <3>1 DEF Loader!TypedBy
    <3>4. Loader!Section(list[i], Loader!RouteConfig)["strip_prefix"] \in BOOLEAN
      BY <2>4, <3>1, <3>3, SectionTyped
    <3> QED BY <3>1, <3>2, <3>4
  <2>7. config.routes = read
    BY <1>2, <1>3 DEF list
  <2> HIDE DEF read
  <2> QED BY <2>5, <2>6, <2>7 DEF Table
<1>8. /\ Table(Characters, config.rate_limit_rules)
      /\ \A i \in 1 .. Len(config.rate_limit_rules) :
           config.rate_limit_rules[i].max_requests \in Nat \ {0}
  <2> DEFINE list == Loader!Child(limits, "rules")
             types == [path |-> Seq(Characters), max_requests |-> Int]
             defaults == Loader!RateLimitRuleConfig(d)
             read == Loader!Entries(list, defaults)
  <2>1. Loader!TypedEntries(list, types)
    BY FileAssumption DEF limits
  <2>2. read # Bad /\ \A i \in DOMAIN read : Loader!RateLimitRuleAccepted(read[i])
    BY <1>3, <1>4 DEF Loader!EveryEntry, limits, d
  <2>3. /\ "path" \in DOMAIN types /\ types["path"] = Seq(Characters)
        /\ "max_requests" \in DOMAIN types /\ types["max_requests"] = Int
    BY Zenon
  <2>4. /\ "path" \in DOMAIN defaults /\ defaults["path"] = <<>>
        /\ "max_requests" \in DOMAIN defaults /\ defaults["max_requests"] = d
    BY Zenon DEF Loader!RateLimitRuleConfig
  <2> HIDE DEF list, types, defaults
  <2>5. /\ Len(read) \in Nat /\ DOMAIN read = 1 .. Len(read)
        /\ \A i \in 1 .. Len(read) : /\ read[i] = Loader!Section(list[i], defaults)
                                     /\ Loader!TypedBy(list[i], types)
    BY <2>1, <2>2, EntriesRead
  <2>6. ASSUME NEW i \in 1 .. Len(read)
        PROVE  /\ read[i].path \in Seq(Characters) /\ read[i].path # <<>>
               /\ read[i].max_requests \in Nat \ {0}
    <3>1. /\ Loader!Converts(Loader!Section(list[i], defaults)) /\ read[i].path # <<>>
          /\ read[i].max_requests > 0
          /\ Loader!TypedBy(list[i], types) /\ read[i] = Loader!Section(list[i], defaults)
      BY <2>2, <2>5 DEF Loader!RateLimitRuleAccepted
    <3> HIDE DEF read
    <3>2. read[i].path \in Seq(Characters)
      BY <2>3, <2>4, <3>1, PathTyped
    <3>3. "max_requests" \in DOMAIN list[i] => list[i]["max_requests"] \in {Bad} \cup Int
      BY <2>3, <3>1 DEF Loader!TypedBy
    <3>4. Loader!Section(list[i], defaults)["max_requests"] \in Int
      BY <1>6, <2>4, <3>1, <3>3, SectionTyped
    <3> QED BY <3>1, <3>2, <3>4
  <2>7. config.rate_limit_rules = read
    BY <1>2, <1>3 DEF list, defaults, limits, d
  <2> HIDE DEF read
  <2> QED BY <2>5, <2>6, <2>7 DEF Table
<1>9. Table(Characters, config.rbac_rules)
  <2> DEFINE list == Loader!Child(file, "rbac")
             types == [path |-> Seq(Characters)]
             read == Loader!Entries(list, Loader!RbacRuleConfig)
             named == Loader!Named(read)
  <2>1. Loader!TypedEntries(list, types)
    BY FileAssumption
  <2>2. read # Bad /\ \A i \in DOMAIN read : Loader!RbacRuleAccepted(read[i])
    BY <1>3, <1>4 DEF Loader!EveryEntry
  <2>3. "path" \in DOMAIN types /\ types["path"] = Seq(Characters)
    BY Zenon
  <2>4. "path" \in DOMAIN Loader!RbacRuleConfig /\ Loader!RbacRuleConfig["path"] = <<>>
    BY Zenon DEF Loader!RbacRuleConfig
  <2> HIDE DEF list, types
  <2>5. /\ Len(read) \in Nat /\ DOMAIN read = 1 .. Len(read)
        /\ \A i \in 1 .. Len(read) : /\ read[i] = Loader!Section(list[i], Loader!RbacRuleConfig)
                                     /\ Loader!TypedBy(list[i], types)
    BY <2>1, <2>2, EntriesRead
  <2>6. ASSUME NEW i \in 1 .. Len(read)
        PROVE  read[i].path \in Seq(Characters) /\ read[i].path # <<>>
    <3>1. /\ Loader!Converts(Loader!Section(list[i], Loader!RbacRuleConfig)) /\ read[i].path # <<>>
          /\ Loader!TypedBy(list[i], types) /\ read[i] = Loader!Section(list[i], Loader!RbacRuleConfig)
      BY <2>2, <2>5 DEF Loader!RbacRuleAccepted
    <3> HIDE DEF read
    <3>2. read[i].path \in Seq(Characters)
      BY <2>3, <2>4, <3>1, PathTyped
    <3> QED BY <3>1, <3>2
  <2>7. config.rbac_rules = named
    BY <1>2, <1>3 DEF list
  <2> HIDE DEF read
  <2>8. named = [i \in 1 .. Len(read) |-> [path |-> read[i].path, roles |-> read[i].roles \ {<<>>}]]
    BY <2>5 DEF Loader!Named
  <2> HIDE DEF named
  <2>9. named \in Seq({named[i] : i \in 1 .. Len(read)}) /\ Len(named) = Len(read)
    <3>1. DOMAIN named = 1 .. Len(read) /\ named = [i \in 1 .. Len(read) |-> named[i]]
      BY <2>8, Zenon
    <3> QED BY <2>5, <3>1
  <2>10. \A i \in 1 .. Len(read) : named[i].path = read[i].path
    BY <2>8
  <2> QED BY <2>5, <2>6, <2>7, <2>9, <2>10 DEF Table
<1>10. name \in [Users -> Seq(0 .. 255)]
  BY <1>2, FileAssumption
<1> QED BY <1>5, <1>6, <1>7, <1>8, <1>9, <1>10 DEF Configured

-----------------------------------------------------------------------------
(* Steps *)

\* The configuration does not change.
LEMMA ConfigStays ==
    ASSUME [Next]_vars
    PROVE  config' = config /\ routes' = routes /\ name' = name
<1> USE DEF frame
<1>1. ASSUME NEW w \in Workers, Run(w) PROVE config' = config /\ routes' = routes /\ name' = name
  BY <1>1 DEF Run, RequireAuth, Handle, Authenticate, CheckLimit, Forward, Login, IssueToken, Return
<1>2. ASSUME NEW w \in Workers, NEW r \in Requests, NEW x, Arrive(w, r, x)
      PROVE  config' = config /\ routes' = routes /\ name' = name
  BY <1>2 DEF Arrive
<1>3. CASE Tick \/ UNCHANGED vars
  BY <1>3 DEF Tick, vars
<1>4. ASSUME NEW u \in Users, NEW r \in Roles, ChangeRole(u, r)
      PROVE  config' = config /\ routes' = routes /\ name' = name
  BY <1>4 DEF ChangeRole
<1> QED BY <1>1, <1>2, <1>3, <1>4 DEF Next

\* What AuthFilter::Check comes to: the caller goes on without an identity, the
\* request is refused, or the caller goes on with the identity in the token.
Token(w) == IF req[w].token = NoToken THEN <<>> ELSE ValidateToken(req[w].token)
Exempt(w) == ~config.auth.enabled \/ req[w].path \in config.auth.public_paths
RoleFits(w) ==
    ~(config.auth.rbac_enabled /\ ~IsRoleAllowed(config.rbac_rules, req[w].path, Token(w)[1].role))
Identified(w) ==
    identity' = [identity EXCEPT ![w] = <<[user_id |-> Token(w)[1].user_id,
                     username |-> Token(w)[1].username, role |-> Token(w)[1].role]>>]

\* AuthCheck goes one of four ways.
LEMMA AuthCheckDoes ==
    ASSUME NEW w, NEW ACTION Allowed, AuthCheck(w, Allowed)
    PROVE  \/ Allowed /\ identity' = identity /\ Exempt(w)
           \/ Answer(w, "unauthorized") /\ identity' = identity /\ Token(w) = <<>>
           \/ /\ Answer(w, "forbidden") /\ identity' = identity /\ Token(w) # <<>> /\ ~RoleFits(w)
           \/ Allowed /\ Identified(w) /\ Token(w) # <<>> /\ RoleFits(w)
BY Zenon DEF AuthCheck, Exempt, Token, RoleFits, Identified

\* A worker's step, by what it does to the worker's frame.
LEMMA RunDoes ==
    ASSUME Typed, NEW w \in Workers, Run(w)
    PROVE  /\ clock' = clock /\ role' = role /\ lastHad' = lastHad
           /\ Typed'
           /\ \A v \in Workers \ {w} :
                /\ pc'[v] = pc[v] /\ req'[v] = req[v] /\ match'[v] = match[v] /\ limit'[v] = limit[v]
                /\ identity'[v] = identity[v] /\ reply'[v] = reply[v] /\ foundAt'[v] = foundAt[v]
<1> USE DEF Typed, Goto, Answer, Steps
<1>1. CASE RequireAuth(w)
  <2>1. \/ Answer(w, "guarded page") /\ identity' = identity
        \/ Answer(w, "unauthorized") /\ identity' = identity
        \/ Answer(w, "forbidden") /\ identity' = identity
        \/ Answer(w, "guarded page") /\ Identified(w)
    BY <1>1, AuthCheckDoes DEF RequireAuth
  <2> QED BY <1>1, <2>1 DEF RequireAuth, Identified
<1>2. CASE Handle(w)
  BY <1>2 DEF Handle
<1>3. CASE Authenticate(w)
  <2>1. \/ Goto(w, "limit") /\ reply' = reply /\ identity' = identity
        \/ Answer(w, "unauthorized") /\ identity' = identity
        \/ Answer(w, "forbidden") /\ identity' = identity
        \/ Goto(w, "limit") /\ reply' = reply /\ Identified(w)
    BY <1>3, AuthCheckDoes DEF Authenticate
  <2> QED BY <1>3, <2>1 DEF Authenticate, Identified
<1>4. CASE CheckLimit(w)
  BY <1>4 DEF CheckLimit
<1>5. CASE Forward(w)
  BY <1>5 DEF Forward
<1>6. CASE Login(w)
  <2>1. /\ UNCHANGED <<clock, role, req, match, limit, lastHad, skew>>
        /\ \/ UNCHANGED <<identity, foundAt>> /\ \E a : Answer(w, a)
           \/ /\ \E i : identity' = [identity EXCEPT ![w] = i]
              /\ foundAt' = [foundAt EXCEPT ![w] = clock]
              /\ Goto(w, "issue") /\ reply' = reply
    BY <1>6, Zenon DEF Login
  <2> QED BY <2>1
<1>7. CASE IssueToken(w)
  <2>1. skew' \in Nat
    <3>1. clock - foundAt[w] \in Int /\ skew' = IF clock - foundAt[w] > skew THEN clock - foundAt[w] ELSE skew
      BY <1>7 DEF IssueToken
    <3> QED BY <3>1
  <2> QED BY <1>7, <2>1 DEF IssueToken
<1>8. CASE Return(w)
  BY <1>8 DEF Return
<1> QED BY <1>1, <1>2, <1>3, <1>4, <1>5, <1>6, <1>7, <1>8 DEF Run

\* A request that comes in.
LEMMA ArriveDoes ==
    ASSUME Typed, NEW w \in Workers, NEW r \in Requests, NEW x, Arrive(w, r, x)
    PROVE  /\ Typed'
           /\ UNCHANGED <<clock, role, tokens, match, identity, limit, foundAt, lastHad, skew>>
           /\ pc[w] = "idle" /\ pc'[w] \in {"done", "guard", "handle"}
           /\ req'[w].path = r.path /\ req'[w].token = x
           /\ \/ reply'[w] = "page" /\ pc'[w] = "done"
              \/ reply'[w] = reply[w] /\ pc'[w] # "done"
           /\ \A v \in Workers \ {w} : pc'[v] = pc[v] /\ req'[v] = req[v] /\ reply'[v] = reply[v]
BY DEF Arrive, Typed, Goto, Answer, Steps

\* The part of FrameInv about one worker.
FrameOf(w) ==
    /\ pc[w] # "done" => reply[w] = "none"
    /\ pc[w] # "idle" => \E r \in Requests : req[w].path = r.path
    /\ pc[w] \in {"idle", "guard", "handle"} => match[w] = <<>>
    /\ pc[w] \in {"idle", "guard", "handle", "auth"} => identity[w] = <<>>
    /\ pc[w] \in {"idle", "guard", "handle", "auth", "limit"} => limit[w] = 0
    /\ req[w].token \in {k.text : k \in tokens} \cup {NoToken}

\* No step takes a token away.
LEMMA TokensGrow ==
    ASSUME Typed, NEW w \in Workers, Run(w)
    PROVE  tokens \subseteq tokens'
BY DEF Run, RequireAuth, Handle, Authenticate, CheckLimit, Forward, Login, IssueToken, Return

\* A worker's own step keeps FrameInv for it.
LEMMA RunFrame ==
    ASSUME Typed, NEW w \in Workers, FrameOf(w), Run(w)
    PROVE  FrameOf(w)'
<1> DEFINE Kept == req[w].token \in {k.text : k \in tokens'} \cup {NoToken}
<1>0. Kept
  <2>1. \A k \in tokens : k \in tokens'
    BY TokensGrow
  <2> QED BY <2>1 DEF FrameOf
<1> USE DEF Goto, Answer, Typed, FrameOf
<1>1. CASE RequireAuth(w)
  <2>1. \/ Answer(w, "guarded page") /\ identity' = identity
        \/ Answer(w, "unauthorized") /\ identity' = identity
        \/ Answer(w, "forbidden") /\ identity' = identity
        \/ Answer(w, "guarded page") /\ Identified(w)
    BY <1>1, AuthCheckDoes DEF RequireAuth
  <2>2. pc'[w] = "done" /\ req'[w] = req[w]
    BY <1>1, <2>1 DEF RequireAuth
  <2> QED BY <1>0, <1>1, <2>2 DEF RequireAuth
<1>2. CASE Handle(w)
  <2>1. /\ pc[w] = "handle" /\ req'[w] = req[w] /\ identity' = identity /\ limit' = limit
        /\ \/ pc'[w] = "done"
           \/ pc'[w] = "auth" /\ reply' = reply
    BY <1>2 DEF Handle
  <2> QED BY <1>0, <2>1
<1>3. CASE Authenticate(w)
  <2>1. \/ Goto(w, "limit") /\ reply' = reply
        \/ Answer(w, "unauthorized") \/ Answer(w, "forbidden")
    BY <1>3, AuthCheckDoes DEF Authenticate
  <2>2. /\ pc[w] = "auth" /\ req' = req /\ limit' = limit
        /\ pc'[w] = "done" \/ (pc'[w] = "limit" /\ reply' = reply)
    BY <1>3, <2>1 DEF Authenticate
  <2> QED BY <1>0, <2>2
<1>4. CASE CheckLimit(w)
  <2>1. /\ pc[w] = "limit" /\ req' = req
        /\ pc'[w] = "done" \/ (pc'[w] = "forward" /\ reply' = reply)
    BY <1>4 DEF CheckLimit
  <2> QED BY <1>0, <2>1
<1>5. CASE Forward(w)
  <2>1. /\ pc[w] = "forward" /\ req' = req
        /\ pc'[w] = "done" \/ (pc'[w] = "login" /\ reply' = reply)
    BY <1>5 DEF Forward
  <2> QED BY <1>0, <2>1
<1>6. CASE Login(w)
  <2>1. /\ pc[w] = "login" /\ req' = req
        /\ pc'[w] = "done" \/ (pc'[w] = "issue" /\ reply' = reply)
    BY <1>6 DEF Login
  <2> QED BY <1>0, <2>1
<1>7. CASE IssueToken(w)
  <2>1. pc[w] = "issue" /\ req' = req /\ pc'[w] = "done"
    BY <1>7 DEF IssueToken
  <2> QED BY <1>0, <2>1
<1>8. CASE Return(w)
  <2>1. /\ pc'[w] = "idle" /\ req'[w] = NoRequest /\ match'[w] = <<>> /\ identity'[w] = <<>>
        /\ limit'[w] = 0 /\ reply'[w] = "none"
    BY <1>8 DEF Return
  <2>2. NoRequest.token = NoToken
    BY DEF NoRequest
  <2> QED BY <2>1, <2>2
<1> QED BY <1>1, <1>2, <1>3, <1>4, <1>5, <1>6, <1>7, <1>8 DEF Run

\* Every step keeps Typed and FrameInv.
LEMMA FrameStep == ASSUME Typed, FrameInv, [Next]_vars PROVE Typed' /\ FrameInv'
<1> USE DEF frame
<1>0. FrameInv <=> \A v \in Workers : FrameOf(v)
  BY DEF FrameInv, FrameOf
<1>1. FrameInv' <=> \A v \in Workers : FrameOf(v)'
  BY DEF FrameInv, FrameOf
<1>2. ASSUME NEW w \in Workers, Run(w) PROVE Typed' /\ FrameInv'
  <2>1. FrameOf(w)'
    BY <1>0, <1>2, RunFrame
  <2>2. ASSUME NEW v \in Workers \ {w} PROVE FrameOf(v)'
    <3>1. /\ pc'[v] = pc[v] /\ req'[v] = req[v] /\ match'[v] = match[v] /\ limit'[v] = limit[v]
          /\ identity'[v] = identity[v] /\ reply'[v] = reply[v]
      BY <1>2, RunDoes
    <3>2. \A k \in tokens : k \in tokens'
      BY <1>2, TokensGrow
    <3> QED BY <1>0, <3>1, <3>2 DEF FrameOf
  <2> QED BY <1>1, <1>2, <2>1, <2>2, RunDoes
<1>3. ASSUME NEW w \in Workers, NEW r \in Requests, NEW x \in {k.text : k \in tokens} \cup {NoToken},
             Arrive(w, r, x)
      PROVE  Typed' /\ FrameInv'
  <2>1. FrameOf(w)'
    BY <1>0, <1>3, ArriveDoes DEF FrameOf
  <2>2. ASSUME NEW v \in Workers \ {w} PROVE FrameOf(v)'
    BY <1>0, <1>3, ArriveDoes DEF FrameOf
  <2> QED BY <1>1, <1>3, <2>1, <2>2, ArriveDoes
<1>4. CASE Tick
  BY <1>4 DEF Tick, Typed, FrameInv
<1>5. ASSUME NEW u \in Users, NEW r \in Roles, ChangeRole(u, r) PROVE Typed' /\ FrameInv'
  <2>1. Typed'
    BY <1>5 DEF ChangeRole, Typed
  <2>2. FrameInv'
    BY <1>5 DEF ChangeRole, FrameInv
  <2> QED BY <2>1, <2>2
<1>6. CASE UNCHANGED vars
  BY <1>6 DEF vars, Typed, FrameInv
<1> QED BY <1>2, <1>3, <1>4, <1>5, <1>6 DEF Next

-----------------------------------------------------------------------------
(* Tokens *)

\* What the user table loses is remembered.
LEMMA RoleStays ==
    ASSUME Typed, \/ UNCHANGED <<role, lastHad>>
                  \/ \E v \in Users, q \in Roles : ChangeRole(v, q),
           NEW u \in Users, NEW r \in Roles, NEW time \in Int, time <= clock, HadSince(u, r, time)
    PROVE  HadSince(u, r, time)'
<1>1. CASE UNCHANGED <<role, lastHad>>
  BY <1>1 DEF HadSince
<1>2. ASSUME NEW v \in Users, NEW q \in Roles, ChangeRole(v, q) PROVE HadSince(u, r, time)'
  <2>1. role' = [role EXCEPT ![v] = q] /\ lastHad' = [lastHad EXCEPT ![v][role[v]] = clock]
    BY <1>2 DEF ChangeRole
  <2>2. clock # -1 /\ clock \in Nat /\ role[v] \in Roles
    BY DEF Typed
  <2>3. CASE u = v /\ r = role[v]
    <3>1. lastHad'[u][r] = clock
      BY <2>1, <2>2, <2>3 DEF Typed
    <3> QED BY <2>2, <3>1 DEF HadSince
  <2>4. CASE u = v /\ r # role[v]
    <3>1. lastHad'[u][r] = lastHad[u][r]
      BY <2>1, <2>2, <2>4 DEF Typed
    <3> QED BY <2>4, <3>1 DEF HadSince
  <2>5. CASE u # v
    <3>1. lastHad'[u] = lastHad[u] /\ role'[u] = role[u]
      BY <2>1, <2>2, <2>5 DEF Typed
    <3> QED BY <3>1 DEF HadSince
  <2> QED BY <2>3, <2>4, <2>5
<1> QED BY <1>1, <1>2

\* The parts of TokenInv about one token and one worker.
TokenOf(k) ==
    LET ttl == config.auth.token_ttl_seconds
        issued == k.exp - ttl
    IN  /\ IsUser(k.of) /\ k.exp \in Int /\ issued \in 0 .. clock
        /\ HadSince(k.of.user_id, k.of.role, issued - skew)
        /\ k.text = TokenText(k.of.user_id, k.of.username, k.of.role, issued, ttl)
IssueOf(w) ==
    pc[w] = "issue" =>
      /\ identity[w] # <<>> /\ IsUser(identity[w][1]) /\ foundAt[w] <= clock
      /\ HadSince(identity[w][1].user_id, identity[w][1].role, foundAt[w])

\* A step that makes no token keeps the tokens as they are.
LEMMA TokenKept ==
    ASSUME Typed, Typed', Configured, config' = config, clock <= clock', skew <= skew',
           \/ UNCHANGED <<role, lastHad>>
           \/ \E v \in Users, q \in Roles : ChangeRole(v, q),
           NEW k, TokenOf(k)
    PROVE  TokenOf(k)'
<1> DEFINE ttl == config.auth.token_ttl_seconds
           issued == k.exp - ttl
<1>1. /\ IsUser(k.of) /\ k.exp \in Int /\ issued \in 0 .. clock
      /\ HadSince(k.of.user_id, k.of.role, issued - skew)
      /\ k.text = TokenText(k.of.user_id, k.of.username, k.of.role, issued, ttl)
  BY DEF TokenOf
<1>2. /\ ttl \in Int /\ clock \in Nat /\ clock' \in Nat /\ skew \in Nat /\ skew' \in Nat
      /\ k.of.user_id \in Users /\ k.of.role \in Roles
  BY <1>1 DEF Typed, Configured, IsUser
<1>3. issued - skew \in Int /\ issued - skew <= clock /\ issued - skew' <= issued - skew
  BY <1>1, <1>2
<1>4. PICK time \in Int : time = issued - skew
  BY <1>3
<1>5. HadSince(k.of.user_id, k.of.role, time)
  BY <1>1, <1>4
<1>6. HadSince(k.of.user_id, k.of.role, time)'
  BY <1>2, <1>3, <1>4, <1>5, RoleStays
<1>7. issued' = issued /\ ttl' = ttl
  OBVIOUS
<1>8. HadSince(k.of.user_id, k.of.role, issued - skew)'
  <2>1. lastHad'[k.of.user_id][k.of.role] \in Int
    BY <1>2 DEF Typed
  <2>2. \/ role'[k.of.user_id] = k.of.role
        \/ /\ lastHad'[k.of.user_id][k.of.role] # -1
           /\ time <= lastHad'[k.of.user_id][k.of.role]
    BY <1>6 DEF HadSince
  <2>3. issued - skew' <= time /\ issued - skew' \in Int
    BY <1>1, <1>2, <1>4
  <2>4. \/ role'[k.of.user_id] = k.of.role
        \/ /\ lastHad'[k.of.user_id][k.of.role] # -1
           /\ issued - skew' <= lastHad'[k.of.user_id][k.of.role]
    BY <2>1, <2>2, <2>3
  <2> QED BY <1>7, <2>4 DEF HadSince
<1>9. issued \in 0 .. clock'
  BY <1>1, <1>2
<1> QED BY <1>1, <1>7, <1>8, <1>9 DEF TokenOf

\* A record that Login has found stays good, too.
LEMMA IssueKept ==
    ASSUME Typed, Typed', clock <= clock',
           \/ UNCHANGED <<role, lastHad>>
           \/ \E v \in Users, q \in Roles : ChangeRole(v, q),
           NEW w \in Workers, pc'[w] = pc[w], identity'[w] = identity[w], foundAt'[w] = foundAt[w],
           IssueOf(w)
    PROVE  IssueOf(w)'
<1> SUFFICES ASSUME pc'[w] = "issue"
             PROVE  /\ identity'[w] # <<>> /\ IsUser(identity'[w][1]) /\ foundAt'[w] <= clock'
                    /\ HadSince(identity[w][1].user_id, identity[w][1].role, foundAt[w])'
  BY DEF IssueOf, IsUser
<1>1. /\ identity[w] # <<>> /\ IsUser(identity[w][1]) /\ foundAt[w] <= clock
      /\ HadSince(identity[w][1].user_id, identity[w][1].role, foundAt[w])
  BY DEF IssueOf
<1>2. \E time \in Int : time = foundAt[w]
  BY DEF Typed
<1> PICK record : record = identity[w][1]
  OBVIOUS
<1> PICK time \in Int : time = foundAt[w]
  BY <1>2
<1>3. IsUser(record) /\ time <= clock /\ HadSince(record.user_id, record.role, time)
  BY <1>1
<1>4. HadSince(record.user_id, record.role, time)'
  BY <1>3, RoleStays DEF IsUser
<1>5. identity'[w][1] = record /\ foundAt'[w] = time
  OBVIOUS
<1>6. HadSince(identity[w][1].user_id, identity[w][1].role, foundAt[w])'
  BY <1>4, <1>5 DEF HadSince
<1>7. foundAt[w] <= clock'
  BY <1>1 DEF Typed
<1> QED BY <1>1, <1>5, <1>6, <1>7

\* IssueToken makes a token for the record that Login found.
LEMMA TokenIssued ==
    ASSUME Typed, Typed', Configured, config' = config, NEW w \in Workers, IssueOf(w),
           IssueToken(w), NEW k \in tokens' \ tokens
    PROVE  TokenOf(k)'
<1> DEFINE record == identity[w][1]
           ttl == config.auth.token_ttl_seconds
<1>1. /\ k = [text |-> TokenText(record.user_id, record.username, record.role, clock, ttl),
              of |-> record, exp |-> clock + ttl]
      /\ skew' = IF clock - foundAt[w] > skew THEN clock - foundAt[w] ELSE skew
      /\ clock' = clock /\ role' = role /\ lastHad' = lastHad
  BY Zenon DEF IssueToken
<1>2. IsUser(record) /\ foundAt[w] <= clock /\ HadSince(record.user_id, record.role, foundAt[w])
  BY DEF IssueOf, IssueToken
<1>3. k.of = record /\ k.exp = clock + ttl
      /\ k.text = TokenText(record.user_id, record.username, record.role, clock, ttl)
  BY <1>1
<1>4. clock \in Nat /\ ttl \in Int /\ foundAt[w] \in Nat /\ skew \in Nat /\ skew' \in Nat
  BY DEF Typed, Configured
<1> HIDE DEF record, ttl
<1>5. k.exp - ttl = clock /\ k.exp \in Int
  BY <1>3, <1>4
<1>6. clock - skew' <= foundAt[w] /\ clock - skew' \in Int
  BY <1>1, <1>4
<1>7. \/ role'[record.user_id] = record.role
      \/ /\ lastHad'[record.user_id][record.role] # -1
         /\ clock - skew' <= lastHad'[record.user_id][record.role]
  <2>1. lastHad[record.user_id][record.role] \in Int
    BY <1>2 DEF Typed, IsUser
  <2>2. \/ role[record.user_id] = record.role
        \/ /\ lastHad[record.user_id][record.role] # -1
           /\ foundAt[w] <= lastHad[record.user_id][record.role]
    BY <1>2 DEF HadSince
  <2> QED BY <1>1, <1>4, <1>6, <2>1, <2>2
<1>8. ttl = config'.auth.token_ttl_seconds
  BY DEF ttl
<1>9. HadSince(k.of.user_id, k.of.role, clock - skew)'
  BY <1>1, <1>3, <1>7 DEF HadSince
<1>10. k.exp - config'.auth.token_ttl_seconds = clock'
  BY <1>1, <1>5, <1>8
<1>11. HadSince(k.of.user_id, k.of.role, k.exp - config.auth.token_ttl_seconds - skew)'
  BY <1>9, <1>10
<1>12. /\ IsUser(k.of) /\ k.exp \in Int /\ k.exp - config'.auth.token_ttl_seconds \in 0 .. clock'
       /\ k.text = TokenText(k.of.user_id, k.of.username, k.of.role,
                             k.exp - config'.auth.token_ttl_seconds, config'.auth.token_ttl_seconds)
  BY <1>1, <1>2, <1>3, <1>4, <1>5, <1>8
<1> QED BY <1>11, <1>12 DEF TokenOf

\* The record that Login finds is one of the user table.
LEMMA RecordFound ==
    ASSUME Typed, Configured, NEW w \in Workers, Login(w)
    PROVE  IssueOf(w)'
<1> SUFFICES ASSUME pc'[w] = "issue" PROVE IssueOf(w)'
  BY DEF IssueOf
<1>1. PICK u \in Users :
        /\ identity' = [identity EXCEPT ![w] = <<[user_id |-> u, username |-> name[u], role |-> role[u]]>>]
        /\ foundAt' = [foundAt EXCEPT ![w] = clock] /\ clock' = clock /\ role' = role
  BY DEF Login, Answer, Goto, Typed
<1>2. /\ identity'[w] = <<[user_id |-> u, username |-> name[u], role |-> role[u]]>>
      /\ foundAt'[w] = clock /\ clock \in Nat
  BY <1>1 DEF Typed
<1>3. /\ identity'[w] # <<>> /\ identity'[w][1].user_id = u /\ identity'[w][1].username = name[u]
      /\ identity'[w][1].role = role[u]
  BY <1>2
<1>4. role[u] \in Roles /\ name[u] \in Seq(0 .. 255)
  BY DEF Typed, Configured
<1>5. IsUser(identity[w][1])'
  <2>1. identity'[w][1] = [user_id |-> u, username |-> name[u], role |-> role[u]]
    BY <1>2
  <2> QED BY <1>4, <2>1 DEF IsUser
<1>6. HadSince(identity[w][1].user_id, identity[w][1].role, foundAt[w])'
  BY <1>1, <1>3 DEF HadSince
<1>7. foundAt'[w] <= clock'
  BY <1>1, <1>2
<1> QED BY <1>3, <1>5, <1>6, <1>7 DEF IssueOf

\* Every step keeps TokenInv.
LEMMA TokenStep ==
    ASSUME Typed, Configured, TokenInv, Typed', [Next]_vars
    PROVE  TokenInv'
<1> USE DEF frame
<1>0. config' = config
  BY ConfigStays
<1>1. (\A k \in tokens : TokenOf(k)) /\ (\A w \in Workers : IssueOf(w))
  BY DEF TokenInv, TokenOf, IssueOf
<1> SUFFICES (\A k \in tokens' : TokenOf(k)') /\ (\A w \in Workers : IssueOf(w)')
  BY DEF TokenInv, TokenOf, IssueOf
<1>2. clock \in Nat /\ skew \in Nat /\ clock' \in Nat /\ skew' \in Nat
  BY DEF Typed
<1>3. ASSUME NEW w \in Workers, Run(w)
      PROVE  (\A k \in tokens' : TokenOf(k)') /\ (\A v \in Workers : IssueOf(v)')
  <2>1. /\ clock' = clock /\ role' = role /\ lastHad' = lastHad
        /\ \A v \in Workers \ {w} : /\ pc'[v] = pc[v] /\ identity'[v] = identity[v]
                                    /\ foundAt'[v] = foundAt[v]
    BY <1>3, RunDoes
  <2>2. \A v \in Workers \ {w} : IssueOf(v)'
    BY <1>1, <1>2, <2>1, IssueKept
  <2>3. CASE IssueToken(w)
    <3>1. pc'[w] = "done" /\ skew <= skew'
      BY <1>2, <2>3 DEF IssueToken, Answer, Goto, Typed
    <3>2. \A k \in tokens' : k \in tokens => TokenOf(k)'
      BY <1>0, <1>1, <1>2, <2>1, <3>1, TokenKept
    <3>3. \A k \in tokens' \ tokens : TokenOf(k)'
      BY <1>0, <1>1, <2>3, TokenIssued
    <3> QED BY <2>2, <3>1, <3>2, <3>3 DEF IssueOf
  <2>4. CASE ~IssueToken(w)
    <3>1. tokens' = tokens /\ skew' = skew
      BY <1>3, <2>4 DEF Run, RequireAuth, Handle, Authenticate, CheckLimit, Forward, Login, Return
    <3>2. \A k \in tokens' : TokenOf(k)'
      BY <1>0, <1>1, <1>2, <2>1, <3>1, TokenKept
    <3>3. CASE Login(w)
      BY <2>2, <3>2, <3>3, RecordFound
    <3>4. CASE RequireAuth(w) \/ Authenticate(w)
      <4>1. pc'[w] # "issue"
        <5>1. CASE RequireAuth(w)
          BY <5>1, AuthCheckDoes DEF RequireAuth, Answer, Goto, Typed
        <5>2. CASE Authenticate(w)
          <6>1. Goto(w, "limit") \/ Answer(w, "unauthorized") \/ Answer(w, "forbidden")
            BY <5>2, AuthCheckDoes DEF Authenticate
          <6> QED BY <6>1 DEF Answer, Goto, Typed
        <5> QED BY <3>4, <5>1, <5>2
      <4> QED BY <2>2, <3>2, <4>1 DEF IssueOf
    <3>5. CASE Handle(w) \/ CheckLimit(w) \/ Forward(w) \/ Return(w)
      <4>1. pc'[w] # "issue"
        <5>1. CASE Handle(w)
          BY <5>1 DEF Handle, Answer, Goto, Typed
        <5>2. CASE CheckLimit(w)
          BY <5>2 DEF CheckLimit, Answer, Goto, Typed
        <5>3. CASE Forward(w)
          BY <5>3 DEF Forward, Answer, Goto, Typed
        <5>4. CASE Return(w)
          BY <5>4 DEF Return, Goto, Typed
        <5> QED BY <3>5, <5>1, <5>2, <5>3, <5>4
      <4> QED BY <2>2, <3>2, <4>1 DEF IssueOf
    <3> QED BY <1>3, <2>4, <3>3, <3>4, <3>5 DEF Run
  <2> QED BY <2>3, <2>4
<1>4. ASSUME NEW w \in Workers, NEW r \in Requests, NEW x, Arrive(w, r, x)
      PROVE  (\A k \in tokens' : TokenOf(k)') /\ (\A v \in Workers : IssueOf(v)')
  <2>1. /\ UNCHANGED <<clock, role, tokens, identity, foundAt, lastHad, skew>>
        /\ pc'[w] # "issue" /\ \A v \in Workers \ {w} : pc'[v] = pc[v]
    BY <1>4, ArriveDoes
  <2>2. \A k \in tokens' : TokenOf(k)'
    BY <1>0, <1>1, <1>2, <2>1, TokenKept
  <2>3. \A v \in Workers \ {w} : IssueOf(v)'
    BY <1>1, <1>2, <2>1, IssueKept
  <2> QED BY <2>1, <2>2, <2>3 DEF IssueOf
<1>5. ASSUME \/ Tick
             \/ \E u \in Users, r \in Roles : ChangeRole(u, r)
             \/ UNCHANGED vars
      PROVE  (\A k \in tokens' : TokenOf(k)') /\ (\A v \in Workers : IssueOf(v)')
  <2>1. /\ clock <= clock' /\ skew' = skew /\ tokens' = tokens /\ pc' = pc
        /\ identity' = identity /\ foundAt' = foundAt
        /\ \/ UNCHANGED <<role, lastHad>>
           \/ \E u \in Users, r \in Roles : ChangeRole(u, r)
    BY <1>2, <1>5 DEF Tick, ChangeRole, vars
  <2>2. \A k \in tokens' : TokenOf(k)'
    BY <1>0, <1>1, <1>2, <2>1, TokenKept
  <2>3. \A v \in Workers : IssueOf(v)'
    BY <1>1, <2>1, IssueKept
  <2> QED BY <2>2, <2>3
<1> QED BY <1>3, <1>4, <1>5 DEF Next

\* The configuration is as the loader made it, and AccessInv holds in every state.
THEOREM AccessInvHolds == Spec => [](Configured /\ AccessInv)
<1>1. ASSUME Init PROVE Configured /\ AccessInv
  <2>1. Configured
    BY <1>1, LoadedIsTyped DEF Init
  <2>2. Typed
    BY <1>1 DEF Init, Typed, Steps
  <2>3. FrameInv
    BY <1>1 DEF Init, FrameInv, NoRequest
  <2>4. TokenInv
    BY <1>1 DEF Init, TokenInv
  <2> QED BY <2>1, <2>2, <2>3, <2>4 DEF AccessInv
<1>2. Configured /\ AccessInv /\ [Next]_vars => (Configured /\ AccessInv)'
  <2> SUFFICES ASSUME Configured, AccessInv, [Next]_vars PROVE (Configured /\ AccessInv)'
    OBVIOUS
  <2>1. Configured'
    BY ConfigStays DEF Configured
  <2>2. Typed' /\ FrameInv'
    BY FrameStep DEF AccessInv
  <2> QED BY <2>1, <2>2, TokenStep DEF AccessInv
<1> QED BY <1>1, <1>2, PTL DEF Spec

-----------------------------------------------------------------------------
(* Routes *)

Quiet(w) ==
    /\ pc'[w] = pc[w] /\ req'[w] = req[w] /\ match'[w] = match[w] /\ identity'[w] = identity[w]
    /\ limit'[w] = limit[w] /\ reply'[w] = reply[w]

\* What a step is to one worker: its own, the arrival of its request, or nothing.
LEMMA StepOf ==
    ASSUME Typed, [Next]_vars, NEW w \in Workers
    PROVE  Run(w) \/ Quiet(w) \/ \E r \in Requests : \E x : Arrive(w, r, x)
<1>1. ASSUME NEW v \in Workers, Run(v) PROVE Run(w) \/ Quiet(w)
  <2>1. CASE v = w
    BY <1>1, <2>1
  <2>2. CASE v # w
    BY <1>1, <2>2, RunDoes DEF Quiet
  <2> QED BY <2>1, <2>2
<1>2. ASSUME NEW v \in Workers, NEW r \in Requests, NEW x, Arrive(v, r, x)
      PROVE  Arrive(w, r, x) \/ Quiet(w)
  <2>1. CASE v = w
    BY <1>2, <2>1
  <2>2. CASE v # w
    BY <1>2, <2>2, ArriveDoes DEF Quiet
  <2> QED BY <2>1, <2>2
<1>3. CASE Tick \/ (\E u \in Users, r \in Roles : ChangeRole(u, r)) \/ UNCHANGED vars
  BY <1>3 DEF Tick, ChangeRole, vars, frame, Quiet
<1> QED BY <1>1, <1>2, <1>3 DEF Next

\* A worker's step that is neither Handle nor Return leaves its request and its
\* route alone and does not answer that there is none.
LEMMA RouteKept ==
    ASSUME Typed, FrameInv, NEW w \in Workers, Run(w), ~Handle(w), ~Return(w)
    PROVE  req'[w] = req[w] /\ match'[w] = match[w] /\ reply'[w] # "not found"
<1>0. pc[w] # "done" => reply[w] = "none"
  BY DEF FrameInv
<1> USE DEF Typed, Goto, Answer
<1>1. CASE RequireAuth(w)
  <2>1. Answer(w, "guarded page") \/ Answer(w, "unauthorized") \/ Answer(w, "forbidden")
    BY <1>1, AuthCheckDoes DEF RequireAuth
  <2> QED BY <1>1, <2>1 DEF RequireAuth
<1>2. CASE Authenticate(w)
  <2>1. reply' = reply \/ Answer(w, "unauthorized") \/ Answer(w, "forbidden")
    BY <1>2, AuthCheckDoes DEF Authenticate
  <2> QED BY <1>0, <1>2, <2>1 DEF Authenticate
<1>3. CASE CheckLimit(w)
  BY <1>0, <1>3 DEF CheckLimit
<1>4. CASE Forward(w)
  BY <1>0, <1>4 DEF Forward
<1>5. CASE Login(w)
  BY <1>0, <1>5 DEF Login
<1>6. CASE IssueToken(w)
  BY <1>6 DEF IssueToken
<1> QED BY <1>1, <1>2, <1>3, <1>4, <1>5, <1>6 DEF Run

\* The part of RoutedToMostSpecific about one worker.
RoutedOf(w) ==
    match[w] # <<>> \/ reply[w] = "not found" =>
        LET prefixes == {i \in DOMAIN config.routes : config.routes[i].match_type = "prefix"}
            best == MostSpecific(config.routes, prefixes, req[w].path)
        IN  IF match[w] = <<>>
              THEN best = {}
              ELSE \E i \in best : match[w][1].route = config.routes[i]

\* Handle finds a most specific route.
LEMMA HandleRoutes ==
    ASSUME Typed, Configured, FrameInv, config' = config, NEW w \in Workers, Handle(w)
    PROVE  RoutedOf(w)'
<1> DEFINE p == req[w].path
           m == Match(routes, p)
           prefixes == {i \in DOMAIN config.routes : config.routes[i].match_type = "prefix"}
           best == MostSpecific(config.routes, prefixes, p)
<1>1. p \in Seq(Characters) /\ match[w] = <<>>
  BY RequestAssumption DEF FrameInv, Handle
<1>2. Table(Characters, config.routes) /\ routes \in SortedRoutes(config.routes)
  BY DEF Configured
<1>3. IF m = <<>> THEN best = {}
      ELSE \E i \in best : m = <<config.routes[i]>> /\ IsPrefixMatch(config.routes[i].path, p)
  <2> HIDE DEF p
  <2> QED BY <1>1, <1>2, MatchIsMostSpecific
<1>4. /\ req' = req
      /\ IF m = <<>> THEN match'[w] = <<>>
         ELSE match'[w] # <<>> /\ match'[w][1].route = m[1]
  <2>1. /\ req' = req
        /\ \/ m = <<>> /\ match' = match
           \/ m # <<>> /\ \E u : match' = [match EXCEPT ![w] = <<[route |-> m[1], upstream_path |-> u]>>]
    BY Zenon DEF Handle
  <2> HIDE DEF m
  <2>2. CASE m = <<>>
    BY <1>1, <2>1, <2>2
  <2>3. CASE m # <<>>
    <3>1. PICK u : match'[w] = <<[route |-> m[1], upstream_path |-> u]>>
      BY <2>1, <2>3 DEF Typed
    <3> QED BY <2>1, <2>3, <3>1
  <2> QED BY <2>2, <2>3
<1>5. IF match'[w] = <<>> THEN best = {} ELSE \E i \in best : match'[w][1].route = config.routes[i]
  <2> HIDE DEF m, best
  <2> QED BY <1>3, <1>4
<1> QED BY <1>4, <1>5 DEF RoutedOf

\* RouteRuleManager::Match sends a request to a most specific route for its path.
THEOREM RoutesAreMostSpecific == Spec => []RoutedToMostSpecific
<1>1. Init => RoutedToMostSpecific
  BY DEF Init, RoutedToMostSpecific
<1>2. Configured /\ AccessInv /\ RoutedToMostSpecific /\ [Next]_vars => RoutedToMostSpecific'
  <2> SUFFICES ASSUME Configured, AccessInv, RoutedToMostSpecific, [Next]_vars, NEW w \in Workers
               PROVE  RoutedOf(w)'
    BY DEF RoutedToMostSpecific, RoutedOf
  <2>1. Typed /\ FrameInv /\ RoutedOf(w) /\ config' = config
    BY ConfigStays DEF AccessInv, RoutedToMostSpecific, RoutedOf
  <2>2. CASE Quiet(w)
    BY <2>1, <2>2 DEF Quiet, RoutedOf
  <2>3. CASE \E r \in Requests : \E x : Arrive(w, r, x)
    <3>1. match'[w] = <<>> /\ reply'[w] # "not found"
      BY <2>1, <2>3, ArriveDoes, ZenonT(60) DEF FrameInv
    <3> QED BY <3>1 DEF RoutedOf
  <2>4. CASE Handle(w)
    BY <2>1, <2>4, HandleRoutes
  <2>5. CASE Return(w)
    <3>1. match'[w] = <<>> /\ reply'[w] # "not found"
      BY <2>1, <2>5 DEF Return, Typed
    <3> QED BY <3>1 DEF RoutedOf
  <2>6. CASE Run(w) /\ ~Handle(w) /\ ~Return(w)
    BY <2>1, <2>6, RouteKept DEF RoutedOf
  <2> QED BY <2>1, <2>2, <2>3, <2>4, <2>5, <2>6, StepOf
<1> QED BY <1>1, <1>2, AccessInvHolds, PTL DEF Spec

\* The part of UpstreamPathRejoins about one worker.
RejoinsOf(w) ==
    match[w] # <<>> =>
        LET m == match[w][1]
            prefix == IF m.route.strip_prefix THEN m.route.path ELSE <<>>
        IN  /\ IsPrefix(<<"/">>, m.upstream_path)
            /\ prefix \o m.upstream_path \in {req[w].path, req[w].path \o <<"/">>}

\* Handle takes nothing from the path but the route's.
LEMMA HandleRejoins ==
    ASSUME OriginForm, Typed, Configured, FrameInv, config' = config, NEW w \in Workers, Handle(w)
    PROVE  RejoinsOf(w)'
<1> DEFINE p == req[w].path
           m == Match(routes, p)
<1>1. p \in Seq(Characters) /\ match[w] = <<>> /\ IsPrefix(<<"/">>, p)
  BY RequestAssumption DEF FrameInv, Handle, OriginForm
<1>2. CASE m = <<>>
  BY <1>1, <1>2, ZenonT(60) DEF Handle, RejoinsOf
<1>3. CASE m # <<>>
  <2>1. Table(Characters, config.routes) /\ routes \in SortedRoutes(config.routes)
    BY DEF Configured
  <2>2. \E i \in DOMAIN config.routes :
          m = <<config.routes[i]>> /\ IsPrefixMatch(config.routes[i].path, p)
    <3> DEFINE prefixes == {i \in DOMAIN config.routes : config.routes[i].match_type = "prefix"}
               best == MostSpecific(config.routes, prefixes, p)
    <3>1. best \subseteq DOMAIN config.routes
      BY DEF MostSpecific
    <3>2. \E i \in best : m = <<config.routes[i]>> /\ IsPrefixMatch(config.routes[i].path, p)
      <4> HIDE DEF p
      <4> QED BY <1>1, <1>3, <2>1, MatchIsMostSpecific
    <3> QED BY <3>1, <3>2
  <2>3. PICK i \in DOMAIN config.routes :
          m = <<config.routes[i]>> /\ IsPrefixMatch(config.routes[i].path, p)
    BY <2>2
  <2> DEFINE route == config.routes[i]
             u == BuildUpstreamPath(route.path, p, route.strip_prefix)
             prefix == IF route.strip_prefix THEN route.path ELSE <<>>
  <2>4. route.path \in Seq(Characters) /\ route.strip_prefix \in BOOLEAN
    BY <2>1, SMTT(40) DEF Table, Configured
  <2>5. IsPrefix(<<"/">>, u) /\ prefix \o u \in {p, p \o <<"/">>}
    <3> HIDE DEF p, route
    <3> QED BY <1>1, <2>3, <2>4, UpstreamPathOf DEF route
  <2>6. m[1] = route
    BY <2>3
  <2>7. /\ req' = req
        /\ match'[w] = <<[route |-> m[1],
                          upstream_path |-> BuildUpstreamPath(m[1].path, p, m[1].strip_prefix)]>>
    BY <1>3 DEF Handle, Typed
  <2> HIDE DEF m, route
  <2>8. match'[w][1].route = route /\ match'[w][1].upstream_path = u
    BY <2>6, <2>7
  <2> QED BY <2>5, <2>7, <2>8, ZenonT(60) DEF RejoinsOf
<1> QED BY <1>2, <1>3

\* BuildUpstreamPath makes an absolute path that is, behind the route's, the
\* request's, if requests come in origin-form.
THEOREM UpstreamPathsRejoin == ASSUME OriginForm PROVE Spec => []UpstreamPathRejoins
<1>1. Init => UpstreamPathRejoins
  BY DEF Init, UpstreamPathRejoins
<1>2. Configured /\ AccessInv /\ UpstreamPathRejoins /\ [Next]_vars => UpstreamPathRejoins'
  <2> SUFFICES ASSUME Configured, AccessInv, UpstreamPathRejoins, [Next]_vars, NEW w \in Workers
               PROVE  RejoinsOf(w)'
    BY ZenonT(60) DEF UpstreamPathRejoins, RejoinsOf
  <2>1. Typed /\ FrameInv /\ RejoinsOf(w) /\ config' = config
    BY ConfigStays, ZenonT(60) DEF AccessInv, UpstreamPathRejoins, RejoinsOf
  <2>2. CASE Quiet(w)
    BY <2>1, <2>2, ZenonT(60) DEF Quiet, RejoinsOf
  <2>3. CASE \E r \in Requests : \E x : Arrive(w, r, x)
    <3>1. match'[w] = <<>>
      BY <2>1, <2>3, ArriveDoes DEF FrameInv
    <3> QED BY <3>1 DEF RejoinsOf
  <2>4. CASE Handle(w)
    BY <2>1, <2>4, HandleRejoins
  <2>5. CASE Return(w)
    <3>1. match'[w] = <<>>
      BY <2>1, <2>5, SMTT(40) DEF Return, Typed
    <3> QED BY <3>1 DEF RejoinsOf
  <2>6. CASE Run(w) /\ ~Handle(w) /\ ~Return(w)
    BY <2>1, <2>6, RouteKept, ZenonT(60) DEF RejoinsOf
  <2> QED BY <2>1, <2>2, <2>3, <2>4, <2>5, <2>6, StepOf, SMTT(40)
<1> QED BY <1>1, <1>2, AccessInvHolds, PTL DEF Spec

-----------------------------------------------------------------------------
(* Limits *)

\* The part of LimitMostSpecific about one worker.
LimitOf(w) ==
    limit[w] # 0 =>
        LET rules == config.rate_limit_rules
            best == MostSpecific(rules, DOMAIN rules, req[w].path)
        IN  IF best = {}
              THEN limit[w] = IF config.rate_limit.default_max_requests < 1
                                THEN 1 ELSE config.rate_limit.default_max_requests
              ELSE \E i \in best : /\ \A j \in best : j <= i
                                   /\ limit[w] = rules[i].max_requests

\* RateLimitFilter::ResolveLimit takes the limit of the most specific rule, of
\* equal rules the last.
THEOREM LimitsAreMostSpecific == Spec => []LimitMostSpecific
<1>1. Init => LimitMostSpecific
  BY DEF Init, LimitMostSpecific
<1>2. Configured /\ AccessInv /\ LimitMostSpecific /\ [Next]_vars => LimitMostSpecific'
  <2> SUFFICES ASSUME Configured, AccessInv, LimitMostSpecific, [Next]_vars, NEW w \in Workers
               PROVE  LimitOf(w)'
    BY DEF LimitMostSpecific, LimitOf
  <2>1. Typed /\ FrameInv /\ LimitOf(w) /\ config' = config
    BY ConfigStays DEF AccessInv, LimitMostSpecific, LimitOf
  <2>2. CASE Quiet(w)
    BY <2>1, <2>2 DEF Quiet, LimitOf
  <2>3. CASE \E r \in Requests : \E x : Arrive(w, r, x)
    <3>1. limit'[w] = 0
      BY <2>1, <2>3, ArriveDoes DEF FrameInv
    <3> QED BY <3>1 DEF LimitOf
  <2>4. CASE CheckLimit(w) /\ config.rate_limit.enabled
    <3> DEFINE rules == config.rate_limit_rules
               default == config.rate_limit.default_max_requests
               p == req[w].path
    <3>1. p \in Seq(Characters)
      BY <2>1, <2>4, RequestAssumption DEF FrameInv, CheckLimit
    <3>2. /\ Table(Characters, rules) /\ default \in Int
          /\ \A i \in 1 .. Len(rules) : rules[i].max_requests \in Nat \ {0}
      BY DEF Configured
    <3>3. req' = req /\ limit'[w] = ResolveLimit(rules, default, p)
      BY <2>1, <2>4 DEF CheckLimit, Typed
    <3> HIDE DEF rules, default, p
    <3>4. LET best == MostSpecific(rules, DOMAIN rules, p)
          IN  IF best = {} THEN limit'[w] = IF default < 1 THEN 1 ELSE default
              ELSE \E i \in best : (\A j \in best : j <= i) /\ limit'[w] = rules[i].max_requests
      BY <3>1, <3>2, <3>3, LimitByMostSpecific
    <3> QED BY <2>1, <3>3, <3>4 DEF LimitOf, rules, default, p
  <2>5. CASE Return(w)
    <3>1. limit'[w] = 0
      BY <2>1, <2>5 DEF Return, Typed
    <3> QED BY <3>1 DEF LimitOf
  <2>6. CASE Run(w) /\ ~(CheckLimit(w) /\ config.rate_limit.enabled) /\ ~Return(w)
    <3>1. req' = req /\ limit' = limit
      BY <2>6 DEF Run, RequireAuth, Handle, Authenticate, CheckLimit, Forward, Login, IssueToken
    <3> QED BY <2>1, <3>1 DEF LimitOf
  <2> QED BY <2>1, <2>2, <2>3, <2>4, <2>5, <2>6, StepOf
<1> QED BY <1>1, <1>2, AccessInvHolds, PTL DEF Spec

-----------------------------------------------------------------------------
(* Roles *)

\* A role's name comes back as it is.
LEMMA RoleLetters == ASSUME NEW r \in Roles PROVE r \in Seq(0 .. 255) /\ Letters(r) = r
<1>1. r \in Seq(0 .. 255) /\ \A i \in 1 .. Len(r) : r[i] \notin Controls
  BY RoleAssumption
<1>2. r = [i \in 1 .. Len(r) |-> r[i]]
  BY <1>1
<1>3. \A i \in 1 .. Len(r) : LetterOf(r[i]) = r[i]
  BY <1>1, Zenon DEF LetterOf, Controls
<1> QED BY <1>1, <1>2, <1>3, Zenon DEF Letters

\* What is read from a token that was issued is what it was issued for.
LEMMA ClaimsOfToken ==
    ASSUME Configured, AccessInv, NEW k \in tokens
    PROVE  /\ k.of \in [user_id : Users, username : Seq(0 .. 255), role : Roles] /\ k.exp \in Int
           /\ TokenClaims(k.text, DefaultRole)
                = <<[user_id |-> k.of.user_id, username |-> Letters(k.of.username),
                     role |-> k.of.role, exp |-> k.exp]>>
<1> DEFINE ttl == config.auth.token_ttl_seconds
           issued == k.exp - ttl
<1>1. /\ IsUser(k.of) /\ k.exp \in Int /\ issued \in 0 .. clock /\ ttl \in Int /\ clock \in Nat
      /\ k.text = TokenText(k.of.user_id, k.of.username, k.of.role, issued, ttl)
  BY DEF AccessInv, TokenInv, Configured, Typed
<1>2. issued \in Int /\ issued + ttl = k.exp
  BY <1>1
<1> HIDE DEF issued, ttl
<1>3. /\ k.of.user_id \in Int /\ k.of.username \in Seq(0 .. 255) /\ k.of.role \in Roles
      /\ issued \in Int /\ ttl \in Int
  <2>1. k.of.user_id \in Users /\ k.of.username \in Seq(0 .. 255) /\ k.of.role \in Roles
    BY <1>1, SMT DEF IsUser
  <2>2. Users \subseteq Int
    BY AccessAssumption
  <2> QED BY <1>1, <1>2, <2>1, <2>2
<1>4. k.of.role \in Seq(0 .. 255) /\ Letters(k.of.role) = k.of.role
  BY <1>3, RoleLetters
<1>5. TokenClaims(TokenText(k.of.user_id, k.of.username, k.of.role, issued, ttl), DefaultRole)
        = <<[user_id |-> k.of.user_id, username |-> Letters(k.of.username),
             role |-> Letters(k.of.role), exp |-> issued + ttl]>>
  BY <1>3, <1>4, TokensReadBack, SMT
<1>6. TokenClaims(k.text, DefaultRole)
        = <<[user_id |-> k.of.user_id, username |-> Letters(k.of.username),
             role |-> k.of.role, exp |-> k.exp]>>
  BY <1>1, <1>2, <1>4, <1>5, Zenon
<1> QED BY <1>1, <1>6 DEF IsUser

\* What ValidateToken finds in a token is what the token was issued for, and the
\* token is not over.
LEMMA TokenSays ==
    ASSUME Configured, AccessInv, NEW w \in Workers, Token(w) # <<>>
    PROVE  \E k \in tokens :
             /\ k.text = req[w].token /\ clock < k.exp
             /\ Token(w)[1].user_id = k.of.user_id /\ Token(w)[1].role = k.of.role
<1>1. /\ req[w].token # NoToken /\ Token(w) = ValidateToken(req[w].token)
  BY DEF Token
<1>2. PICK k \in tokens : k.text = req[w].token
  BY <1>1 DEF AccessInv, FrameInv
<1> DEFINE claims == TokenClaims(k.text, DefaultRole)
<1>3. /\ k.exp \in Int
      /\ claims = <<[user_id |-> k.of.user_id, username |-> Letters(k.of.username),
                     role |-> k.of.role, exp |-> k.exp]>>
  BY ClaimsOfToken
<1>4. Token(w) = claims /\ ~(claims[1].exp <= clock)
  BY <1>1, <1>2 DEF ValidateToken
<1> HIDE DEF claims
<1>5. clock \in Nat
  BY DEF AccessInv, Typed
<1>6. clock < k.exp
  BY <1>3, <1>4, <1>5
<1> QED BY <1>2, <1>3, <1>4, <1>6

\* The role is one the rules let through to the path.
RoleOk(r, path) ==
    LET best == MostSpecific(config.rbac_rules, DOMAIN config.rbac_rules, path)
    IN  \/ ~config.auth.rbac_enabled \/ best = {}
        \/ \E i \in best : /\ \A j \in best : i <= j
                           /\ r \in config.rbac_rules[i].roles

\* The part of RolesEnforced about one worker.
RolesOf(w) ==
    /\ Passed(w) /\ ~Exempt(w) => identity[w] # <<>> /\ RoleOk(identity[w][1].role, req[w].path)
    /\ reply[w] = "forbidden" =>
         \E k \in tokens : k.text = req[w].token /\ ~RoleOk(k.of.role, req[w].path)

\* The loop of IsRoleAllowed decides as the rules mean.
LEMMA RoleFitsRules ==
    ASSUME Configured, FrameInv, NEW w \in Workers, pc[w] # "idle"
    PROVE  RoleFits(w) <=> RoleOk(Token(w)[1].role, req[w].path)
<1>1. req[w].path \in Seq(Characters) /\ Table(Characters, config.rbac_rules)
  BY RequestAssumption DEF FrameInv, Configured
<1> DEFINE rules == config.rbac_rules
           path == req[w].path
           r == Token(w)[1].role
           best == MostSpecific(rules, DOMAIN rules, path)
<1>2. IsRoleAllowed(rules, path, r) <=>
        (best = {} \/ \E i \in best : (\A j \in best : i <= j) /\ r \in rules[i].roles)
  <2> HIDE DEF rules, path, r
  <2> QED BY <1>1, RoleAllowedByMostSpecific DEF rules, path
<1> QED BY <1>2, Zenon DEF RoleFits, RoleOk

\* AuthFilter::Check around a handler and in Handle: the request goes through, with
\* an identity or exempt, or it is refused.
Refused(w, a) == Answer(w, a) /\ identity' = identity
Through(w) == Answer(w, "guarded page") \/ (Goto(w, "limit") /\ reply' = reply)

\* The ways a request can go at the filter.
LEMMA FilterDoes ==
    ASSUME NEW w, RequireAuth(w) \/ Authenticate(w)
    PROVE  \/ Through(w) /\ identity' = identity /\ Exempt(w)
           \/ Refused(w, "unauthorized") /\ Token(w) = <<>>
           \/ Refused(w, "forbidden") /\ Token(w) # <<>> /\ ~RoleFits(w)
           \/ Through(w) /\ Identified(w) /\ Token(w) # <<>> /\ RoleFits(w)
<1>1. CASE RequireAuth(w)
  <2> DEFINE Allowed == Answer(w, "guarded page")
  <2>1. AuthCheck(w, Allowed)
    BY <1>1 DEF RequireAuth
  <2>2. \/ Allowed /\ identity' = identity /\ Exempt(w)
        \/ Answer(w, "unauthorized") /\ identity' = identity /\ Token(w) = <<>>
        \/ /\ Answer(w, "forbidden") /\ identity' = identity /\ Token(w) # <<>> /\ ~RoleFits(w)
        \/ Allowed /\ Identified(w) /\ Token(w) # <<>> /\ RoleFits(w)
    BY <2>1, AuthCheckDoes
  <2> QED BY <2>2 DEF Through, Refused
<1>2. CASE Authenticate(w)
  <2> DEFINE Allowed == Goto(w, "limit") /\ UNCHANGED reply
  <2>1. AuthCheck(w, Allowed)
    BY <1>2 DEF Authenticate
  <2>2. \/ Allowed /\ identity' = identity /\ Exempt(w)
        \/ Answer(w, "unauthorized") /\ identity' = identity /\ Token(w) = <<>>
        \/ /\ Answer(w, "forbidden") /\ identity' = identity /\ Token(w) # <<>> /\ ~RoleFits(w)
        \/ Allowed /\ Identified(w) /\ Token(w) # <<>> /\ RoleFits(w)
    BY <2>1, AuthCheckDoes
  <2> QED BY <2>2 DEF Through, Refused
<1> QED BY <1>1, <1>2

\* AuthFilter::Check, by who gets through.
LEMMA CheckEnforces ==
    ASSUME Configured, AccessInv, NEW w \in Workers, RequireAuth(w) \/ Authenticate(w)
    PROVE  RolesOf(w)'
<1>1. /\ Typed /\ FrameInv /\ pc[w] # "idle" /\ reply[w] = "none" /\ identity[w] = <<>>
      /\ config' = config /\ req' = req /\ tokens' = tokens
  BY DEF AccessInv, FrameInv, RequireAuth, Authenticate
<1>2. \/ Through(w) /\ Exempt(w)
      \/ Refused(w, "unauthorized")
      \/ Refused(w, "forbidden") /\ Token(w) # <<>> /\ ~RoleFits(w)
      \/ Through(w) /\ Identified(w) /\ Token(w) # <<>> /\ RoleFits(w)
  BY FilterDoes
<1>3. /\ Exempt(w)' <=> Exempt(w)
      /\ \A r : RoleOk(r, req[w].path)' <=> RoleOk(r, req[w].path)
  BY <1>1 DEF Exempt, RoleOk
<1>4. Through(w) => reply'[w] # "forbidden"
  BY <1>1 DEF Through, Answer, Goto, Typed
<1>5. CASE Through(w) /\ Exempt(w)
  BY <1>3, <1>4, <1>5 DEF RolesOf
<1>6. CASE Refused(w, "unauthorized")
  <2>1. pc'[w] = "done" /\ reply'[w] = "unauthorized"
    BY <1>1, <1>6 DEF Refused, Answer, Goto, Typed
  <2> QED BY <2>1 DEF RolesOf, Passed
<1>7. CASE Refused(w, "forbidden") /\ Token(w) # <<>> /\ ~RoleFits(w)
  <2>1. pc'[w] = "done" /\ reply'[w] = "forbidden"
    BY <1>1, <1>7 DEF Refused, Answer, Goto, Typed
  <2>2. PICK k \in tokens : k.text = req[w].token /\ Token(w)[1].role = k.of.role
    BY <1>7, TokenSays
  <2>3. ~RoleOk(k.of.role, req[w].path)
    BY <1>1, <1>7, <2>2, RoleFitsRules
  <2>4. ~Passed(w)'
    BY <2>1 DEF Passed
  <2> QED BY <1>1, <1>3, <2>2, <2>3, <2>4 DEF RolesOf
<1>8. CASE Through(w) /\ Identified(w) /\ Token(w) # <<>> /\ RoleFits(w)
  <2>1. identity'[w] # <<>> /\ identity'[w][1].role = Token(w)[1].role
    <3>1. identity'[w] = <<[user_id |-> Token(w)[1].user_id, username |-> Token(w)[1].username,
                            role |-> Token(w)[1].role]>>
      BY <1>1, <1>8 DEF Identified, Typed
    <3> QED BY <3>1
  <2>2. RoleOk(Token(w)[1].role, req[w].path)
    BY <1>1, <1>8, RoleFitsRules
  <2>3. RoleOk(identity[w][1].role, req[w].path)'
    BY <1>1, <2>1, <2>2 DEF RoleOk
  <2> QED BY <1>4, <1>8, <2>1, <2>3 DEF RolesOf
<1> QED BY <1>2, <1>5, <1>6, <1>7, <1>8

\* A worker's step that is none of the filters' leaves its request before or behind
\* the filters, and its answer is none of theirs.
LEMMA NotThrough ==
    ASSUME Typed, FrameInv, NEW w \in Workers,
           Handle(w) \/ Forward(w) \/ Login(w) \/ IssueToken(w) \/ Return(w)
    PROVE  ~Passed(w)' /\ reply'[w] # "forbidden" /\ reply'[w] # "unauthorized"
<1>1. pc[w] # "done" => reply[w] = "none"
  BY DEF FrameInv
<1>2. /\ pc'[w] \notin {"limit", "forward"}
      /\ reply'[w] \notin {"guarded page", "forbidden", "unauthorized"}
  <2> USE <1>1 DEF Answer, Goto, Typed
  <2>1. CASE Handle(w)
    BY <2>1 DEF Handle
  <2>2. CASE Forward(w)
    BY <2>2 DEF Forward
  <2>3. CASE Login(w)
    BY <2>3 DEF Login
  <2>4. CASE IssueToken(w)
    BY <2>4 DEF IssueToken
  <2>5. CASE Return(w)
    BY <2>5 DEF Return
  <2> QED BY <2>1, <2>2, <2>3, <2>4, <2>5
<1> QED BY <1>2 DEF Passed

\* AuthFilter lets through whom the rules let through, and forbids only those they
\* do not.
THEOREM RolesAreEnforced == Spec => []RolesEnforced
<1>1. Init => RolesEnforced
  BY DEF Init, RolesEnforced, Passed
<1>2. Configured /\ AccessInv /\ RolesEnforced /\ [Next]_vars => RolesEnforced'
  <2> SUFFICES ASSUME Configured, AccessInv, RolesEnforced, [Next]_vars, NEW w \in Workers
               PROVE  RolesOf(w)'
    BY DEF RolesEnforced, RolesOf, RoleOk, Exempt
  <2>1. Typed /\ FrameInv /\ RolesOf(w) /\ config' = config
    BY ConfigStays DEF AccessInv, RolesEnforced, RolesOf, RoleOk, Exempt
  <2>2. tokens \subseteq tokens'
    <3>1. ASSUME NEW v \in Workers, Run(v) PROVE tokens \subseteq tokens'
      BY <2>1, <3>1, TokensGrow
    <3> QED BY <3>1 DEF Next, Arrive, Tick, ChangeRole, vars
  <2>3. ASSUME req'[w] = req[w], reply'[w] = reply[w], identity'[w] = identity[w],
               Passed(w)' => Passed(w)
        PROVE  RolesOf(w)'
    BY <2>1, <2>2, <2>3 DEF RolesOf, RoleOk, Exempt
  <2>4. ASSUME ~Passed(w)', reply'[w] # "forbidden" PROVE RolesOf(w)'
    BY <2>4 DEF RolesOf
  <2>5. CASE Quiet(w)
    <3>1. Passed(w)' => Passed(w)
      BY <2>5 DEF Quiet, Passed
    <3> QED BY <2>3, <2>5, <3>1 DEF Quiet
  <2>6. CASE \E r \in Requests : \E x : Arrive(w, r, x)
    <3>1. pc'[w] \notin {"limit", "forward"} /\ reply'[w] \in {"none", "page"}
      BY <2>1, <2>6, ArriveDoes DEF FrameInv
    <3> QED BY <2>4, <3>1 DEF Passed
  <2>7. CASE RequireAuth(w) \/ Authenticate(w)
    BY <2>7, CheckEnforces
  <2>8. CASE CheckLimit(w)
    <3>1. /\ req' = req /\ identity' = identity /\ Passed(w)
          /\ \/ Answer(w, "too many requests")
             \/ Goto(w, "forward") /\ reply' = reply
      BY <2>8 DEF CheckLimit, Passed
    <3>2. CASE Answer(w, "too many requests")
      BY <2>1, <2>4, <3>2 DEF Answer, Goto, Passed, Typed
    <3>3. CASE reply' = reply
      BY <2>3, <3>1, <3>3
    <3> QED BY <3>1, <3>2, <3>3
  <2>9. CASE Handle(w) \/ Forward(w) \/ Login(w) \/ IssueToken(w) \/ Return(w)
    BY <2>1, <2>4, <2>9, NotThrough
  <2> QED BY <2>1, <2>5, <2>6, <2>7, <2>8, <2>9, StepOf DEF Run
<1> QED BY <1>1, <1>2, AccessInvHolds, PTL DEF Spec

\* A role counts for at most the life of a token and the time of a login after its
\* user lost it.
THEOREM RolesDoExpire == Spec => RolesExpire
<1> DEFINE Expires(w) ==
             pc[w] \in {"auth", "guard"} /\ identity'[w] # <<>> =>
               LET u == identity'[w][1].user_id
                   r == identity'[w][1].role
               IN  \/ role[u] = r
                   \/ /\ lastHad[u][r] # -1
                      /\ clock < lastHad[u][r] + config.auth.token_ttl_seconds + skew
<1>1. Configured /\ AccessInv /\ [Next]_vars => [\A w \in Workers : Expires(w)]_vars
  <2> SUFFICES ASSUME Configured, AccessInv, [Next]_vars, NEW w \in Workers,
                      pc[w] \in {"auth", "guard"}, identity'[w] # <<>>
               PROVE  Expires(w)
    OBVIOUS
  <2>1. Typed /\ FrameInv /\ identity[w] = <<>>
    BY DEF AccessInv, FrameInv
  <2>2. Run(w)
    BY <2>1, StepOf, ArriveDoes DEF Quiet
  <2>3. RequireAuth(w) \/ Authenticate(w)
    BY <2>2 DEF Run, Handle, CheckLimit, Forward, Login, IssueToken, Return
  <2>4. Identified(w) /\ Token(w) # <<>>
    BY <2>1, <2>3, AuthCheckDoes DEF RequireAuth, Authenticate
  <2>5. identity'[w][1].user_id = Token(w)[1].user_id /\ identity'[w][1].role = Token(w)[1].role
    <3>1. identity'[w] = <<[user_id |-> Token(w)[1].user_id, username |-> Token(w)[1].username,
                            role |-> Token(w)[1].role]>>
      BY <2>1, <2>4 DEF Identified, Typed
    <3> QED BY <3>1
  <2>6. PICK k \in tokens : /\ clock < k.exp /\ Token(w)[1].user_id = k.of.user_id
                            /\ Token(w)[1].role = k.of.role
    BY <2>4, TokenSays
  <2> DEFINE ttl == config.auth.token_ttl_seconds
             u == k.of.user_id
             r == k.of.role
  <2>7. /\ k.exp \in Int /\ ttl \in Int /\ clock \in Nat /\ skew \in Nat /\ lastHad[u][r] \in Int
        /\ role[u] = r \/ (lastHad[u][r] # -1 /\ k.exp - ttl - skew <= lastHad[u][r])
    BY DEF AccessInv, TokenInv, Configured, Typed, IsUser, HadSince
  <2> HIDE DEF ttl, u, r
  <2>8. role[u] = r \/ (lastHad[u][r] # -1 /\ clock < lastHad[u][r] + ttl + skew)
    BY <2>6, <2>7
  <2> QED BY <2>5, <2>6, <2>8 DEF ttl, u, r
<1> QED BY <1>1, AccessInvHolds, PTL DEF Spec, RolesExpire

-----------------------------------------------------------------------------
(* Claims *)

\* The part of TokensKeepClaims about one worker, said of what is read from the
\* token it presents: this does not depend on the tokens issued meanwhile.
ClaimsFor(w) == TokenClaims(req[w].token, DefaultRole)[1]
Known(w) ==
    <<[user_id |-> ClaimsFor(w).user_id, username |-> ClaimsFor(w).username,
       role |-> ClaimsFor(w).role]>>
KeepsOf(w) ==
    req[w].token # NoToken =>
        /\ Passed(w) /\ identity[w] # <<>> => identity[w] = Known(w)
        /\ reply[w] = "unauthorized" => ClaimsFor(w).exp <= clock

ClaimsKept == \A w \in Workers : KeepsOf(w)

\* A token that is presented has claims, with a time.
LEMMA PresentedHasClaims ==
    ASSUME Configured, AccessInv, NEW w \in Workers, req[w].token # NoToken
    PROVE  TokenClaims(req[w].token, DefaultRole) # <<>> /\ ClaimsFor(w).exp \in Int
<1>1. PICK k \in tokens : k.text = req[w].token
  BY DEF AccessInv, FrameInv
<1>2. /\ k.exp \in Int
      /\ TokenClaims(k.text, DefaultRole)
           = <<[user_id |-> k.of.user_id, username |-> Letters(k.of.username),
                role |-> k.of.role, exp |-> k.exp]>>
  BY ClaimsOfToken
<1>3. TokenClaims(req[w].token, DefaultRole)
        = <<[user_id |-> k.of.user_id, username |-> Letters(k.of.username),
             role |-> k.of.role, exp |-> k.exp]>>
  BY <1>1, <1>2, Zenon
<1> QED BY <1>2, <1>3 DEF ClaimsFor

\* AuthFilter::Check takes the identity from the claims, and refuses a token that
\* was issued only when its time is over.
LEMMA CheckKeepsClaims ==
    ASSUME Configured, AccessInv, NEW w \in Workers, RequireAuth(w) \/ Authenticate(w)
    PROVE  KeepsOf(w)'
<1> SUFFICES ASSUME req'[w].token # NoToken PROVE KeepsOf(w)'
  BY DEF KeepsOf
<1>1. /\ Typed /\ FrameInv /\ reply[w] = "none" /\ identity[w] = <<>>
      /\ req' = req /\ clock' = clock
  BY DEF AccessInv, FrameInv, RequireAuth, Authenticate
<1>2. TokenClaims(req[w].token, DefaultRole) # <<>> /\ req[w].token # NoToken
  BY <1>1, PresentedHasClaims
<1>3. Token(w) = IF ClaimsFor(w).exp <= clock THEN <<>> ELSE TokenClaims(req[w].token, DefaultRole)
  BY <1>2, Zenon DEF Token, ValidateToken, ClaimsFor
<1>4. ClaimsFor(w)' = ClaimsFor(w) /\ Known(w)' = Known(w)
  BY <1>1 DEF ClaimsFor, Known
<1>5. \/ Through(w) /\ identity' = identity
      \/ Refused(w, "unauthorized") /\ Token(w) = <<>>
      \/ Refused(w, "forbidden")
      \/ Through(w) /\ Identified(w) /\ Token(w) # <<>>
  BY FilterDoes
<1>6. Through(w) => reply'[w] # "unauthorized"
  BY <1>1 DEF Through, Answer, Goto, Typed
<1>7. CASE Through(w) /\ identity' = identity
  BY <1>1, <1>6, <1>7 DEF KeepsOf
<1>8. CASE Refused(w, "unauthorized") /\ Token(w) = <<>>
  <2>1. ClaimsFor(w).exp <= clock
    BY <1>2, <1>3, <1>8, Zenon
  <2> QED BY <1>1, <1>4, <1>8, <2>1 DEF KeepsOf, Refused
<1>9. CASE Refused(w, "forbidden")
  <2>1. reply'[w] = "forbidden"
    BY <1>1, <1>9 DEF Refused, Answer, Typed
  <2> QED BY <1>1, <1>9, <2>1 DEF KeepsOf, Refused
<1>10. CASE Through(w) /\ Identified(w) /\ Token(w) # <<>>
  <2>1. Token(w)[1] = ClaimsFor(w)
    BY <1>3, <1>10, Zenon DEF ClaimsFor
  <2>2. identity'[w] = Known(w)
    BY <1>1, <1>10, <2>1 DEF Identified, Known, Typed
  <2> QED BY <1>4, <1>6, <1>10, <2>2 DEF KeepsOf
<1> QED BY <1>5, <1>7, <1>8, <1>9, <1>10

\* ClaimsKept is inductive, given AccessInv.
LEMMA ClaimsStep ==
    ASSUME Configured, AccessInv, ClaimsKept, [Next]_vars
    PROVE  ClaimsKept'
<1> SUFFICES ASSUME NEW w \in Workers PROVE KeepsOf(w)'
  BY DEF ClaimsKept
<1>1. Typed /\ FrameInv /\ KeepsOf(w)
  BY DEF AccessInv, ClaimsKept
<1>2. clock \in Nat /\ clock' \in Nat /\ clock <= clock'
  <2>1. clock \in Nat
    BY <1>1 DEF Typed
  <2>2. ASSUME NEW v \in Workers, Run(v) PROVE clock' = clock
    BY <1>1, <2>2, RunDoes
  <2>3. clock' = clock \/ clock' = clock + 1
    BY <2>2 DEF Next, Arrive, Tick, ChangeRole, vars
  <2> QED BY <2>1, <2>3
<1>3. ASSUME req'[w] = req[w], reply'[w] = reply[w], identity'[w] = identity[w],
             Passed(w)' => Passed(w)
      PROVE  KeepsOf(w)'
  <2> SUFFICES ASSUME req[w].token # NoToken PROVE KeepsOf(w)'
    BY <1>3 DEF KeepsOf
  <2>1. ClaimsFor(w)' = ClaimsFor(w) /\ Known(w)' = Known(w)
    BY <1>3 DEF ClaimsFor, Known
  <2>2. ClaimsFor(w).exp \in Int
    BY PresentedHasClaims
  <2>3. ClaimsFor(w).exp <= clock => ClaimsFor(w).exp <= clock'
    BY <1>2, <2>2
  <2> QED BY <1>1, <1>3, <2>1, <2>3 DEF KeepsOf
<1>4. ASSUME ~Passed(w)', reply'[w] # "unauthorized" PROVE KeepsOf(w)'
  BY <1>4 DEF KeepsOf
<1>5. CASE Quiet(w)
  <2>1. Passed(w)' => Passed(w)
    BY <1>5 DEF Quiet, Passed
  <2> QED BY <1>3, <1>5, <2>1 DEF Quiet
<1>6. CASE \E r \in Requests : \E x : Arrive(w, r, x)
  <2>1. pc'[w] \notin {"limit", "forward"} /\ reply'[w] \in {"none", "page"}
    BY <1>1, <1>6, ArriveDoes DEF FrameInv
  <2> QED BY <1>4, <2>1 DEF Passed
<1>7. CASE RequireAuth(w) \/ Authenticate(w)
  BY <1>7, CheckKeepsClaims
<1>8. CASE CheckLimit(w)
  <2>1. /\ req' = req /\ identity' = identity /\ Passed(w)
        /\ \/ Answer(w, "too many requests")
           \/ Goto(w, "forward") /\ reply' = reply
    BY <1>8 DEF CheckLimit, Passed
  <2>2. CASE Answer(w, "too many requests")
    BY <1>1, <1>4, <2>2 DEF Answer, Goto, Passed, Typed
  <2>3. CASE reply' = reply
    BY <1>3, <2>1, <2>3
  <2> QED BY <2>1, <2>2, <2>3
<1>9. CASE Handle(w) \/ Forward(w) \/ Login(w) \/ IssueToken(w) \/ Return(w)
  BY <1>1, <1>4, <1>9, NotThrough
<1> QED BY <1>1, <1>5, <1>6, <1>7, <1>8, <1>9, StepOf DEF Run

\* A token says what it was issued for, whatever characters the user's name is
\* made of: who passes with it is its user in its role, and it is refused only when
\* its time is over.
THEOREM TokensDoKeepClaims == Spec => []TokensKeepClaims
<1>1. Init => ClaimsKept
  BY DEF Init, ClaimsKept, KeepsOf, NoRequest
<1>2. Configured /\ AccessInv /\ ClaimsKept /\ [Next]_vars => ClaimsKept'
  BY ClaimsStep
<1>3. Configured /\ AccessInv /\ ClaimsKept => TokensKeepClaims
  <2> SUFFICES ASSUME Configured, AccessInv, ClaimsKept, NEW w \in Workers, NEW k \in tokens,
                      req[w].token = k.text
               PROVE  /\ Passed(w) /\ identity[w] # <<>> =>
                           identity[w][1] = [k.of EXCEPT !.username = Letters(k.of.username)]
                      /\ reply[w] = "unauthorized" => k.exp <= clock
    BY DEF TokensKeepClaims
  <2> DEFINE claims == [user_id |-> k.of.user_id, username |-> Letters(k.of.username),
                        role |-> k.of.role, exp |-> k.exp]
             known == [user_id |-> k.of.user_id, username |-> Letters(k.of.username),
                       role |-> k.of.role]
  <2>1. /\ k.of \in [user_id : Users, username : Seq(0 .. 255), role : Roles]
        /\ TokenClaims(k.text, DefaultRole) = <<claims>>
    BY ClaimsOfToken
  <2>2. req[w].token # NoToken
    <3>1. <<claims>> # <<>>
      <4> HIDE DEF claims
      <4> QED OBVIOUS
    <3> QED BY <2>1, <3>1, NothingSaysNothing, Zenon DEF NoToken
  <2>3. ClaimsFor(w) = claims
    <3>1. <<claims>>[1] = claims
      <4> HIDE DEF claims
      <4> QED OBVIOUS
    <3> QED BY <2>1, <3>1, Zenon DEF ClaimsFor
  <2>4. ClaimsFor(w).exp = k.exp /\ Known(w)[1] = known
    BY <2>3 DEF Known
  <2>5. [k.of EXCEPT !.username = Letters(k.of.username)] = known
    <3> PICK record \in [user_id : Users, username : Seq(0 .. 255), role : Roles] : record = k.of
      BY <2>1
    <3> PICK letters : letters = Letters(k.of.username)
      OBVIOUS
    <3>1. [record EXCEPT !.username = letters]
            = [user_id |-> record.user_id, username |-> letters, role |-> record.role]
      OBVIOUS
    <3> QED BY <3>1, Zenon
  <2> HIDE DEF known, claims
  <2> QED BY <2>2, <2>4, <2>5 DEF ClaimsKept, KeepsOf
<1> QED BY <1>1, <1>2, <1>3, AccessInvHolds, PTL DEF Spec
=============================================================================
