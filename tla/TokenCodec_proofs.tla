-------------------------- MODULE TokenCodec_proofs --------------------------
(***************************************************************************)
(* Proofs about TokenCodec: what was written into a token is read from it, *)
(* whatever bytes the user's name is made of.                              *)
(***************************************************************************)
EXTENDS TokenCodec, SequenceTheorems, WellFoundedInduction, TLAPS

-----------------------------------------------------------------------------
(* Natural numbers: least elements, and induction over a set. *)

\* A set of natural numbers has a least element.
LEMMA LeastNat ==
    ASSUME NEW T, T \subseteq Nat, T # {}
    PROVE  \E n \in T : \A m \in T : n <= m
<1>1. PICK n \in T : \A m \in T : ~ (<<m, n>> \in OpToRel(<, Nat))
  BY NatLessThanWellFounded, WFMin, Zenon
<1>2. ASSUME NEW m \in T PROVE n <= m
  <2>1. ~ (<<m, n>> \in OpToRel(<, Nat))
    BY <1>1
  <2>2. <<m, n>> \in Nat \X Nat
    OBVIOUS
  <2>3. m < n => <<m, n>> \in OpToRel(<, Nat)
    BY <2>2 DEF OpToRel
  <2>4. ~ (m < n)
    BY <2>1, <2>3, Zenon
  <2>5. m \in Nat /\ n \in Nat
    OBVIOUS
  <2> QED BY <2>4, <2>5
<1> QED BY <1>2

\* Induction over 0 .. n, for a set.
LEMMA UpTo ==
    ASSUME NEW n \in Nat, NEW T, 0 \in T, \A i \in 0 .. n - 1 : i \in T => i + 1 \in T
    PROVE  \A i \in 0 .. n : i \in T
<1> DEFINE U == {i \in 0 .. n : i \notin T}
<1> SUFFICES ASSUME U # {} PROVE FALSE
  OBVIOUS
<1>0. U \subseteq Nat
  OBVIOUS
<1>1. PICK i \in U : \A j \in U : i <= j
  BY <1>0, LeastNat
<1>2. i # 0 /\ i - 1 \in 0 .. n - 1 /\ i - 1 \notin U
  BY <1>1
<1>3. i - 1 \in T
  BY <1>2
<1> QED BY <1>1, <1>2, <1>3

-----------------------------------------------------------------------------
(* The loops *)

\* The states of a loop over 1 .. len that begins with start and goes on by step.
Loops(S, len, start, step) ==
    {f \in [0 .. len -> S] : f[0] = start /\ \A n \in 1 .. len : f[n] = step[<<f[n - 1], n>>]}

\* A loop can be run.
LEMMA LoopRuns ==
    ASSUME NEW S, NEW len \in Nat, NEW start \in S, NEW step \in [S \X (1 .. len) -> S]
    PROVE  Loops(S, len, start, step) # {}
<1> DEFINE Runs(m, f) == f[0] = start /\ \A n \in 1 .. m : f[n] = step[<<f[n - 1], n>>]
           T == {m \in 0 .. len : \E f \in [0 .. m -> S] : Runs(m, f)}
<1>1. 0 \in T
  <2>1. [n \in 0 .. 0 |-> start] \in [0 .. 0 -> S] /\ Runs(0, [n \in 0 .. 0 |-> start])
    OBVIOUS
  <2>2. 0 \in 0 .. len
    OBVIOUS
  <2> HIDE DEF Runs
  <2> QED BY <2>1, <2>2, Zenon
<1>2. ASSUME NEW m \in 0 .. len - 1, m \in T PROVE m + 1 \in T
  <2>1. PICK f \in [0 .. m -> S] : Runs(m, f)
    <3> HIDE DEF Runs
    <3> QED BY <1>2, Zenon
  <2> DEFINE g == [n \in 0 .. m + 1 |-> IF n = m + 1 THEN step[<<f[m], m + 1>>] ELSE f[n]]
  <2>2. <<f[m], m + 1>> \in S \X (1 .. len)
    OBVIOUS
  <2>3. g \in [0 .. m + 1 -> S]
    BY <2>2
  <2>4. g[0] = start /\ g[m + 1] = step[<<g[m], m + 1>>]
    <3>1. /\ 0 \in 0 .. m + 1 /\ m \in 0 .. m + 1 /\ m + 1 \in 0 .. m + 1
          /\ m # m + 1 /\ 0 # m + 1
      OBVIOUS
    <3>2. g[0] = f[0] /\ g[m] = f[m] /\ g[m + 1] = step[<<f[m], m + 1>>]
      BY <3>1, Zenon
    <3>3. f[0] = start
      BY <2>1, Zenon
    <3> HIDE DEF g
    <3> QED BY <3>2, <3>3
  <2>5. ASSUME NEW n \in 1 .. m PROVE g[n] = step[<<g[n - 1], n>>]
    <3>1. g[n] = f[n] /\ g[n - 1] = f[n - 1]
      OBVIOUS
    <3> QED BY <2>1, <3>1
  <2>6. Runs(m + 1, g)
    <3>1. \A n \in 1 .. m + 1 : n = m + 1 \/ n \in 1 .. m
      OBVIOUS
    <3> HIDE DEF g
    <3> QED BY <2>4, <2>5, <3>1, SMTT(40)
  <2>7. m + 1 \in 0 .. len
    OBVIOUS
  <2> HIDE DEF Runs, g
  <2> QED BY <2>3, <2>6, <2>7, Zenon
<1>3. len \in T
  <2> HIDE DEF T
  <2> QED BY <1>1, <1>2, UpTo
<1>4. \E f \in [0 .. len -> S] : Runs(len, f)
  <2> HIDE DEF Runs
  <2> QED BY <1>3, Zenon
<1> QED BY <1>4, Zenon DEF Loops
\* The states of a loop over a sequence.
Folds(S, s, start, step) ==
    {f \in [0 .. Len(s) -> S] :
        f[0] = start /\ \A n \in 1 .. Len(s) : f[n] = step[<<f[n - 1], s[n]>>]}

\* It can be run.
LEMMA FoldRuns ==
    ASSUME NEW S, NEW A, NEW s \in Seq(A), NEW start \in S, NEW step \in [S \X A -> S]
    PROVE  Folds(S, s, start, step) # {}
<1> DEFINE len == Len(s)
           at == [x \in S \X (1 .. len) |-> step[<<x[1], s[x[2]]>>]]
<1>1. len \in Nat /\ \A n \in 1 .. len : s[n] \in A
  OBVIOUS
<1>2. at \in [S \X (1 .. len) -> S]
  <2> HIDE DEF len
  <2>1. ASSUME NEW x \in S \X (1 .. len) PROVE step[<<x[1], s[x[2]]>>] \in S
    <3>1. <<x[1], s[x[2]]>> \in S \X A
      BY <1>1
    <3> QED BY <3>1
  <2> QED BY <2>1
<1>3. PICK f \in [0 .. len -> S] : f[0] = start /\ \A n \in 1 .. len : f[n] = at[<<f[n - 1], n>>]
  <2> HIDE DEF at, len
  <2>1. Loops(S, len, start, at) # {}
    BY <1>1, <1>2, LoopRuns
  <2> QED BY <2>1, Zenon DEF Loops
<1>4. ASSUME NEW n \in 1 .. len PROVE f[n] = step[<<f[n - 1], s[n]>>]
  <2>1. <<f[n - 1], n>> \in S \X (1 .. len)
    BY <1>1, SMTT(40)
  <2>2. at[<<f[n - 1], n>>] = step[<<f[n - 1], s[n]>>]
    BY <2>1
  <2> QED BY <1>3, <2>2
<1> QED BY <1>3, <1>4 DEF Folds

-----------------------------------------------------------------------------
(* base64url *)

Byte == 0 .. 255
Sextet == 0 .. 63

EncodeStates == [value : Nat, bits : {-6, -4, -2}, out : Seq(Sextet)]
EncodeStart == [value |-> 0, bits |-> -6, out |-> <<>>]

\* The shifts and masks of Base64UrlEncode, as arithmetic.
LEMMA EncodeBits ==
    ASSUME NEW value \in Nat, NEW b \in Byte, NEW v, v = Shifted(value, 8, b)
    PROVE  /\ v \in Nat
           /\ Bits(v, 2, 6) = b \div 4
           /\ Bits(v, 4, 6) = (value % 4) * 16 + (b \div 16)
           /\ Bits(v, 6, 6) = (value % 16) * 4 + (b \div 64)
           /\ Bits(v, 0, 6) = b % 64
<1>0. v = (value * 256 + b) % 65536
  BY SMT DEF Shifted
<1>1. v \in Nat
  BY <1>0, SMT DEF Byte
<1>2. Bits(v, 2, 6) = b \div 4
  BY <1>0, SMT DEF Bits, Byte
<1>3. Bits(v, 4, 6) = (value % 4) * 16 + (b \div 16)
  BY <1>0, SMT DEF Bits, Byte
<1>4. Bits(v, 6, 6) = (value % 16) * 4 + (b \div 64)
  BY <1>0, SMT DEF Bits, Byte
<1>5. Bits(v, 0, 6) = b % 64
  BY <1>0, SMT DEF Bits, Byte
<1> QED BY <1>1, <1>2, <1>3, <1>4, <1>5, Zenon

\* Those behind the loop.
LEMMA RestBits ==
    ASSUME NEW value \in Nat
    PROVE  Bits(value * 2^8, 4, 6) = (value % 4) * 16 /\ Bits(value * 2^8, 6, 6) = (value % 16) * 4
BY SMT DEF Bits

\* The last byte is still there.
LEMMA EncodeLow ==
    ASSUME NEW value \in Nat, NEW b \in Byte
    PROVE  Shifted(value, 8, b) % 256 = b
BY SMT DEF Shifted, Byte

\* They are six bits each.
LEMMA EncodeSextets ==
    ASSUME NEW value \in Nat, NEW b \in Byte
    PROVE  /\ b \div 4 \in Sextet /\ b % 64 \in Sextet
           /\ (value % 4) * 16 + (b \div 16) \in Sextet
           /\ (value % 16) * 4 + (b \div 64) \in Sextet
           /\ (value % 4) * 16 \in Sextet /\ (value % 16) * 4 \in Sextet
BY SMT DEF Byte, Sextet

\* What a round of Base64UrlEncode adds, with the given number of bits pending.
NewSextets(value, bits, b) ==
    IF bits = -6 THEN <<b \div 4>>
    ELSE IF bits = -4 THEN <<(value % 4) * 16 + (b \div 16)>>
    ELSE <<(value % 16) * 4 + (b \div 64), b % 64>>

\* A round of Base64UrlEncode.
LEMMA EncodeStepIs ==
    ASSUME NEW e \in EncodeStates, NEW b \in Byte
    PROVE  /\ EncodeStep(e, b) = [value |-> Shifted(e.value, 8, b),
                                  bits |-> IF e.bits = -2 THEN -6 ELSE e.bits + 2,
                                  out |-> e.out \o NewSextets(e.value, e.bits, b)]
           /\ EncodeStep(e, b) \in EncodeStates
<1>1. e.value \in Nat /\ e.bits \in {-6, -4, -2} /\ e.out \in Seq(Sextet)
  BY SMT DEF EncodeStates
<1> PICK value \in Nat : value = e.value
  BY <1>1
<1> PICK bits : bits = e.bits + 8
  OBVIOUS
<1> PICK v : v = Shifted(value, 8, b)
  OBVIOUS
<1> PICK new : new = IF bits < 6 THEN <<Bits(v, bits, 6)>> ELSE <<Bits(v, bits, 6), Bits(v, bits - 6, 6)>>
  OBVIOUS
<1>2. EncodeStep(e, b) = [value |-> v, bits |-> bits - 6 * Len(new), out |-> e.out \o new]
  BY Zenon DEF EncodeStep
<1>3. v \in Nat
  BY EncodeBits, SMT
<1>4. /\ new = NewSextets(value, e.bits, b) /\ new \in Seq(Sextet)
      /\ bits - 6 * Len(new) = IF e.bits = -2 THEN -6 ELSE e.bits + 2
  <2>1. CASE e.bits = -6
    <3>1. bits = 2
      BY <2>1, SMT
    <3>2. new = <<b \div 4>> /\ b \div 4 \in Sextet
      BY <3>1, EncodeBits, EncodeSextets, SMT
    <3> QED BY <2>1, <3>1, <3>2, SMT DEF NewSextets
  <2>2. CASE e.bits = -4
    <3>1. bits = 4
      BY <2>2, SMT
    <3> DEFINE x == (value % 4) * 16 + (b \div 16)
    <3>2. Bits(v, 4, 6) = x /\ x \in Sextet
      BY EncodeBits, EncodeSextets, SMT
    <3>3. NewSextets(value, e.bits, b) = <<x>>
      BY <2>2, SMT DEF NewSextets
    <3> HIDE DEF x
    <3>4. new = <<x>>
      BY <3>1, <3>2, SMT
    <3> QED BY <2>2, <3>1, <3>2, <3>3, <3>4, SMT
  <2>3. CASE e.bits = -2
    <3>1. bits = 6
      BY <2>3, SMT
    <3> DEFINE x == (value % 16) * 4 + (b \div 64)
               y == b % 64
    <3>2. Bits(v, 6, 6) = x /\ x \in Sextet /\ Bits(v, 0, 6) = y /\ y \in Sextet
      BY EncodeBits, EncodeSextets, SMT
    <3>3. NewSextets(value, e.bits, b) = <<x, y>>
      BY <2>3, SMT DEF NewSextets
    <3> HIDE DEF x, y
    <3>4. new = <<x, y>>
      BY <3>1, <3>2, SMT
    <3> QED BY <2>3, <3>1, <3>2, <3>3, <3>4, SMT
  <2> QED BY <1>1, <2>1, <2>2, <2>3, SMT
<1>5. e.out \o new \in Seq(Sextet)
  BY <1>1, <1>4, SMT
<1>6. bits - 6 * Len(new) \in {-6, -4, -2}
  BY <1>1, <1>4, SMT
<1>7. EncodeStep(e, b) \in EncodeStates
  BY <1>2, <1>3, <1>5, <1>6, SMT DEF EncodeStates
<1> QED BY <1>2, <1>4, <1>7, Zenon

\* The loop of Base64UrlEncode.
LEMMA EncodeLoop ==
    ASSUME NEW s \in Seq(Byte)
    PROVE  \E g \in [0 .. Len(s) -> EncodeStates] :
             /\ g[0] = EncodeStart
             /\ \A n \in 1 .. Len(s) : g[n] = EncodeStep(g[n - 1], s[n])
             /\ Folded(EncodeStep, EncodeStart, s) = g[Len(s)]
<1> DEFINE S == EncodeStates
           step == [x \in S \X Byte |-> EncodeStep(x[1], x[2])]
           Loop(g) == [n \in 0 .. Len(s) |-> IF n = 0 THEN EncodeStart ELSE EncodeStep(g[n - 1], s[n])]
<1>1. EncodeStart \in S
  BY DEF EncodeStart, EncodeStates
<1>2. step \in [S \X Byte -> S]
  BY EncodeStepIs
<1>3. PICK f \in [0 .. Len(s) -> S] :
        f[0] = EncodeStart /\ \A n \in 1 .. Len(s) : f[n] = step[<<f[n - 1], s[n]>>]
  <2> HIDE DEF step, S
  <2>1. Folds(S, s, EncodeStart, step) # {}
    BY <1>1, <1>2, FoldRuns, Zenon
  <2> QED BY <2>1, Zenon DEF Folds
<1>4. ASSUME NEW n \in 1 .. Len(s) PROVE f[n] = EncodeStep(f[n - 1], s[n])
  <2>1. <<f[n - 1], s[n]>> \in S \X Byte
    OBVIOUS
  <2> QED BY <1>3, <2>1
<1>5. f = Loop(f)
  BY <1>3, <1>4
<1>6. Folded(EncodeStep, EncodeStart, s) = (CHOOSE g : g = Loop(g))[Len(s)]
  BY DEF Folded
<1>7. PICK g : g = Loop(g) /\ Folded(EncodeStep, EncodeStart, s) = g[Len(s)]
  <2> HIDE DEF Loop
  <2> QED BY <1>5, <1>6
<1>8. g[0] = EncodeStart /\ \A n \in 1 .. Len(s) : g[n] = EncodeStep(g[n - 1], s[n])
  BY <1>7
<1>9. \A n \in 0 .. Len(s) : g[n] = f[n]
  <2> DEFINE T == {m \in 0 .. Len(s) : g[m] = f[m]}
  <2>1. 0 \in T
    BY <1>3, <1>8
  <2>2. ASSUME NEW i \in 0 .. Len(s) - 1, i \in T PROVE i + 1 \in T
    <3>1. i + 1 \in 1 .. Len(s) /\ (i + 1) - 1 = i /\ i + 1 \in 0 .. Len(s)
      OBVIOUS
    <3>2. g[i] = f[i]
      BY <2>2, Zenon
    <3> HIDE DEF T, Loop, S, step
    <3>3. g[i + 1] = f[i + 1]
      BY <1>4, <1>8, <3>1, <3>2, SMT
    <3> QED BY <3>1, <3>3, Zenon DEF T
  <2>3. Len(s) \in Nat
    OBVIOUS
  <2>4. \A n \in 0 .. Len(s) : n \in T
    <3> HIDE DEF T
    <3> QED BY <2>1, <2>2, <2>3, UpTo, Zenon
  <2> QED BY <2>4, Zenon
<1>10. g = f
  BY <1>7, <1>9
<1> QED BY <1>3, <1>7, <1>8, <1>10

\* The byte that six-bit values spell at a place: it is in two of them.
At(i) == i + ((i - 1) \div 3)
ByteAt(x, i) ==
    IF i % 3 = 1 THEN x[At(i)] * 4 + (x[At(i) + 1] \div 16)
    ELSE IF i % 3 = 2 THEN (x[At(i)] % 16) * 16 + (x[At(i) + 1] \div 4)
    ELSE (x[At(i)] % 4) * 64 + x[At(i) + 1]

\* What out holds after the bytes up to n: the last one may be there in half.
Spelled(s, n, out) ==
    /\ Len(out) = n + (n \div 3)
    /\ \A i \in 1 .. n : (i < n \/ n % 3 = 0) => ByteAt(out, i) = s[i]
    /\ n % 3 = 1 => out[Len(out)] = s[n] \div 4
    /\ n % 3 = 2 => out[Len(out)] % 16 = s[n] \div 16

EncodeInv(s, n, e) ==
    /\ e.bits = 2 * (n % 3) - 6
    /\ n > 0 => e.value % 256 = s[n]
    /\ Spelled(s, n, e.out)

\* A byte is put together from its parts: six and two bits, ...
LEMMA JoinedSixTwo ==
    ASSUME NEW old \in Byte, NEW b \in Byte, NEW v \in Nat, v % 256 = old
    PROVE  LET y == (v % 4) * 16 + (b \div 16) IN
           (old \div 4) * 4 + (y \div 16) = old /\ y % 16 = b \div 16
BY SMT DEF Byte

\* ... four and four, and two and six.
LEMMA JoinedFourFour ==
    ASSUME NEW old \in Byte, NEW b \in Byte, NEW v \in Nat, v % 256 = old
    PROVE  LET y == (v % 16) * 4 + (b \div 64) IN
           (old \div 16) * 16 + (y \div 4) = old /\ (y % 4) * 64 + (b % 64) = b
BY SMT DEF Byte

\* The last byte, when nothing follows it.
LEMMA JoinedLast ==
    ASSUME NEW old \in Byte, NEW v \in Nat, v % 256 = old
    PROVE  /\ (old \div 4) * 4 + (((v % 4) * 16) \div 16) = old
           /\ (old \div 16) * 16 + (((v % 16) * 4) \div 4) = old
BY SMT DEF Byte

\* More six-bit values leave the bytes before as they are.
LEMMA ByteAtStays ==
    ASSUME NEW x \in Seq(Sextet), NEW y \in Seq(Sextet), NEW i \in Nat, i > 0, At(i) + 1 <= Len(x)
    PROVE  ByteAt(x \o y, i) = ByteAt(x, i)
<1>1. At(i) \in 1 .. Len(x) /\ At(i) + 1 \in 1 .. Len(x)
  BY SMT DEF At
<1>2. (x \o y)[At(i)] = x[At(i)] /\ (x \o y)[At(i) + 1] = x[At(i) + 1]
  <2> HIDE DEF At
  <2> QED BY <1>1, SMT
<1> QED BY <1>2, Zenon DEF ByteAt

\* A round keeps what was spelled, and adds a byte.
LEMMA EncodeInvStep ==
    ASSUME NEW s \in Seq(Byte), NEW n \in 0 .. Len(s) - 1, NEW e \in EncodeStates, EncodeInv(s, n, e)
    PROVE  EncodeInv(s, n + 1, EncodeStep(e, s[n + 1]))
<1> DEFINE b == s[n + 1]
           d == EncodeStep(e, b)
           new == NewSextets(e.value, e.bits, b)
<1>1. b \in Byte /\ n \in Nat /\ n + 1 \in 1 .. Len(s)
  OBVIOUS
<1>2. /\ e.value \in Nat /\ e.bits \in {-6, -4, -2} /\ e.out \in Seq(Sextet)
      /\ e.bits = 2 * (n % 3) - 6
      /\ n > 0 => e.value % 256 = s[n]
  BY SMT DEF EncodeStates, EncodeInv
<1>3. d = [value |-> Shifted(e.value, 8, b), bits |-> IF e.bits = -2 THEN -6 ELSE e.bits + 2,
           out |-> e.out \o new]
  BY <1>1, EncodeStepIs, Zenon
<1>4. d \in EncodeStates
  BY <1>1, EncodeStepIs, Zenon
<1> HIDE DEF d, new, b
<1>5. /\ d.value = Shifted(e.value, 8, b) /\ d.bits = (IF e.bits = -2 THEN -6 ELSE e.bits + 2)
      /\ d.out = e.out \o new
  BY <1>3, SMT
<1> PICK value \in Nat : value = e.value
  BY <1>2
<1>6. d.value % 256 = b
  <2> PICK v : v = d.value
    OBVIOUS
  <2>1. v = Shifted(value, 8, b)
    BY <1>5, Zenon
  <2> QED BY <1>1, <2>1, EncodeLow, SMT
<1>7. d.bits = 2 * ((n + 1) % 3) - 6
  <2> PICK bits \in Int : bits = e.bits
    BY <1>2, SMT
  <2>1. bits = 2 * (n % 3) - 6 /\ n \in Nat
    BY <1>1, <1>2
  <2>2. (IF bits = -2 THEN -6 ELSE bits + 2) = 2 * ((n + 1) % 3) - 6
    BY <2>1, SMT
  <2> QED BY <1>5, <2>2, Zenon
<1> PICK x \in Seq(Sextet) : x = e.out
  BY <1>2
<1>8. Spelled(s, n, x)
  BY DEF EncodeInv
<1>10. Spelled(s, n + 1, x \o new)
  <2>1. CASE n % 3 = 0
    <3>1. new = <<b \div 4>> /\ b \div 4 \in Sextet
      <4>1. e.bits = -6
        BY <1>2, <2>1, SMT
      <4> QED BY <1>1, <4>1, EncodeSextets, SMT DEF new, NewSextets
    <3>2. /\ Len(x \o new) = Len(x) + 1 /\ (x \o new)[Len(x) + 1] = b \div 4
      BY <3>1, SMT
    <3>3. Len(x) + 1 = (n + 1) + ((n + 1) \div 3) /\ (n + 1) % 3 = 1
      BY <1>1, <1>8, <2>1, SMT DEF Spelled
    <3>4. ASSUME NEW i \in 1 .. n PROVE ByteAt(x \o new, i) = s[i]
      <4>1. At(i) + 1 <= Len(x)
        BY <1>1, <1>8, <2>1, SMT DEF Spelled, At
      <4>2. new \in Seq(Sextet)
        BY <3>1, SMT
      <4>3. ByteAt(x \o new, i) = ByteAt(x, i)
        BY <4>1, <4>2, ByteAtStays, SMT
      <4> QED BY <1>8, <2>1, <4>3 DEF Spelled
    <3>5. \A i \in 1 .. n + 1 : i < n + 1 => i \in 1 .. n
      BY <1>1, SMT
    <3> QED BY <1>1, <3>2, <3>3, <3>4, <3>5, SMT DEF Spelled, b
  <2>2. CASE n % 3 = 1
    <3> DEFINE y == (value % 4) * 16 + (b \div 16)
    <3>1. new = <<y>> /\ y \in Sextet
      <4>1. e.bits = -4
        BY <1>2, <2>2, SMT
      <4>2. y \in Sextet
        BY <1>1, EncodeSextets, Zenon
      <4> QED BY <4>1, <4>2, SMT DEF new, NewSextets
    <3>2. s[n] \in Byte /\ value % 256 = s[n]
      BY <1>1, <1>2, <2>2, SMT
    <3>3. (s[n] \div 4) * 4 + (y \div 16) = s[n] /\ y % 16 = b \div 16
      BY <1>1, <3>2, JoinedSixTwo, SMT
    <3> HIDE DEF y
    <3>4. /\ Len(x \o new) = Len(x) + 1 /\ (x \o new)[Len(x) + 1] = y
          /\ \A i \in 1 .. Len(x) : (x \o new)[i] = x[i]
      BY <3>1, SMT
    <3>5. Len(x) + 1 = (n + 1) + ((n + 1) \div 3) /\ (n + 1) % 3 = 2 /\ At(n) = Len(x) /\ Len(x) \in 1 .. Len(x)
      <4> PICK len \in Nat : len = Len(x)
        OBVIOUS
      <4>1. len = n + (n \div 3)
        BY <1>8, Zenon DEF Spelled
      <4> QED BY <1>1, <2>2, <4>1, SMT DEF At
    <3>6. ByteAt(x \o new, n) = s[n]
      <4>1. x[Len(x)] = s[n] \div 4
        BY <1>8, <2>2 DEF Spelled
      <4>2. ByteAt(x \o new, n) = (x \o new)[Len(x)] * 4 + ((x \o new)[Len(x) + 1] \div 16)
        BY <2>2, <3>5, Zenon DEF ByteAt
      <4> QED BY <3>3, <3>4, <3>5, <4>1, <4>2, Zenon
    <3>7. ASSUME NEW i \in 1 .. n - 1 PROVE ByteAt(x \o new, i) = s[i]
      <4>1. At(i) + 1 <= Len(x)
        BY <1>1, <1>8, <2>2, SMT DEF Spelled, At
      <4>2. new \in Seq(Sextet)
        BY <3>1, SMT
      <4>3. ByteAt(x \o new, i) = ByteAt(x, i)
        BY <4>1, <4>2, ByteAtStays, SMT
      <4>4. i \in 1 .. n /\ i < n
        BY <1>1, SMT
      <4> QED BY <1>8, <4>3, <4>4 DEF Spelled
    <3>8. \A i \in 1 .. n + 1 : i < n + 1 => i = n \/ i \in 1 .. n - 1
      BY <1>1, SMT
    <3>9. \A i \in 1 .. n + 1 : i < n + 1 => ByteAt(x \o new, i) = s[i]
      BY <3>6, <3>7, <3>8, Zenon
    <3>10. (n + 1) % 3 # 0 /\ (n + 1) % 3 # 1
      BY <3>5
    <3> QED BY <3>3, <3>4, <3>5, <3>9, <3>10, Zenon DEF Spelled, b
  <2>3. CASE n % 3 = 2
    <3> DEFINE y == (value % 16) * 4 + (b \div 64)
               z == b % 64
    <3>1. new = <<y, z>> /\ y \in Sextet /\ z \in Sextet
      <4>1. e.bits = -2
        BY <1>2, <2>3, SMT
      <4>2. y \in Sextet /\ z \in Sextet
        BY <1>1, EncodeSextets, Zenon
      <4> QED BY <4>1, <4>2, SMT DEF new, NewSextets
    <3>2. s[n] \in Byte /\ value % 256 = s[n]
      BY <1>1, <1>2, <2>3, SMT
    <3>3. (s[n] \div 16) * 16 + (y \div 4) = s[n] /\ (y % 4) * 64 + z = b
      BY <1>1, <3>2, JoinedFourFour, SMTT(40)
    <3> HIDE DEF y, z
    <3>4. /\ Len(x \o new) = Len(x) + 2 /\ (x \o new)[Len(x) + 1] = y /\ (x \o new)[Len(x) + 2] = z
          /\ \A i \in 1 .. Len(x) : (x \o new)[i] = x[i]
      BY <3>1, SMT
    <3>5. /\ Len(x) + 2 = (n + 1) + ((n + 1) \div 3) /\ (n + 1) % 3 = 0 /\ At(n) = Len(x)
          /\ Len(x) \in 1 .. Len(x) /\ At(n + 1) = Len(x) + 1 /\ Len(x) + 1 + 1 = Len(x) + 2
      <4> PICK len \in Nat : len = Len(x)
        OBVIOUS
      <4>1. len = n + (n \div 3)
        BY <1>8, Zenon DEF Spelled
      <4> QED BY <1>1, <2>3, <4>1, SMT DEF At
    <3>6. ByteAt(x \o new, n) = s[n]
      <4>1. x[Len(x)] % 16 = s[n] \div 16
        BY <1>8, <2>3 DEF Spelled
      <4>2. ByteAt(x \o new, n) = ((x \o new)[Len(x)] % 16) * 16 + ((x \o new)[Len(x) + 1] \div 4)
        <5>1. n % 3 # 1
          BY <2>3
        <5> QED BY <2>3, <3>5, <5>1, Zenon DEF ByteAt
      <4> QED BY <3>3, <3>4, <3>5, <4>1, <4>2, Zenon
    <3>7. ByteAt(x \o new, n + 1) = b
      <4>1. ByteAt(x \o new, n + 1) = ((x \o new)[Len(x) + 1] % 4) * 64 + (x \o new)[Len(x) + 2]
        <5>1. (n + 1) % 3 # 1 /\ (n + 1) % 3 # 2
          BY <3>5
        <5> QED BY <3>5, <5>1, Zenon DEF ByteAt
      <4> QED BY <3>3, <3>4, <4>1, Zenon
    <3>8. ASSUME NEW i \in 1 .. n - 1 PROVE ByteAt(x \o new, i) = s[i]
      <4>1. At(i) + 1 <= Len(x)
        BY <1>1, <1>8, <2>3, SMT DEF Spelled, At
      <4>2. new \in Seq(Sextet)
        BY <3>1, SMT
      <4>3. ByteAt(x \o new, i) = ByteAt(x, i)
        BY <4>1, <4>2, ByteAtStays, SMT
      <4>4. i \in 1 .. n /\ i < n
        BY <1>1, SMT
      <4> QED BY <1>8, <4>3, <4>4 DEF Spelled
    <3>9. \A i \in 1 .. n + 1 : i = n + 1 \/ i = n \/ i \in 1 .. n - 1
      BY <1>1, SMT
    <3>10. \A i \in 1 .. n + 1 : ByteAt(x \o new, i) = s[i]
      BY <3>6, <3>7, <3>8, <3>9, Zenon DEF b
    <3>11. (n + 1) % 3 # 1 /\ (n + 1) % 3 # 2
      BY <3>5
    <3> QED BY <3>4, <3>5, <3>10, <3>11, Zenon DEF Spelled
  <2> QED BY <1>1, <2>1, <2>2, <2>3, SMT
<1> QED BY <1>1, <1>5, <1>6, <1>7, <1>10, SMT DEF EncodeInv, b, d

\* Where the last byte is, if it is there in half.
LEMMA HalfAt ==
    ASSUME NEW n \in Nat, n % 3 # 0
    PROVE  /\ n > 0 /\ n + (n \div 3) + 1 = n + ((n + 2) \div 3) /\ At(n) = n + (n \div 3)
           /\ n + (n \div 3) \in 1 .. n + (n \div 3)
BY SMT DEF At

\* One more value completes the last byte.
LEMMA SpelledOut ==
    ASSUME NEW s \in Seq(Byte), NEW x \in Seq(Sextet), NEW y \in Sextet, Spelled(s, Len(s), x),
           Len(s) % 3 # 0,
           Len(s) % 3 = 1 => (x[Len(x)] * 4) + (y \div 16) = s[Len(s)],
           Len(s) % 3 = 2 => ((x[Len(x)] % 16) * 16) + (y \div 4) = s[Len(s)]
    PROVE  /\ x \o <<y>> \in Seq(Sextet)
           /\ Len(x \o <<y>>) = Len(s) + ((Len(s) + 2) \div 3)
           /\ \A i \in 1 .. Len(s) : ByteAt(x \o <<y>>, i) = s[i]
<1> PICK N \in Nat : N = Len(s)
  OBVIOUS
<1> PICK len \in Nat : len = Len(x)
  OBVIOUS
<1> PICK z : z = x \o <<y>>
  OBVIOUS
<1>0. len = N + (N \div 3)
  BY Zenon DEF Spelled
<1>1. N > 0 /\ len + 1 = N + ((N + 2) \div 3) /\ At(N) = len /\ len \in 1 .. len
  <2>1. N % 3 # 0
    OBVIOUS
  <2> QED BY <1>0, <2>1, HalfAt, Zenon
<1>3. z \in Seq(Sextet) /\ Len(z) = len + 1 /\ z[len + 1] = y /\ z[len] = x[len]
  BY <1>1, SMT
<1>4. ByteAt(z, N) = s[N]
  <2>1. N % 3 = 1 \/ N % 3 = 2
    BY SMT
  <2>2. CASE N % 3 = 1
    <3>1. ByteAt(z, N) = z[len] * 4 + (z[len + 1] \div 16)
      BY <1>1, <2>2, Zenon DEF ByteAt
    <3> QED BY <1>3, <2>2, <3>1, Zenon
  <2>3. CASE N % 3 = 2
    <3>1. N % 3 # 1
      BY <2>3
    <3>2. ByteAt(z, N) = (z[len] % 16) * 16 + (z[len + 1] \div 4)
      BY <1>1, <2>3, <3>1, Zenon DEF ByteAt
    <3> QED BY <1>3, <2>3, <3>2, Zenon
  <2> QED BY <2>1, <2>2, <2>3
<1>5. ASSUME NEW i \in 1 .. N - 1 PROVE ByteAt(z, i) = s[i]
  <2>1. i \in Nat /\ i > 0 /\ At(i) + 1 <= len /\ i \in 1 .. N /\ i < N
    BY <1>0, <1>1, SMT DEF At
  <2>2. <<y>> \in Seq(Sextet)
    BY SMT
  <2>3. ByteAt(z, i) = ByteAt(x, i)
    BY <2>1, <2>2, ByteAtStays, Zenon
  <2> QED BY <2>1, <2>3, Zenon DEF Spelled
<1>6. \A i \in 1 .. N : i = N \/ i \in 1 .. N - 1
  BY <1>0, SMT
<1> QED BY <1>1, <1>3, <1>4, <1>5, <1>6, Zenon

\* What Base64UrlEncode makes of the bytes: each is spelled by its values.
LEMMA SextetsSpell ==
    ASSUME NEW s \in Seq(Byte)
    PROVE  /\ Sextets(s) \in Seq(Sextet)
           /\ Len(Sextets(s)) = Len(s) + ((Len(s) + 2) \div 3)
           /\ \A i \in 1 .. Len(s) : ByteAt(Sextets(s), i) = s[i]
<1> DEFINE N == Len(s)
<1>0. N \in Nat
  OBVIOUS
<1>1. PICK g \in [0 .. N -> EncodeStates] :
        /\ g[0] = EncodeStart
        /\ \A n \in 1 .. N : g[n] = EncodeStep(g[n - 1], s[n])
        /\ Folded(EncodeStep, EncodeStart, s) = g[N]
  BY EncodeLoop, Zenon
<1> HIDE DEF N
<1>2. EncodeInv(s, N, g[N])
  <2> DEFINE T == {n \in 0 .. N : EncodeInv(s, n, g[n])}
  <2>1. 0 \in T
    <3>1. g[0].bits = -6 /\ g[0].out = <<>>
      BY <1>1 DEF EncodeStart
    <3>2. 0 % 3 = 0 /\ 0 \div 3 = 0 /\ Len(<<>>) = 0 /\ ~ (0 > 0) /\ 0 \in 0 .. N
      BY <1>0, SMT
    <3>3. Spelled(s, 0, <<>>)
      BY <3>2, SMT DEF Spelled
    <3>4. EncodeInv(s, 0, g[0])
      BY <3>1, <3>2, <3>3, SMT DEF EncodeInv
    <3> QED BY <3>2, <3>4, Zenon
  <2>2. ASSUME NEW n \in 0 .. N - 1, n \in T PROVE n + 1 \in T
    <3>1. n + 1 \in 1 .. N /\ n + 1 \in 0 .. N /\ (n + 1) - 1 = n /\ n \in 0 .. N
      BY <1>0, SMT
    <3>2. EncodeInv(s, n, g[n]) /\ g[n] \in EncodeStates
      BY <2>2, <3>1, Zenon
    <3>3. g[n + 1] = EncodeStep(g[n], s[n + 1])
      BY <1>1, <3>1, SMT
    <3> HIDE DEF T
    <3>4. EncodeInv(s, n + 1, g[n + 1])
      BY <3>2, <3>3, EncodeInvStep, Zenon DEF N
    <3> QED BY <3>1, <3>4, Zenon DEF T
  <2> HIDE DEF T
  <2>3. N \in T
    <3>1. N \in 0 .. N
      BY <1>0, SMT
    <3> QED BY <1>0, <2>1, <2>2, <3>1, UpTo, Zenon
  <2> QED BY <2>3, Zenon DEF T
<1> PICK e \in EncodeStates : e = g[N]
  BY <1>0, <1>1, SMT
<1>3. e.value \in Nat /\ e.out \in Seq(Sextet) /\ EncodeInv(s, N, e)
  BY <1>2, SMT DEF EncodeStates
<1> PICK value \in Nat : value = e.value
  BY <1>3
<1> PICK x \in Seq(Sextet) : x = e.out
  BY <1>3
<1>4. e.bits = 2 * (N % 3) - 6 /\ Spelled(s, N, x) /\ Len(x) = N + (N \div 3)
  BY <1>3, Zenon DEF EncodeInv, Spelled
<1>5. N > 0 => s[N] \in Byte /\ value % 256 = s[N]
  BY <1>0, <1>3, SMT DEF EncodeInv, N
<1> DEFINE rest == IF e.bits > -6 THEN <<Bits(e.value * 2^8, e.bits + 8, 6)>> ELSE <<>>
<1>6. Sextets(s) = x \o rest
  <2>1. Sextets(s) = LET end == Folded(EncodeStep, EncodeStart, s)
                         more == IF end.bits > -6 THEN <<Bits(end.value * 2^8, end.bits + 8, 6)>> ELSE <<>>
                     IN  end.out \o more
    BY Zenon DEF Sextets, EncodeStart
  <2> QED BY <1>1, <2>1, Zenon
<1> PICK len \in Nat : len = Len(x)
  OBVIOUS
<1>7. CASE N % 3 = 0
  <2>1. rest = <<>>
    BY <1>4, <1>7, SMT
  <2>2. Sextets(s) = x
    BY <1>6, <2>1, ConcatEmptySeq, Zenon
  <2>3. N + (N \div 3) = N + ((N + 2) \div 3)
    BY <1>0, <1>7, SMT
  <2>4. \A i \in 1 .. N : ByteAt(x, i) = s[i]
    BY <1>4, <1>7, Zenon DEF Spelled
  <2> QED BY <1>4, <2>2, <2>3, <2>4, Zenon DEF N
<1>9. CASE N % 3 = 1
  <2>1. e.bits + 8 = 4 /\ e.bits > -6
    BY <1>4, <1>9, SMT
  <2>2. 0 \in Byte /\ N > 0
    BY <1>0, <1>9, SMT DEF Byte
  <2> DEFINE y == (value % 4) * 16
  <2>3. Bits(e.value * 2^8, e.bits + 8, 6) = y /\ y \in Sextet
    <3>1. Bits(value * 2^8, 4, 6) = y
      BY RestBits, Zenon
    <3>2. y \in Sextet
      BY <2>2, EncodeSextets, SMT
    <3> QED BY <2>1, <3>1, <3>2, Zenon
  <2>4. rest = <<y>>
    BY <2>1, <2>3, SMT
  <2>5. x[len] = s[N] \div 4
    BY <1>4, <1>9, Zenon DEF Spelled
  <2>6. (s[N] \div 4) * 4 + (y \div 16) = s[N]
    <3> PICK b \in Byte : b = s[N]
      BY <1>5, <2>2
    <3>1. value % 256 = b
      BY <1>5, <2>2
    <3> QED BY <3>1, JoinedLast, ZenonT(60)
  <2> HIDE DEF y, rest
  <2>7. N % 3 # 0 /\ N % 3 # 2
    BY <1>9
  <2>8. (x[len] * 4) + (y \div 16) = s[N]
    BY <2>5, <2>6, Zenon
  <2>9. Sextets(s) = x \o <<y>>
    BY <1>6, <2>4, Zenon
  <2>10. /\ Spelled(s, Len(s), x) /\ Len(s) % 3 # 0 /\ y \in Sextet
         /\ Len(s) % 3 = 1 => (x[Len(x)] * 4) + (y \div 16) = s[Len(s)]
         /\ Len(s) % 3 = 2 => ((x[Len(x)] % 16) * 16) + (y \div 4) = s[Len(s)]
    BY <1>4, <2>3, <2>7, <2>8, Zenon DEF N
  <2>11. /\ x \o <<y>> \in Seq(Sextet)
         /\ Len(x \o <<y>>) = Len(s) + ((Len(s) + 2) \div 3)
         /\ \A i \in 1 .. Len(s) : ByteAt(x \o <<y>>, i) = s[i]
    BY <2>10, SpelledOut
  <2> QED BY <2>9, <2>11, Zenon
<1>10. CASE N % 3 = 2
  <2>1. e.bits + 8 = 6 /\ e.bits > -6
    BY <1>4, <1>10, SMT
  <2>2. 0 \in Byte /\ N > 0
    BY <1>0, <1>10, SMT DEF Byte
  <2> DEFINE y == (value % 16) * 4
  <2>3. Bits(e.value * 2^8, e.bits + 8, 6) = y /\ y \in Sextet
    <3>1. Bits(value * 2^8, 6, 6) = y
      BY RestBits, Zenon
    <3>2. y \in Sextet
      BY <2>2, EncodeSextets, SMT
    <3> QED BY <2>1, <3>1, <3>2, Zenon
  <2>4. rest = <<y>>
    BY <2>1, <2>3, SMT
  <2>5. x[len] % 16 = s[N] \div 16
    BY <1>4, <1>10, Zenon DEF Spelled
  <2>6. (s[N] \div 16) * 16 + (y \div 4) = s[N]
    <3> PICK b \in Byte : b = s[N]
      BY <1>5, <2>2
    <3>1. value % 256 = b
      BY <1>5, <2>2
    <3> QED BY <3>1, JoinedLast, ZenonT(60)
  <2> HIDE DEF y, rest
  <2>7. N % 3 # 0 /\ N % 3 # 1
    BY <1>10
  <2>8. ((x[len] % 16) * 16) + (y \div 4) = s[N]
    BY <2>5, <2>6, Zenon
  <2>9. Sextets(s) = x \o <<y>>
    BY <1>6, <2>4, Zenon
  <2>10. /\ Spelled(s, Len(s), x) /\ Len(s) % 3 # 0 /\ y \in Sextet
         /\ Len(s) % 3 = 1 => (x[Len(x)] * 4) + (y \div 16) = s[Len(s)]
         /\ Len(s) % 3 = 2 => ((x[Len(x)] % 16) * 16) + (y \div 4) = s[Len(s)]
    BY <1>4, <2>3, <2>7, <2>8, Zenon DEF N
  <2>11. /\ x \o <<y>> \in Seq(Sextet)
         /\ Len(x \o <<y>>) = Len(s) + ((Len(s) + 2) \div 3)
         /\ \A i \in 1 .. Len(s) : ByteAt(x \o <<y>>, i) = s[i]
    BY <2>10, SpelledOut
  <2> QED BY <2>9, <2>11, Zenon
<1>11. N % 3 \in {0, 1, 2}
  BY <1>0, SMT
<1> QED BY <1>7, <1>9, <1>10, <1>11

DecodeStates == [value : Nat, bits : {-8, -6, -4, -2}, out : Seq(Byte)]
DecodeStart == [value |-> 0, bits |-> -8, out |-> <<>>]
Alphabet == {c \in Int : Base64UrlValue(c) \in Sextet}

\* A character stands for the value it was written for.
LEMMA CharValue ==
    ASSUME NEW v \in Sextet
    PROVE  Base64UrlValue(Base64UrlChar(v)) = v /\ Base64UrlChar(v) \in Alphabet
<1>1. Base64UrlChar(v) \in Int
  BY SMT DEF Base64UrlChar, Sextet
<1>2. Base64UrlValue(Base64UrlChar(v)) = v
  BY SMT DEF Base64UrlValue, Base64UrlChar, Sextet
<1> QED BY <1>1, <1>2, Zenon DEF Alphabet

\* The shifts and masks of Base64UrlDecode, as arithmetic.
LEMMA DecodeBits ==
    ASSUME NEW value \in Nat, NEW y \in Sextet, NEW v, v = Shifted(value, 6, y)
    PROVE  /\ v \in Nat
           /\ Bits(v, 4, 8) = (value % 64) * 4 + (y \div 16)
           /\ Bits(v, 2, 8) = (value % 16) * 16 + (y \div 4)
           /\ Bits(v, 0, 8) = (value % 4) * 64 + y
<1>0. v = (value * 64 + y) % 65536
  BY SMT DEF Shifted
<1>1. v \in Nat
  BY <1>0, SMT DEF Sextet
<1>2. Bits(v, 4, 8) = (value % 64) * 4 + (y \div 16)
  BY <1>0, SMT DEF Bits, Sextet
<1>3. Bits(v, 2, 8) = (value % 16) * 16 + (y \div 4)
  BY <1>0, SMT DEF Bits, Sextet
<1>4. Bits(v, 0, 8) = (value % 4) * 64 + y
  BY <1>0, SMT DEF Bits, Sextet
<1> QED BY <1>1, <1>2, <1>3, <1>4

\* The last value is still there.
LEMMA DecodeLow ==
    ASSUME NEW value \in Nat, NEW y \in Sextet
    PROVE  Shifted(value, 6, y) % 64 = y
BY SMT DEF Shifted, Sextet

\* What a round of Base64UrlDecode adds, with the given number of bits pending.
NewByte(value, bits, y) ==
    IF bits = -2 THEN (value % 64) * 4 + (y \div 16)
    ELSE IF bits = -4 THEN (value % 16) * 16 + (y \div 4)
    ELSE (value % 4) * 64 + y

\* It is a byte.
LEMMA NewByteTyped ==
    ASSUME NEW value \in Nat, NEW bits, NEW y \in Sextet
    PROVE  NewByte(value, bits, y) \in Byte
<1>1. (value % 64) * 4 + (y \div 16) \in Byte
  BY SMT DEF Byte, Sextet
<1>2. (value % 16) * 16 + (y \div 4) \in Byte
  BY SMT DEF Byte, Sextet
<1>3. (value % 4) * 64 + y \in Byte
  BY SMT DEF Byte, Sextet
<1> QED BY <1>1, <1>2, <1>3 DEF NewByte

\* A round of Base64UrlDecode.
LEMMA DecodeStepIs ==
    ASSUME NEW d \in DecodeStates, NEW c, NEW y \in Sextet, y = Base64UrlValue(c)
    PROVE  /\ DecodeStep(d, c) =
                [value |-> Shifted(d.value, 6, y),
                 bits |-> IF d.bits = -8 THEN -2 ELSE d.bits - 2,
                 out |-> IF d.bits = -8 THEN d.out ELSE Append(d.out, NewByte(d.value, d.bits, y))]
           /\ DecodeStep(d, c) \in DecodeStates
<1>1. d.value \in Nat /\ d.bits \in {-8, -6, -4, -2} /\ d.out \in Seq(Byte)
  BY SMT DEF DecodeStates
<1> PICK value \in Nat : value = d.value
  BY <1>1
<1> PICK bits : bits = d.bits + 6
  OBVIOUS
<1> PICK v : v = Shifted(value, 6, y)
  OBVIOUS
<1>2. DecodeStep(d, c) = IF bits < 0 THEN [value |-> v, bits |-> bits, out |-> d.out]
                         ELSE [value |-> v, bits |-> bits - 8, out |-> Append(d.out, Bits(v, bits, 8))]
  BY Zenon DEF DecodeStep
<1>3. v \in Nat
  BY DecodeBits, SMT
<1>4. CASE d.bits = -8
  <2>1. bits = -2 /\ bits < 0
    BY <1>4, SMT
  <2> QED BY <1>1, <1>2, <1>3, <1>4, <2>1, SMT DEF DecodeStates
<1>5. CASE d.bits # -8
  <2>1. ~ (bits < 0) /\ bits - 8 = d.bits - 2 /\ bits - 8 \in {-8, -6, -4, -2}
    BY <1>1, <1>5, SMT
  <2>2. Bits(v, bits, 8) = NewByte(value, d.bits, y)
    <3>1. CASE d.bits = -2
      <4>1. bits = 4
        BY <3>1, SMT
      <4>2. Bits(v, 4, 8) = (value % 64) * 4 + (y \div 16)
        BY DecodeBits, SMT
      <4>3. NewByte(value, d.bits, y) = (value % 64) * 4 + (y \div 16)
        BY <3>1, SMT DEF NewByte
      <4> QED BY <4>1, <4>2, <4>3, Zenon
    <3>2. CASE d.bits = -4
      <4>1. bits = 2
        BY <3>2, SMT
      <4>2. Bits(v, 2, 8) = (value % 16) * 16 + (y \div 4)
        BY DecodeBits, SMT
      <4>3. NewByte(value, d.bits, y) = (value % 16) * 16 + (y \div 4)
        BY <3>2, SMT DEF NewByte
      <4> QED BY <4>1, <4>2, <4>3, Zenon
    <3>3. CASE d.bits = -6
      <4>1. bits = 0
        BY <3>3, SMT
      <4>2. Bits(v, 0, 8) = (value % 4) * 64 + y
        BY DecodeBits, SMT
      <4>3. NewByte(value, d.bits, y) = (value % 4) * 64 + y
        BY <3>3, SMT DEF NewByte
      <4> QED BY <4>1, <4>2, <4>3, Zenon
    <3> QED BY <1>1, <1>5, <3>1, <3>2, <3>3
  <2>3. Append(d.out, Bits(v, bits, 8)) \in Seq(Byte)
    <3>1. NewByte(value, d.bits, y) \in Byte
      BY NewByteTyped, Zenon
    <3> QED BY <1>1, <2>2, <3>1
  <2>4. DecodeStep(d, c) = [value |-> v, bits |-> bits - 8, out |-> Append(d.out, Bits(v, bits, 8))]
    BY <1>2, <2>1, Zenon
  <2>5. DecodeStep(d, c) \in DecodeStates
    BY <1>3, <2>1, <2>3, <2>4, SMT DEF DecodeStates
  <2> QED BY <1>5, <2>1, <2>2, <2>4, <2>5, Zenon
<1> QED BY <1>4, <1>5

\* The loop of Base64UrlDecode.
LEMMA DecodeLoop ==
    ASSUME NEW s \in Seq(Alphabet)
    PROVE  \E g \in [0 .. Len(s) -> DecodeStates] :
             /\ g[0] = DecodeStart
             /\ \A n \in 1 .. Len(s) : g[n] = DecodeStep(g[n - 1], s[n])
             /\ Folded(DecodeStep, DecodeStart, s) = g[Len(s)]
<1> DEFINE S == DecodeStates
           step == [x \in S \X Alphabet |-> DecodeStep(x[1], x[2])]
           Loop(g) == [n \in 0 .. Len(s) |-> IF n = 0 THEN DecodeStart ELSE DecodeStep(g[n - 1], s[n])]
<1>1. DecodeStart \in S
  BY DEF DecodeStart, DecodeStates
<1>2. step \in [S \X Alphabet -> S]
  BY DecodeStepIs DEF Alphabet
<1>3. PICK f \in [0 .. Len(s) -> S] :
        f[0] = DecodeStart /\ \A n \in 1 .. Len(s) : f[n] = step[<<f[n - 1], s[n]>>]
  <2> HIDE DEF step, S
  <2>1. Folds(S, s, DecodeStart, step) # {}
    BY <1>1, <1>2, FoldRuns, Zenon
  <2> QED BY <2>1, Zenon DEF Folds
<1>4. ASSUME NEW n \in 1 .. Len(s) PROVE f[n] = DecodeStep(f[n - 1], s[n])
  <2>1. <<f[n - 1], s[n]>> \in S \X Alphabet
    OBVIOUS
  <2> QED BY <1>3, <2>1
<1>5. f = Loop(f)
  BY <1>3, <1>4
<1>6. Folded(DecodeStep, DecodeStart, s) = (CHOOSE g : g = Loop(g))[Len(s)]
  BY DEF Folded
<1>7. PICK g : g = Loop(g) /\ Folded(DecodeStep, DecodeStart, s) = g[Len(s)]
  <2> HIDE DEF Loop
  <2> QED BY <1>5, <1>6
<1>8. g[0] = DecodeStart /\ \A n \in 1 .. Len(s) : g[n] = DecodeStep(g[n - 1], s[n])
  BY <1>7
<1>9. \A n \in 0 .. Len(s) : g[n] = f[n]
  <2> DEFINE T == {m \in 0 .. Len(s) : g[m] = f[m]}
  <2>1. 0 \in T
    BY <1>3, <1>8
  <2>2. ASSUME NEW i \in 0 .. Len(s) - 1, i \in T PROVE i + 1 \in T
    <3>1. i + 1 \in 1 .. Len(s) /\ (i + 1) - 1 = i /\ i + 1 \in 0 .. Len(s)
      OBVIOUS
    <3>2. g[i] = f[i]
      BY <2>2, Zenon
    <3> HIDE DEF T, Loop, S, step
    <3>3. g[i + 1] = f[i + 1]
      BY <1>4, <1>8, <3>1, <3>2, SMT
    <3> QED BY <3>1, <3>3, Zenon DEF T
  <2>3. Len(s) \in Nat
    OBVIOUS
  <2>4. \A n \in 0 .. Len(s) : n \in T
    <3> HIDE DEF T
    <3> QED BY <2>1, <2>2, <2>3, UpTo, Zenon
  <2> QED BY <2>4, Zenon
<1>10. g = f
  BY <1>7, <1>9
<1> QED BY <1>3, <1>7, <1>8, <1>10

\* What Base64UrlDecode has after the values up to m.
Pending(m) == IF m % 4 = 0 THEN -8 ELSE IF m % 4 = 1 THEN -2 ELSE IF m % 4 = 2 THEN -4 ELSE -6
DecodeInv(x, m, d) ==
    /\ d.bits = Pending(m)
    /\ m > 0 => d.value % 64 = x[m]
    /\ Len(d.out) = (3 * m) \div 4
    /\ \A i \in 1 .. (3 * m) \div 4 : d.out[i] = ByteAt(x, i)

\* Remainders and lengths in fours.
LEMMA Quarters ==
    ASSUME NEW m \in Nat
    PROVE  /\ m % 4 \in {0, 1, 2, 3}
           /\ m % 4 # 0 => m > 0
           /\ m % 4 = 0 => (3 * (m + 1)) \div 4 = (3 * m) \div 4
           /\ m % 4 # 0 => (3 * (m + 1)) \div 4 = (3 * m) \div 4 + 1 /\ At((3 * m) \div 4 + 1) = m
           /\ m % 4 = 1 => ((3 * m) \div 4 + 1) % 3 = 1
           /\ m % 4 = 2 => ((3 * m) \div 4 + 1) % 3 = 2
           /\ m % 4 = 3 => ((3 * m) \div 4 + 1) % 3 = 0
           /\ Pending(m + 1) = IF Pending(m) = -8 THEN -2 ELSE Pending(m) - 2
           /\ Pending(m) = -8 <=> m % 4 = 0
           /\ (3 * m) \div 4 \in Nat
<1>1. PICK q \in Nat, r \in 0 .. 3 : m = 4 * q + r /\ m % 4 = r
  BY SMT
<1>2. CASE r = 0
  BY <1>1, <1>2, SMT DEF At, Pending
<1>3. CASE r = 1
  BY <1>1, <1>3, SMT DEF At, Pending
<1>4. CASE r = 2
  BY <1>1, <1>4, SMT DEF At, Pending
<1>5. CASE r = 3
  BY <1>1, <1>5, SMT DEF At, Pending
<1> QED BY <1>1, <1>2, <1>3, <1>4, <1>5, SMT

\* The low bits of six.
LEMMA LowBits ==
    ASSUME NEW value \in Nat, NEW y \in Sextet, value % 64 = y
    PROVE  value % 16 = y % 16 /\ value % 4 = y % 4
BY SMT DEF Sextet

\* The byte that a round adds is the one that is spelled there.
LEMMA NewByteIs ==
    ASSUME NEW x \in Seq(Sextet), NEW m \in 1 .. Len(x) - 1, m % 4 # 0,
           NEW value \in Nat, value % 64 = x[m]
    PROVE  NewByte(value, Pending(m), x[m + 1]) = ByteAt(x, (3 * m) \div 4 + 1)
<1> PICK i : i = (3 * m) \div 4 + 1
  OBVIOUS
<1>0. m \in Nat /\ m % 4 \in {1, 2, 3} /\ At(i) = m
  <2>1. m \in Nat
    BY SMT
  <2>2. m % 4 \in {0, 1, 2, 3} /\ At(i) = m
    BY <2>1, Quarters, Zenon
  <2> QED BY <2>1, <2>2
<1>1. value % 16 = x[m] % 16 /\ value % 4 = x[m] % 4
  <2> PICK a \in Sextet : a = x[m]
    BY SMT
  <2> QED BY LowBits, Zenon
<1>2. CASE m % 4 = 1
  <2>1. Pending(m) = -2
    BY <1>2, SMT DEF Pending
  <2>2. i % 3 = 1
    BY <1>0, <1>2, Quarters, Zenon
  <2>3. ByteAt(x, i) = x[m] * 4 + (x[m + 1] \div 16)
    BY <1>0, <2>2, Zenon DEF ByteAt
  <2>4. NewByte(value, Pending(m), x[m + 1]) = (value % 64) * 4 + (x[m + 1] \div 16)
    BY <2>1, Zenon DEF NewByte
  <2> QED BY <2>3, <2>4
<1>3. CASE m % 4 = 2
  <2>1. Pending(m) = -4
    BY <1>3, SMT DEF Pending
  <2>2. i % 3 = 2 /\ i % 3 # 1
    <3>1. i % 3 = 2
      BY <1>0, <1>3, Quarters, Zenon
    <3> QED BY <3>1, SMT
  <2>3. ByteAt(x, i) = (x[m] % 16) * 16 + (x[m + 1] \div 4)
    BY <1>0, <2>2, Zenon DEF ByteAt
  <2>4. NewByte(value, Pending(m), x[m + 1]) = (value % 16) * 16 + (x[m + 1] \div 4)
    BY <2>1, SMT DEF NewByte
  <2> QED BY <1>1, <2>3, <2>4
<1>4. CASE m % 4 = 3
  <2>1. Pending(m) = -6
    BY <1>4, SMT DEF Pending
  <2>2. i % 3 # 2 /\ i % 3 # 1
    <3>1. i % 3 = 0
      BY <1>0, <1>4, Quarters, Zenon
    <3> QED BY <3>1, SMT
  <2>3. ByteAt(x, i) = (x[m] % 4) * 64 + x[m + 1]
    BY <1>0, <2>2, Zenon DEF ByteAt
  <2>4. NewByte(value, Pending(m), x[m + 1]) = (value % 4) * 64 + x[m + 1]
    BY <2>1, SMT DEF NewByte
  <2> QED BY <1>1, <2>3, <2>4
<1> QED BY <1>0, <1>2, <1>3, <1>4

\* A round keeps the bytes and adds the one that is complete.
LEMMA DecodeInvStep ==
    ASSUME NEW x \in Seq(Sextet), NEW m \in 0 .. Len(x) - 1, NEW d \in DecodeStates, DecodeInv(x, m, d),
           NEW c, Base64UrlValue(c) = x[m + 1]
    PROVE  DecodeInv(x, m + 1, DecodeStep(d, c))
<1> PICK y \in Sextet : y = x[m + 1]
  OBVIOUS
<1> PICK e : e = DecodeStep(d, c)
  OBVIOUS
<1>0. m \in Nat /\ m + 1 > 0 /\ m + 1 \in 1 .. Len(x)
  BY SMT
<1>1. /\ d.value \in Nat /\ d.out \in Seq(Byte) /\ d.bits = Pending(m)
      /\ m > 0 => d.value % 64 = x[m]
  BY SMT DEF DecodeStates, DecodeInv
<1> PICK value \in Nat : value = d.value
  BY <1>1
<1> PICK out \in Seq(Byte) : out = d.out
  BY <1>1
<1> PICK len \in Nat : len = (3 * m) \div 4
  BY <1>0, Quarters, Zenon
<1>2. Len(out) = len /\ \A i \in 1 .. len : out[i] = ByteAt(x, i)
  BY Zenon DEF DecodeInv
<1>3. e = [value |-> Shifted(d.value, 6, y),
           bits |-> IF d.bits = -8 THEN -2 ELSE d.bits - 2,
           out |-> IF d.bits = -8 THEN d.out ELSE Append(d.out, NewByte(d.value, d.bits, y))]
  BY DecodeStepIs, Zenon
<1>4. /\ e.value = Shifted(value, 6, y)
      /\ e.bits = IF Pending(m) = -8 THEN -2 ELSE Pending(m) - 2
      /\ e.out = IF Pending(m) = -8 THEN out ELSE Append(out, NewByte(value, Pending(m), y))
  BY <1>1, <1>3, SMT
<1>5. e.bits = Pending(m + 1)
  BY <1>0, <1>4, Quarters, Zenon
<1>6. e.value % 64 = x[m + 1]
  BY <1>4, DecodeLow, SMT
<1>7. CASE m % 4 = 0
  <2>1. Pending(m) = -8 /\ (3 * (m + 1)) \div 4 = len
    BY <1>0, <1>7, Quarters, Zenon
  <2>2. e.out = out
    BY <1>4, <2>1, Zenon
  <2> QED BY <1>2, <1>5, <1>6, <2>1, <2>2, Zenon DEF DecodeInv
<1>8. CASE m % 4 # 0
  <2>1. Pending(m) # -8 /\ (3 * (m + 1)) \div 4 = len + 1 /\ m > 0
    BY <1>0, <1>8, Quarters, Zenon
  <2>2. m \in 1 .. Len(x) - 1
    BY <2>1, SMT
  <2>3. value % 64 = x[m]
    BY <1>1, <2>1
  <2> PICK b : b = NewByte(value, Pending(m), y)
    OBVIOUS
  <2>4. b = ByteAt(x, len + 1)
    BY <1>8, <2>2, <2>3, NewByteIs, Zenon
  <2>5. e.out = Append(out, b)
    BY <1>4, <2>1, Zenon
  <2>6. Len(e.out) = len + 1 /\ e.out[len + 1] = b /\ \A i \in 1 .. len : e.out[i] = out[i]
    BY <1>2, <2>5, SMTT(40)
  <2>7. \A i \in 1 .. len + 1 : i = len + 1 \/ i \in 1 .. len
    BY SMT
  <2>8. \A i \in 1 .. len + 1 : e.out[i] = ByteAt(x, i)
    BY <1>2, <2>4, <2>6, <2>7, Zenon
  <2> QED BY <1>5, <1>6, <2>1, <2>6, <2>8, Zenon DEF DecodeInv
<1> QED BY <1>7, <1>8

\* base64url keeps the bytes: what Base64UrlEncode writes, Base64UrlDecode reads,
\* whatever the length, and it never meets a character it does not know.
THEOREM Base64UrlKeepsBytes ==
    \A bytes \in Seq(0 .. 255) : Base64UrlDecode(Base64UrlEncode(bytes)) = <<bytes>>
<1> SUFFICES ASSUME NEW s \in Seq(Byte) PROVE Base64UrlDecode(Base64UrlEncode(s)) = <<s>>
  BY Zenon DEF Byte
<1> PICK N \in Nat : N = Len(s)
  OBVIOUS
<1>1. /\ Sextets(s) \in Seq(Sextet) /\ Len(Sextets(s)) = N + ((N + 2) \div 3)
      /\ \A i \in 1 .. N : ByteAt(Sextets(s), i) = s[i]
  BY SextetsSpell, Zenon
<1> PICK x \in Seq(Sextet) : x = Sextets(s)
  BY <1>1
<1> PICK M \in Nat : M = Len(x)
  OBVIOUS
<1> PICK t : t = [i \in 1 .. M |-> Base64UrlChar(x[i])]
  OBVIOUS
<1>2. Base64UrlEncode(s) = t
  BY Zenon DEF Base64UrlEncode
<1>3. \A i \in 1 .. M : x[i] \in Sextet
  OBVIOUS
<1>4. \A i \in 1 .. M : t[i] \in Alphabet /\ Base64UrlValue(t[i]) = x[i]
  <2> SUFFICES ASSUME NEW i \in 1 .. M PROVE t[i] \in Alphabet /\ Base64UrlValue(t[i]) = x[i]
    OBVIOUS
  <2>1. t[i] = Base64UrlChar(x[i])
    BY Zenon
  <2> QED BY <1>3, <2>1, CharValue, Zenon
<1>5. t \in Seq(Alphabet) /\ Len(t) = M
  <2>1. t \in [1 .. M -> Alphabet]
    BY <1>4
  <2> QED BY <2>1
<1>6. ~ \E i \in 1 .. Len(t) : Base64UrlValue(t[i]) = -1
  <2>1. \A v \in Sextet : v # -1
    BY SMT DEF Sextet
  <2> QED BY <1>3, <1>4, <1>5, <2>1, Zenon
<1>7. PICK g \in [0 .. M -> DecodeStates] :
        /\ g[0] = DecodeStart
        /\ \A n \in 1 .. M : g[n] = DecodeStep(g[n - 1], t[n])
        /\ Folded(DecodeStep, DecodeStart, t) = g[M]
  <2>1. \E g \in [0 .. Len(t) -> DecodeStates] :
             /\ g[0] = DecodeStart
             /\ \A n \in 1 .. Len(t) : g[n] = DecodeStep(g[n - 1], t[n])
             /\ Folded(DecodeStep, DecodeStart, t) = g[Len(t)]
    BY <1>5, DecodeLoop
  <2>2. Len(t) = M
    BY <1>5
  <2> QED BY <2>1, <2>2, SMTT(40)
<1>8. Base64UrlDecode(t) = <<g[M].out>>
  <2>1. Base64UrlDecode(t) = <<Folded(DecodeStep, DecodeStart, t).out>>
    BY <1>6, Zenon DEF Base64UrlDecode, DecodeStart
  <2> QED BY <1>7, <2>1, Zenon
<1>9. DecodeInv(x, M, g[M])
  <2> DEFINE T == {n \in 0 .. M : DecodeInv(x, n, g[n])}
  <2>1. 0 \in T
    <3>1. g[0].bits = -8 /\ g[0].out = <<>>
      BY <1>7 DEF DecodeStart
    <3>2. (3 * 0) \div 4 = 0 /\ Len(<<>>) = 0 /\ ~ (0 > 0) /\ 0 \in 0 .. M /\ 1 .. 0 = {}
      BY SMT
    <3>3. Pending(0) = -8
      BY SMT DEF Pending
    <3>4. DecodeInv(x, 0, g[0])
      BY <3>1, <3>2, <3>3, SMT DEF DecodeInv
    <3> QED BY <3>2, <3>4, Zenon
  <2>2. ASSUME NEW n \in 0 .. M - 1, n \in T PROVE n + 1 \in T
    <3>1. n + 1 \in 1 .. M /\ n + 1 \in 0 .. M /\ (n + 1) - 1 = n /\ n \in 0 .. M
      BY SMT
    <3>2. DecodeInv(x, n, g[n]) /\ g[n] \in DecodeStates
      BY <2>2, <3>1, Zenon
    <3>3. g[n + 1] = DecodeStep(g[n], t[n + 1]) /\ Base64UrlValue(t[n + 1]) = x[n + 1]
      BY <1>4, <1>7, <3>1, SMT
    <3> HIDE DEF T
    <3>4. DecodeInv(x, n + 1, g[n + 1])
      BY <3>2, <3>3, DecodeInvStep, Zenon
    <3> QED BY <3>1, <3>4, Zenon DEF T
  <2> HIDE DEF T
  <2>3. M \in T
    <3>1. M \in 0 .. M
      BY SMT
    <3> QED BY <2>1, <2>2, <3>1, UpTo, Zenon
  <2> QED BY <2>3, Zenon DEF T
<1>10. (3 * M) \div 4 = N
  <2>1. M = N + ((N + 2) \div 3)
    BY <1>1
  <2>2. PICK q \in Nat, r \in 0 .. 2 : N = 3 * q + r
    BY SMT
  <2> QED BY <2>1, <2>2, SMT
<1>11. g[M].out \in Seq(Byte)
  BY <1>7, SMT DEF DecodeStates
<1> PICK out \in Seq(Byte) : out = g[M].out
  BY <1>11
<1>12. Len(out) = N /\ \A i \in 1 .. N : out[i] = s[i]
  BY <1>1, <1>9, <1>10, Zenon DEF DecodeInv
<1>13. out = s
  BY <1>12, SeqEqual, Zenon
<1> QED BY <1>2, <1>8, <1>13, Zenon

-----------------------------------------------------------------------------
(* JSON strings *)

ReadStates == [done : BOOLEAN, escaped : BOOLEAN, value : Seq(Byte)]
ReadStart == [done |-> FALSE, escaped |-> FALSE, value |-> <<>>]

\* The characters that the grammar uses are all different.
LEMMA Marks ==
    /\ Quote \in Byte /\ Comma \in Byte /\ Minus \in Byte /\ Zero \in Byte /\ Colon \in Byte
    /\ Backslash \in Byte /\ 125 \in Byte /\ Quote # Backslash /\ Quote # Comma /\ Quote # Colon
    /\ Comma # Colon /\ Comma # Backslash /\ Colon # Backslash
BY SMT DEF Quote, Comma, Minus, Zero, Colon, Backslash, Byte

\* A character is written as its letter behind a backslash, or, when it has no
\* meaning for the reader and no letter of its own, as it is.
LEMMA EscapedIs ==
    ASSUME NEW c \in Byte
    PROVE  /\ LetterOf(c) \in Byte
           /\ \/ c \notin {Quote, Backslash} /\ LetterOf(c) = c /\ Escaped(c) = <<c>>
              \/ Escaped(c) = <<Backslash, LetterOf(c)>>
<1>1. LetterOf(c) \in Byte
  BY SMT DEF LetterOf, Byte
<1>2. c \notin Controls => LetterOf(c) = c
  BY Zenon DEF LetterOf, Controls
<1>3. \/ c \notin {Quote, Backslash} \cup Controls /\ Escaped(c) = <<c>>
      \/ Escaped(c) = <<Backslash, LetterOf(c)>>
  BY Zenon DEF Escaped
<1> QED BY <1>1, <1>2, <1>3

\* Escaping yields bytes.
LEMMA EscapeStepTyped ==
    ASSUME NEW out \in Seq(Byte), NEW c \in Byte
    PROVE  EscapeStep(out, c) \in Seq(Byte)
<1>1. Escaped(c) \in Seq(Byte)
  <2>1. Backslash \in Byte /\ LetterOf(c) \in Byte
    BY Marks, EscapedIs
  <2>2. <<c>> \in Seq(Byte) /\ <<Backslash, LetterOf(c)>> \in Seq(Byte)
    BY <2>1
  <2> QED BY <2>2, EscapedIs, Zenon
<1> QED BY <1>1 DEF EscapeStep

\* Reading yields bytes.
LEMMA ReadStepTyped ==
    ASSUME NEW s \in ReadStates, NEW c \in Byte
    PROVE  ReadStep(s, c) \in ReadStates
<1>1. Append(s.value, c) \in Seq(Byte)
  BY DEF ReadStates
<1> QED BY <1>1 DEF ReadStates, ReadStep

\* The loop of JsonEscape.
LEMMA EscapeLoop ==
    ASSUME NEW s \in Seq(Byte)
    PROVE  \E g \in [0 .. Len(s) -> Seq(Byte)] :
             /\ g[0] = <<>>
             /\ \A n \in 1 .. Len(s) : g[n] = EscapeStep(g[n - 1], s[n])
             /\ Folded(EscapeStep, <<>>, s) = g[Len(s)]
<1> DEFINE S == Seq(Byte)
           A == Byte
           step == [x \in S \X A |-> EscapeStep(x[1], x[2])]
           Loop(g) == [n \in 0 .. Len(s) |-> IF n = 0 THEN <<>> ELSE EscapeStep(g[n - 1], s[n])]
<1>1. <<>> \in S
  OBVIOUS
<1>2. step \in [S \X A -> S]
  BY EscapeStepTyped
<1>3. PICK f \in [0 .. Len(s) -> S] :
        f[0] = <<>> /\ \A n \in 1 .. Len(s) : f[n] = step[<<f[n - 1], s[n]>>]
  <2>1. s \in Seq(A)
    OBVIOUS
  <2> HIDE DEF step, S, A
  <2>2. Folds(S, s, <<>>, step) # {}
    BY <1>1, <1>2, <2>1, FoldRuns, Zenon
  <2> QED BY <2>2, Zenon DEF Folds
<1>4. ASSUME NEW n \in 1 .. Len(s) PROVE f[n] = EscapeStep(f[n - 1], s[n])
  <2>1. <<f[n - 1], s[n]>> \in S \X A
    OBVIOUS
  <2> QED BY <1>3, <2>1
<1>5. f = Loop(f)
  BY <1>3, <1>4
<1>6. Folded(EscapeStep, <<>>, s) = (CHOOSE g : g = Loop(g))[Len(s)]
  BY DEF Folded
<1>7. PICK g : g = Loop(g) /\ Folded(EscapeStep, <<>>, s) = g[Len(s)]
  <2> HIDE DEF Loop
  <2> QED BY <1>5, <1>6
<1>8. g[0] = <<>> /\ \A n \in 1 .. Len(s) : g[n] = EscapeStep(g[n - 1], s[n])
  BY <1>7
<1>9. \A n \in 0 .. Len(s) : g[n] = f[n]
  <2> DEFINE T == {m \in 0 .. Len(s) : g[m] = f[m]}
  <2>1. 0 \in T
    BY <1>3, <1>8
  <2>2. ASSUME NEW i \in 0 .. Len(s) - 1, i \in T PROVE i + 1 \in T
    <3>1. i + 1 \in 1 .. Len(s) /\ (i + 1) - 1 = i /\ i + 1 \in 0 .. Len(s)
      OBVIOUS
    <3>2. g[i] = f[i]
      BY <2>2, Zenon
    <3> HIDE DEF T, Loop, S, step
    <3>3. g[i + 1] = f[i + 1]
      BY <1>4, <1>8, <3>1, <3>2, SMT
    <3> QED BY <3>1, <3>3, Zenon DEF T
  <2>3. Len(s) \in Nat
    OBVIOUS
  <2>4. \A n \in 0 .. Len(s) : n \in T
    <3> HIDE DEF T
    <3> QED BY <2>1, <2>2, <2>3, UpTo, Zenon
  <2> QED BY <2>4, Zenon
<1>10. g = f
  BY <1>7, <1>9
<1> QED BY <1>3, <1>7, <1>8, <1>10

\* The loop of JsonStringValue.
LEMMA ReadLoop ==
    ASSUME NEW s \in Seq(Byte)
    PROVE  \E g \in [0 .. Len(s) -> ReadStates] :
             /\ g[0] = ReadStart
             /\ \A n \in 1 .. Len(s) : g[n] = ReadStep(g[n - 1], s[n])
             /\ Folded(ReadStep, ReadStart, s) = g[Len(s)]
<1> DEFINE S == ReadStates
           A == Byte
           step == [x \in S \X A |-> ReadStep(x[1], x[2])]
           Loop(g) == [n \in 0 .. Len(s) |-> IF n = 0 THEN ReadStart ELSE ReadStep(g[n - 1], s[n])]
<1>1. ReadStart \in S
  BY DEF ReadStart, ReadStates
<1>2. step \in [S \X A -> S]
  BY ReadStepTyped
<1>3. PICK f \in [0 .. Len(s) -> S] :
        f[0] = ReadStart /\ \A n \in 1 .. Len(s) : f[n] = step[<<f[n - 1], s[n]>>]
  <2>1. s \in Seq(A)
    OBVIOUS
  <2> HIDE DEF step, S, A
  <2>2. Folds(S, s, ReadStart, step) # {}
    BY <1>1, <1>2, <2>1, FoldRuns, Zenon
  <2> QED BY <2>2, Zenon DEF Folds
<1>4. ASSUME NEW n \in 1 .. Len(s) PROVE f[n] = ReadStep(f[n - 1], s[n])
  <2>1. <<f[n - 1], s[n]>> \in S \X A
    OBVIOUS
  <2> QED BY <1>3, <2>1
<1>5. f = Loop(f)
  BY <1>3, <1>4
<1>6. Folded(ReadStep, ReadStart, s) = (CHOOSE g : g = Loop(g))[Len(s)]
  BY DEF Folded
<1>7. PICK g : g = Loop(g) /\ Folded(ReadStep, ReadStart, s) = g[Len(s)]
  <2> HIDE DEF Loop
  <2> QED BY <1>5, <1>6
<1>8. g[0] = ReadStart /\ \A n \in 1 .. Len(s) : g[n] = ReadStep(g[n - 1], s[n])
  BY <1>7
<1>9. \A n \in 0 .. Len(s) : g[n] = f[n]
  <2> DEFINE T == {m \in 0 .. Len(s) : g[m] = f[m]}
  <2>1. 0 \in T
    BY <1>3, <1>8
  <2>2. ASSUME NEW i \in 0 .. Len(s) - 1, i \in T PROVE i + 1 \in T
    <3>1. i + 1 \in 1 .. Len(s) /\ (i + 1) - 1 = i /\ i + 1 \in 0 .. Len(s)
      OBVIOUS
    <3>2. g[i] = f[i]
      BY <2>2, Zenon
    <3> HIDE DEF T, Loop, S, step
    <3>3. g[i + 1] = f[i + 1]
      BY <1>4, <1>8, <3>1, <3>2, SMT
    <3> QED BY <3>1, <3>3, Zenon DEF T
  <2>3. Len(s) \in Nat
    OBVIOUS
  <2>4. \A n \in 0 .. Len(s) : n \in T
    <3> HIDE DEF T
    <3> QED BY <2>1, <2>2, <2>3, UpTo, Zenon
  <2> QED BY <2>4, Zenon
<1>10. g = f
  BY <1>7, <1>9
<1> QED BY <1>3, <1>7, <1>8, <1>10

\* a begins b.
Begins(a, b) == Len(a) <= Len(b) /\ \A i \in 1 .. Len(a) : a[i] = b[i]

\* Every quote has a backslash before it.
QuotesEscaped(e) == \A i \in 1 .. Len(e) : e[i] = Quote => i > 1 /\ e[i - 1] = Backslash

\* Escaping a character adds to the text and leaves no quote bare.
LEMMA EscapeStepDoes ==
    ASSUME NEW e \in Seq(Byte), NEW c \in Byte, QuotesEscaped(e)
    PROVE  Begins(e, EscapeStep(e, c)) /\ QuotesEscaped(EscapeStep(e, c))
<1> PICK len \in Nat : len = Len(e)
  OBVIOUS
<1>0. Backslash \in Byte /\ Backslash # Quote /\ LetterOf(c) \in Byte
  BY Marks, EscapedIs, Zenon
<1>1. ASSUME NEW a \in Byte, a # Quote
      PROVE  Begins(e, e \o <<a>>) /\ QuotesEscaped(e \o <<a>>)
  <2> PICK d : d = e \o <<a>>
    OBVIOUS
  <2>1. Len(d) = len + 1 /\ d[len + 1] = a /\ \A i \in 1 .. len : d[i] = e[i]
    BY SMT
  <2>2. Begins(e, d)
    BY <2>1, SMT DEF Begins
  <2>3. ASSUME NEW i \in 1 .. len + 1, d[i] = Quote PROVE i > 1 /\ d[i - 1] = Backslash
    <3>1. i \in 1 .. len
      BY <1>1, <2>1, <2>3, SMT
    <3>2. e[i] = Quote
      BY <2>1, <2>3, <3>1, Zenon
    <3>3. i > 1 /\ e[i - 1] = Backslash
      BY <3>1, <3>2, Zenon DEF QuotesEscaped
    <3>4. i - 1 \in 1 .. len
      BY <3>1, <3>3, SMT
    <3> QED BY <2>1, <3>3, <3>4, Zenon
  <2> QED BY <2>1, <2>2, <2>3, Zenon DEF QuotesEscaped
<1>2. ASSUME NEW a \in Byte
      PROVE  Begins(e, e \o <<Backslash, a>>) /\ QuotesEscaped(e \o <<Backslash, a>>)
  <2> PICK d : d = e \o <<Backslash, a>>
    OBVIOUS
  <2>1. Len(d) = len + 2 /\ d[len + 1] = Backslash /\ d[len + 2] = a /\ \A i \in 1 .. len : d[i] = e[i]
    BY <1>0, SMT
  <2>2. Begins(e, d)
    BY <2>1, SMT DEF Begins
  <2>3. ASSUME NEW i \in 1 .. len + 2, d[i] = Quote PROVE i > 1 /\ d[i - 1] = Backslash
    <3>1. i \in 1 .. len \/ i = len + 2
      BY <1>0, <2>1, <2>3, SMT
    <3>2. CASE i = len + 2
      <4>1. i > 1 /\ i - 1 = len + 1
        BY <3>2, SMT
      <4> QED BY <2>1, <4>1, Zenon
    <3>3. CASE i \in 1 .. len
      <4>2. e[i] = Quote
        BY <2>1, <2>3, <3>3, Zenon
      <4>3. i > 1 /\ e[i - 1] = Backslash
        BY <3>3, <4>2, Zenon DEF QuotesEscaped
      <4>4. i - 1 \in 1 .. len
        BY <3>3, <4>3, SMT
      <4> QED BY <2>1, <4>3, <4>4, Zenon
    <3> QED BY <3>1, <3>2, <3>3
  <2> QED BY <2>1, <2>2, <2>3, Zenon DEF QuotesEscaped
<1>3. /\ EscapeStep(e, c) = e \o Escaped(c)
      /\ \/ c # Quote /\ Escaped(c) = <<c>>
         \/ Escaped(c) = <<Backslash, LetterOf(c)>>
  BY EscapedIs, Zenon DEF EscapeStep
<1> QED BY <1>0, <1>1, <1>2, <1>3, Zenon

\* The stages of JsonEscape, each of which begins the text it yields.
LEMMA EscapeStages ==
    ASSUME NEW t \in Seq(Byte)
    PROVE  /\ JsonEscape(t) \in Seq(Byte) /\ QuotesEscaped(JsonEscape(t))
           /\ \E g \in [0 .. Len(t) -> Seq(Byte)] :
                /\ g[0] = <<>> /\ g[Len(t)] = JsonEscape(t)
                /\ \A n \in 1 .. Len(t) : g[n] = g[n - 1] \o Escaped(t[n])
                /\ \A n \in 0 .. Len(t) : Begins(g[n], JsonEscape(t))
<1> PICK N \in Nat : N = Len(t)
  OBVIOUS
<1>1. PICK g \in [0 .. N -> Seq(Byte)] :
        /\ g[0] = <<>>
        /\ \A n \in 1 .. N : g[n] = EscapeStep(g[n - 1], t[n])
        /\ Folded(EscapeStep, <<>>, t) = g[N]
  BY EscapeLoop, Zenon
<1>2. JsonEscape(t) = g[N]
  BY <1>1, Zenon DEF JsonEscape
<1>3. N \in 0 .. N /\ 0 \in 0 .. N
  BY SMT
<1>4. g[N] \in Seq(Byte)
  BY <1>3, Zenon
<1>5. \A n \in 0 .. N - 1 : /\ n + 1 \in 1 .. N /\ n + 1 \in 0 .. N /\ n \in 0 .. N
                            /\ g[n + 1] = EscapeStep(g[n], t[n + 1]) /\ t[n + 1] \in Byte
  <2> SUFFICES ASSUME NEW n \in 0 .. N - 1
               PROVE  /\ n + 1 \in 1 .. N /\ n + 1 \in 0 .. N /\ n \in 0 .. N
                      /\ g[n + 1] = EscapeStep(g[n], t[n + 1]) /\ t[n + 1] \in Byte
    OBVIOUS
  <2>1. n + 1 \in 1 .. N /\ n + 1 \in 0 .. N /\ n \in 0 .. N /\ (n + 1) - 1 = n
    BY SMT
  <2>2. t[n + 1] \in Byte
    BY <2>1, SMT
  <2> QED BY <1>1, <2>1, <2>2, SMT
<1>6. \A n \in 0 .. N : QuotesEscaped(g[n])
  <2> DEFINE T == {n \in 0 .. N : QuotesEscaped(g[n])}
  <2>1. 0 \in T
    <3>1. QuotesEscaped(<<>>)
      BY SMT DEF QuotesEscaped
    <3> QED BY <1>1, <1>3, <3>1, Zenon
  <2>2. ASSUME NEW n \in 0 .. N - 1, n \in T PROVE n + 1 \in T
    <3>1. g[n] \in Seq(Byte) /\ QuotesEscaped(g[n])
      BY <1>5, <2>2, Zenon
    <3>2. QuotesEscaped(g[n + 1])
      BY <1>5, <3>1, EscapeStepDoes, Zenon
    <3> QED BY <1>5, <3>2, Zenon
  <2> HIDE DEF T
  <2>3. \A n \in 0 .. N : n \in T
    BY <2>1, <2>2, UpTo, Zenon
  <2> QED BY <2>3, Zenon DEF T
<1>7. \A n \in 0 .. N : Begins(g[n], g[N])
  <2> DEFINE T == {k \in 0 .. N : Begins(g[N - k], g[N])}
  <2>1. 0 \in T
    <3>1. Begins(g[N], g[N])
      BY <1>4, SMT DEF Begins
    <3>2. N - 0 = N
      BY SMT
    <3> QED BY <1>3, <3>1, <3>2, Zenon
  <2>2. ASSUME NEW k \in 0 .. N - 1, k \in T PROVE k + 1 \in T
    <3>0. N - (k + 1) \in 0 .. N - 1
      BY SMT
    <3> PICK n \in 0 .. N - 1 : n = N - (k + 1)
      BY <3>0, Zenon
    <3>1. N - k = n + 1 /\ k + 1 \in 0 .. N
      BY SMT
    <3>2. Begins(g[n + 1], g[N])
      BY <2>2, <3>1, Zenon
    <3>3. g[n] \in Seq(Byte) /\ g[n + 1] \in Seq(Byte) /\ QuotesEscaped(g[n])
      BY <1>5, <1>6, Zenon
    <3>4. Begins(g[n], g[n + 1])
      BY <1>5, <3>3, EscapeStepDoes, Zenon
    <3>5. Begins(g[n], g[N])
      <4> PICK a \in Seq(Byte) : a = g[n]
        BY <3>3
      <4> PICK b \in Seq(Byte) : b = g[n + 1]
        BY <3>3
      <4> PICK c \in Seq(Byte) : c = g[N]
        BY <1>4
      <4>1. Begins(a, b) /\ Begins(b, c)
        BY <3>2, <3>4, Zenon
      <4>2. Begins(a, c)
        BY <4>1, SMT DEF Begins
      <4> QED BY <4>2, Zenon
    <3> QED BY <3>1, <3>5, Zenon
  <2> HIDE DEF T
  <2>3. \A k \in 0 .. N : k \in T
    BY <2>1, <2>2, UpTo, Zenon
  <2>4. ASSUME NEW n \in 0 .. N PROVE Begins(g[n], g[N])
    <3>0. N - n \in 0 .. N
      BY SMT
    <3> PICK k \in 0 .. N : k = N - n
      BY <3>0, Zenon
    <3>1. N - k = n
      BY SMT
    <3>2. k \in T
      BY <2>3, Zenon
    <3> QED BY <3>1, <3>2, Zenon DEF T
  <2> QED BY <2>4, Zenon
<1>8. \A n \in 1 .. N : g[n] = g[n - 1] \o Escaped(t[n])
  BY <1>1, Zenon DEF EscapeStep
<1> QED BY <1>1, <1>2, <1>3, <1>4, <1>6, <1>7, <1>8, Zenon

\* A text that begins with another one, escaped, and a bare quote.
QuotedText(w, t) ==
    LET e == JsonEscape(t)
    IN  /\ w \in Seq(Byte) /\ Begins(e, w) /\ Len(e) < Len(w) /\ w[Len(e) + 1] = Quote

\* Where the reader is after the characters up to n of the text.
ReadUpTo(t, n, r) ==
    /\ r \in ReadStates /\ ~ r.done /\ ~ r.escaped
    /\ Len(r.value) = n /\ \A i \in 1 .. n : r.value[i] = Letters(t)[i]

\* A round of JsonStringValue for a character that has no special meaning, for
\* a backslash, behind a backslash, for a bare quote, and behind the end.
LEMMA ReadStepDoes ==
    ASSUME NEW r \in ReadStates, NEW c \in Byte
    PROVE  /\ ~ r.done /\ ~ r.escaped /\ c \notin {Quote, Backslash} =>
                ReadStep(r, c) = [done |-> FALSE, escaped |-> FALSE, value |-> Append(r.value, c)]
           /\ ~ r.done /\ ~ r.escaped /\ c = Backslash =>
                ReadStep(r, c) = [done |-> FALSE, escaped |-> TRUE, value |-> r.value]
           /\ ~ r.done /\ r.escaped =>
                ReadStep(r, c) = [done |-> FALSE, escaped |-> FALSE, value |-> Append(r.value, c)]
           /\ ~ r.done /\ ~ r.escaped /\ c = Quote =>
                ReadStep(r, c) = [done |-> TRUE, escaped |-> FALSE, value |-> r.value]
           /\ r.done => ReadStep(r, c) = r
<1>1. Quote # Backslash
  BY Marks, Zenon
<1>2. /\ r.done \in BOOLEAN /\ r.escaped \in BOOLEAN
      /\ DOMAIN r = {"done", "escaped", "value"}
  BY SMT DEF ReadStates
<1> PICK q \in ReadStates : q = ReadStep(r, c)
  BY ReadStepTyped, Zenon
<1>8. q = [done |-> q.done, escaped |-> q.escaped, value |-> q.value]
  BY SMT DEF ReadStates
<1>3. CASE r.done
  BY <1>3, Zenon DEF ReadStep
<1>4. CASE ~ r.done /\ r.escaped
  <2>0. r.done = FALSE
    BY <1>2, <1>4
  <2>1. ReadStep(r, c) = [r EXCEPT !.escaped = FALSE, !.value = Append(r.value, c)]
    BY <1>4, Zenon DEF ReadStep
  <2>2. ReadStep(r, c) = [done |-> FALSE, escaped |-> FALSE, value |-> Append(r.value, c)]
    <3>1. q.done = FALSE /\ q.escaped = FALSE /\ q.value = Append(r.value, c)
      BY <1>2, <2>0, <2>1, SMT
    <3> QED BY <1>8, <3>1, Zenon
  <2> QED BY <1>4, <2>2, Zenon
<1>5. CASE ~ r.done /\ ~ r.escaped /\ c = Backslash
  <2>0. r.done = FALSE /\ r.escaped = FALSE
    BY <1>2, <1>5
  <2>1. ReadStep(r, c) = [r EXCEPT !.escaped = TRUE]
    BY <1>5, Zenon DEF ReadStep
  <2>2. ReadStep(r, c) = [done |-> FALSE, escaped |-> TRUE, value |-> r.value]
    <3>1. q.done = FALSE /\ q.escaped = TRUE /\ q.value = r.value
      BY <1>2, <2>0, <2>1, SMT
    <3> QED BY <1>8, <3>1, Zenon
  <2> QED BY <1>1, <1>5, <2>2, Zenon
<1>6. CASE ~ r.done /\ ~ r.escaped /\ c = Quote
  <2>0. r.done = FALSE /\ r.escaped = FALSE
    BY <1>2, <1>6
  <2>1. ReadStep(r, c) = [r EXCEPT !.done = TRUE]
    BY <1>1, <1>6, Zenon DEF ReadStep
  <2>2. ReadStep(r, c) = [done |-> TRUE, escaped |-> FALSE, value |-> r.value]
    <3>1. q.done = TRUE /\ q.escaped = FALSE /\ q.value = r.value
      BY <1>2, <2>0, <2>1, SMT
    <3> QED BY <1>8, <3>1, Zenon
  <2> QED BY <1>1, <1>6, <2>2, Zenon
<1>7. CASE ~ r.done /\ ~ r.escaped /\ c \notin {Quote, Backslash}
  <2>0. r.done = FALSE /\ r.escaped = FALSE
    BY <1>2, <1>7
  <2>1. ReadStep(r, c) = [r EXCEPT !.value = Append(r.value, c)]
    BY <1>7, Zenon DEF ReadStep
  <2>2. ReadStep(r, c) = [done |-> FALSE, escaped |-> FALSE, value |-> Append(r.value, c)]
    <3>1. q.done = FALSE /\ q.escaped = FALSE /\ q.value = Append(r.value, c)
      BY <1>2, <2>0, <2>1, SMT
    <3> QED BY <1>8, <3>1, Zenon
  <2> QED BY <1>7, <2>2, Zenon
<1> QED BY <1>3, <1>4, <1>5, <1>6, <1>7, Zenon

\* One character further in the value.
LEMMA ReadUpToNext ==
    ASSUME NEW t \in Seq(Byte), NEW n \in 0 .. Len(t) - 1, NEW r, ReadUpTo(t, n, r),
           NEW c \in Byte, c = Letters(t)[n + 1]
    PROVE  ReadUpTo(t, n + 1, [done |-> FALSE, escaped |-> FALSE, value |-> Append(r.value, c)])
<1>1. r.value \in Seq(Byte) /\ Len(r.value) = n /\ n \in Nat
  BY SMT DEF ReadUpTo, ReadStates
<1> PICK v \in Seq(Byte) : v = r.value
  BY <1>1
<1> PICK q : q = Append(v, c)
  OBVIOUS
<1>2. q \in Seq(Byte) /\ Len(q) = n + 1 /\ q[n + 1] = c /\ \A i \in 1 .. n : q[i] = v[i]
  BY <1>1, SMT
<1>3. \A i \in 1 .. n + 1 : i = n + 1 \/ i \in 1 .. n
  BY <1>1, SMT
<1>4. \A i \in 1 .. n + 1 : q[i] = Letters(t)[i]
  BY <1>2, <1>3, Zenon DEF ReadUpTo
<1> PICK d : d = [done |-> FALSE, escaped |-> FALSE, value |-> q]
  OBVIOUS
<1>5. d \in ReadStates /\ ~ d.done /\ ~ d.escaped /\ d.value = q
  BY <1>2, SMT DEF ReadStates
<1>6. ReadUpTo(t, n + 1, d)
  BY <1>2, <1>4, <1>5, Zenon DEF ReadUpTo
<1> QED BY <1>6, Zenon

\* JsonStringValue's loop reads a text that was escaped: its letters.
LEMMA TextIsRead ==
    ASSUME NEW t \in Seq(Byte), NEW w, QuotedText(w, t)
    PROVE  Folded(ReadStep, ReadStart, w) = [done |-> TRUE, escaped |-> FALSE, value |-> Letters(t)]
<1> PICK N \in Nat : N = Len(t)
  OBVIOUS
<1> PICK e : e = JsonEscape(t)
  OBVIOUS
<1>1. e \in Seq(Byte)
  BY EscapeStages, Zenon
<1>2. PICK g \in [0 .. N -> Seq(Byte)] :
        /\ g[0] = <<>> /\ g[N] = e
        /\ \A n \in 1 .. N : g[n] = g[n - 1] \o Escaped(t[n])
        /\ \A n \in 0 .. N : Begins(g[n], e)
  BY EscapeStages, Zenon
<1>3. w \in Seq(Byte) /\ Begins(e, w) /\ Len(e) < Len(w) /\ w[Len(e) + 1] = Quote
  BY Zenon DEF QuotedText
<1> PICK M \in Nat : M = Len(w)
  BY <1>3
<1> PICK L \in Nat : L = Len(e)
  BY <1>1
<1>4. PICK h \in [0 .. M -> ReadStates] :
        /\ h[0] = ReadStart
        /\ \A n \in 1 .. M : h[n] = ReadStep(h[n - 1], w[n])
        /\ Folded(ReadStep, ReadStart, w) = h[M]
  BY <1>3, ReadLoop, Zenon
<1>5. ASSUME NEW n \in 0 .. N PROVE Len(g[n]) \in Nat /\ Len(g[n]) <= L /\ \A i \in 1 .. Len(g[n]) : w[i] = g[n][i]
  <2> PICK a \in Seq(Byte) : a = g[n]
    OBVIOUS
  <2>1. Begins(a, e)
    BY <1>2, Zenon
  <2>2. Len(a) <= L /\ \A i \in 1 .. Len(a) : i \in 1 .. L /\ a[i] = e[i]
    BY <1>1, <2>1, SMT DEF Begins
  <2>3. \A i \in 1 .. L : e[i] = w[i]
    BY <1>3, Zenon DEF Begins
  <2> QED BY <2>2, <2>3
<1>6. L < M /\ w[L + 1] = Quote
  BY <1>3
<1>7. \A i \in 0 .. M - 1 : h[i + 1] = ReadStep(h[i], w[i + 1]) /\ w[i + 1] \in Byte /\ h[i] \in ReadStates
  <2> SUFFICES ASSUME NEW i \in 0 .. M - 1
               PROVE  h[i + 1] = ReadStep(h[i], w[i + 1]) /\ w[i + 1] \in Byte /\ h[i] \in ReadStates
    OBVIOUS
  <2>1. i + 1 \in 1 .. M /\ (i + 1) - 1 = i /\ i \in 0 .. M
    BY SMT
  <2>2. w[i + 1] \in Byte
    BY <1>3, <2>1, SMT
  <2> QED BY <1>4, <2>1, <2>2, Zenon
<1>8. ASSUME NEW n \in 0 .. N - 1, ReadUpTo(t, n, h[Len(g[n])])
      PROVE  ReadUpTo(t, n + 1, h[Len(g[n + 1])])
  <2>0. n + 1 \in 1 .. N /\ n + 1 \in 0 .. N /\ n \in 0 .. N /\ (n + 1) - 1 = n
    BY SMT
  <2> PICK c \in Byte : c = t[n + 1]
    BY <2>0, SMT
  <2> PICK a \in Seq(Byte) : a = g[n]
    BY <2>0, Zenon
  <2> PICK b \in Seq(Byte) : b = g[n + 1]
    BY <2>0, Zenon
  <2> PICK p \in Nat : p = Len(a)
    OBVIOUS
  <2>1. b = a \o Escaped(c)
    BY <1>2, <2>0, Zenon
  <2>2. Len(b) <= L /\ \A i \in 1 .. Len(b) : w[i] = b[i]
    BY <1>5, <2>0, Zenon
  <2> PICK r \in ReadStates : r = h[p]
    <3>1. p <= L
      BY <1>5, <2>0, Zenon
    <3>2. p \in 0 .. M
      BY <1>6, <3>1, SMT
    <3> QED BY <3>2, Zenon
  <2>3. ReadUpTo(t, n, r)
    BY <1>8, Zenon
  <2>4. ~ r.done /\ ~ r.escaped
    BY <2>3, Zenon DEF ReadUpTo
  <2> PICK x \in Byte : x = LetterOf(c)
    BY EscapedIs, Zenon
  <2>5. x = Letters(t)[n + 1]
    BY <2>0, Zenon DEF Letters
  <2>6. Backslash \in Byte
    BY Marks, Zenon
  <2>7. ASSUME Escaped(c) = <<Backslash, x>>
        PROVE  ReadUpTo(t, n + 1, h[Len(b)])
    <3>1. Len(b) = p + 2 /\ b[p + 1] = Backslash /\ b[p + 2] = x /\ p + 1 \in 1 .. Len(b) /\ p + 2 \in 1 .. Len(b)
      BY <2>1, <2>6, <2>7, SMT
    <3>2. w[p + 1] = Backslash /\ w[p + 2] = x
      BY <2>2, <3>1, Zenon
    <3>3. p \in 0 .. M - 1 /\ p + 1 \in 0 .. M - 1 /\ (p + 1) + 1 = p + 2
      BY <1>6, <2>2, <3>1, SMT
    <3> PICK s : s = [done |-> FALSE, escaped |-> TRUE, value |-> r.value]
      OBVIOUS
    <3>4. h[p + 1] = s
      <4>1. h[p + 1] = ReadStep(r, Backslash)
        BY <1>7, <3>2, <3>3, Zenon
      <4>2. ReadStep(r, Backslash) = [done |-> FALSE, escaped |-> TRUE, value |-> r.value]
        BY <2>4, <2>6, ReadStepDoes
      <4> QED BY <4>1, <4>2, Zenon
    <3>5. s \in ReadStates
      BY <1>7, <3>3, <3>4, Zenon
    <3>6. ~ s.done /\ s.escaped /\ s.value = r.value
      BY SMT
    <3>7. h[p + 2] = ReadStep(s, x)
      BY <1>7, <3>2, <3>3, <3>4, Zenon
    <3>8. h[p + 2] = [done |-> FALSE, escaped |-> FALSE, value |-> Append(r.value, x)]
      BY <3>5, <3>6, <3>7, ReadStepDoes, Zenon
    <3> QED BY <2>3, <2>5, <3>1, <3>8, ReadUpToNext, Zenon
  <2>8. ASSUME c \notin {Quote, Backslash}, x = c, Escaped(c) = <<c>>
        PROVE  ReadUpTo(t, n + 1, h[Len(b)])
    <3>1. Len(b) = p + 1 /\ b[p + 1] = c /\ p + 1 \in 1 .. Len(b)
      BY <2>1, <2>8, SMT
    <3>2. w[p + 1] = c
      BY <2>2, <3>1, Zenon
    <3>3. p \in 0 .. M - 1
      BY <1>6, <2>2, <3>1, SMT
    <3>4. h[p + 1] = [done |-> FALSE, escaped |-> FALSE, value |-> Append(r.value, c)]
      BY <1>7, <2>4, <2>8, <3>2, <3>3, ReadStepDoes, Zenon
    <3>5. c = Letters(t)[n + 1]
      BY <2>5, <2>8
    <3> QED BY <2>3, <3>1, <3>4, <3>5, ReadUpToNext, Zenon
  <2>9. ReadUpTo(t, n + 1, h[Len(b)])
    BY <2>7, <2>8, EscapedIs, Zenon
  <2> QED BY <2>9, Zenon
<1>9. ReadUpTo(t, N, h[L])
  <2> DEFINE T == {n \in 0 .. N : ReadUpTo(t, n, h[Len(g[n])])}
  <2>1. 0 \in T
    <3>1. Len(g[0]) = 0
      BY <1>2, SMT
    <3>2. ReadStart \in ReadStates /\ ~ ReadStart.done /\ ~ ReadStart.escaped /\ ReadStart.value = <<>>
      BY SMT DEF ReadStart, ReadStates
    <3>3. Len(<<>>) = 0 /\ 1 .. 0 = {} /\ 0 \in 0 .. N
      BY SMT
    <3>4. ReadUpTo(t, 0, ReadStart)
      BY <3>2, <3>3, SMT DEF ReadUpTo
    <3> QED BY <1>4, <3>1, <3>3, <3>4, Zenon
  <2>2. ASSUME NEW n \in 0 .. N - 1, n \in T PROVE n + 1 \in T
    <3>1. n + 1 \in 0 .. N
      BY SMT
    <3> QED BY <1>8, <2>2, <3>1, Zenon
  <2> HIDE DEF T
  <2>3. N \in T
    <3>1. N \in 0 .. N
      BY SMT
    <3> QED BY <2>1, <2>2, <3>1, UpTo, Zenon
  <2> QED BY <1>2, <2>3, Zenon DEF T
<1> PICK end : end = [done |-> TRUE, escaped |-> FALSE, value |-> Letters(t)]
  OBVIOUS
<1>10. h[L + 1] = end
  <2> PICK r \in ReadStates : r = h[L]
    BY <1>9, Zenon DEF ReadUpTo
  <2>1. L \in 0 .. M - 1
    BY <1>6, SMT
  <2>2. ~ r.done /\ ~ r.escaped /\ Len(r.value) = N /\ \A i \in 1 .. N : r.value[i] = Letters(t)[i]
    BY <1>9, Zenon DEF ReadUpTo
  <2>3. h[L + 1] = [done |-> TRUE, escaped |-> FALSE, value |-> r.value]
    BY <1>6, <1>7, <2>1, <2>2, ReadStepDoes, Zenon
  <2>4. r.value = Letters(t)
    <3>1. r.value \in Seq(Byte)
      BY SMT DEF ReadStates
    <3>2. Letters(t) = [i \in 1 .. N |-> Letters(t)[i]]
      BY Zenon DEF Letters
    <3> PICK v \in Seq(Byte) : v = r.value
      BY <3>1
    <3>3. v = [i \in 1 .. N |-> v[i]]
      BY <2>2
    <3>4. [i \in 1 .. N |-> v[i]] = [i \in 1 .. N |-> Letters(t)[i]]
      BY <2>2, Zenon
    <3> QED BY <3>2, <3>3, <3>4, Zenon
  <2> QED BY <2>3, <2>4, Zenon
<1>11. h[M] = end
  <2> PICK K \in Nat : K = M - (L + 1)
    <3>1. M - (L + 1) \in Nat
      BY <1>6, SMT
    <3> QED BY <3>1, Zenon
  <2> DEFINE T == {k \in 0 .. K : h[L + 1 + k] = end}
  <2>1. 0 \in T
    <3>1. 0 \in 0 .. K /\ L + 1 + 0 = L + 1
      BY SMT
    <3> QED BY <1>10, <3>1, Zenon
  <2>2. ASSUME NEW k \in 0 .. K - 1, k \in T PROVE k + 1 \in T
    <3> PICK i : i = L + 1 + k
      OBVIOUS
    <3>1. i \in 0 .. M - 1 /\ i + 1 = L + 1 + (k + 1) /\ k + 1 \in 0 .. K
      BY SMT
    <3>2. h[i] = end
      BY <2>2, Zenon
    <3>3. end \in ReadStates /\ end.done
      <4>1. end \in ReadStates
        BY <1>7, <3>1, <3>2, Zenon
      <4> QED BY <4>1, SMT
    <3>4. h[i + 1] = end
      BY <1>7, <3>1, <3>2, <3>3, ReadStepDoes, Zenon
    <3> QED BY <3>1, <3>4, Zenon
  <2> HIDE DEF T
  <2>3. K \in T
    <3>1. K \in 0 .. K
      BY SMT
    <3> QED BY <2>1, <2>2, <3>1, UpTo, Zenon
  <2>4. L + 1 + K = M
    BY SMT
  <2> QED BY <2>3, <2>4, Zenon DEF T
<1> QED BY <1>4, <1>11, Zenon

-----------------------------------------------------------------------------
(* Keys *)

\* No key ends here: what would close the key and begin its value.
NoKey(a, key) == \A j \in 1 .. Len(a) - 2 : ~ (a[j] = key /\ a[j + 1] = Quote /\ a[j + 2] = Colon)

\* What comes before a key: nothing, or fields that end in a comma.
Fields(a) == a \in Seq(Byte) /\ (a # <<>> => a[Len(a)] = Comma)

\* A marker: a key and what begins its value.
Marker(m, key) ==
    /\ m \in Seq(Byte) /\ Len(m) >= 4 /\ m[1] = Quote /\ m[2] = key /\ m[3] = Quote /\ m[4] = Colon
    /\ key # Comma

\* One text behind another, and the texts that begin a value.
Joined(a, b) == a \o b
IntMarker(key) == <<Quote, key, Quote, Colon>>
StringMarker(key) == <<Quote, key, Quote, Colon, Quote>>

\* Texts in a row, character by character.
Row(a, m, b, json) ==
    /\ json \in Seq(Byte) /\ Len(json) = Len(a) + Len(m) + Len(b)
    /\ \A i \in 1 .. Len(a) : json[i] = a[i]
    /\ \A i \in 1 .. Len(m) : json[Len(a) + i] = m[i]
    /\ \A i \in 1 .. Len(b) : json[Len(a) + Len(m) + i] = b[i]

\* So they are when they are joined.
LEMMA InRow ==
    ASSUME NEW a \in Seq(Byte), NEW m \in Seq(Byte), NEW b \in Seq(Byte)
    PROVE  Row(a, m, b, (a \o m) \o b)
<1> PICK json : json = (a \o m) \o b
  OBVIOUS
<1> PICK am : am = a \o m
  OBVIOUS
<1>1. /\ am \in Seq(Byte) /\ Len(am) = Len(a) + Len(m)
      /\ \A i \in 1 .. Len(a) : am[i] = a[i]
      /\ \A i \in 1 .. Len(m) : am[Len(a) + i] = m[i]
  BY SMT
<1>2. /\ json \in Seq(Byte) /\ Len(json) = Len(am) + Len(b)
      /\ \A i \in 1 .. Len(am) : json[i] = am[i]
      /\ \A i \in 1 .. Len(b) : json[Len(am) + i] = b[i]
  BY <1>1, SMT
<1>3. \A i \in 1 .. Len(a) : i \in 1 .. Len(am)
  BY <1>1, SMT
<1>4. \A i \in 1 .. Len(m) : Len(a) + i \in 1 .. Len(am)
  BY <1>1, SMT
<1>5. Row(a, m, b, json)
  BY <1>1, <1>2, <1>3, <1>4, SMTT(40) DEF Row
<1> QED BY <1>5, Zenon

\* A part of a text, character by character.
LEMMA PartIs ==
    ASSUME NEW json \in Seq(Byte), NEW i \in 1 .. Len(json) + 1, NEW k \in i - 1 .. Len(json)
    PROVE  /\ SubSeq(json, i, k) \in Seq(Byte) /\ Len(SubSeq(json, i, k)) = k - i + 1
           /\ \A n \in 1 .. k - i + 1 : SubSeq(json, i, k)[n] = json[i + n - 1]
<1>1. \A n \in i .. k : json[n] \in Byte
  BY SMT
<1>2. /\ SubSeq(json, i, k) \in Seq(Byte)
      /\ Len(SubSeq(json, i, k)) = IF i <= k THEN k - i + 1 ELSE 0
      /\ \A n \in 1 .. k - i + 1 : SubSeq(json, i, k)[n] = json[i + n - 1]
  BY <1>1, SubSeqProperties, SMT
<1> QED BY <1>2, SMT

\* find finds the marker behind fields with other keys.
LEMMA KeyIsFound ==
    ASSUME NEW a, Fields(a), NEW key, NoKey(a, key), NEW m, Marker(m, key), NEW b \in Seq(Byte),
           NEW json, json = (a \o m) \o b
    PROVE  After(json, m) = Len(a) + Len(m) + 1
<1>1. a \in Seq(Byte) /\ m \in Seq(Byte) /\ Len(m) >= 4
  BY Zenon DEF Fields, Marker
<1> PICK p \in Nat : p = Len(a)
  BY <1>1
<1> PICK l \in Nat : l = Len(m) /\ l >= 4
  BY <1>1
<1> PICK r \in Nat : r = Len(b)
  OBVIOUS
<1>2. /\ json \in Seq(Byte) /\ Len(json) = p + l + r
      /\ \A i \in 1 .. p : json[i] = a[i]
      /\ \A i \in 1 .. l : json[p + i] = m[i]
  <2>1. Row(a, m, b, json)
    BY <1>1, InRow, Zenon
  <2> QED BY <1>1, <2>1, SMT DEF Row
<1> DEFINE found == {i \in 1 .. Len(json) - Len(m) + 1 : SubSeq(json, i, i + Len(m) - 1) = m}
<1>3. p + 1 \in found
  <2>1. p + 1 \in 1 .. Len(json) - Len(m) + 1 /\ p + 1 \in 1 .. Len(json) + 1 /\ p + l \in (p + 1) - 1 .. Len(json)
        /\ (p + 1) + Len(m) - 1 = p + l /\ (p + l) - (p + 1) + 1 = l
    BY <1>2, SMT
  <2> PICK q : q = SubSeq(json, p + 1, p + l)
    OBVIOUS
  <2>2. /\ q \in Seq(Byte) /\ Len(q) = (p + l) - (p + 1) + 1
        /\ \A n \in 1 .. (p + l) - (p + 1) + 1 : q[n] = json[(p + 1) + n - 1]
    BY <1>2, <2>1, PartIs, Zenon
  <2>3. \A n \in 1 .. l : (p + 1) + n - 1 = p + n
    BY SMT
  <2>4. Len(q) = l /\ \A n \in 1 .. l : q[n] = m[n]
    BY <1>2, <2>1, <2>2, <2>3, SMTT(40)
  <2>5. q = m
    BY <1>1, <2>2, <2>4, SeqEqual, Zenon
  <2> QED BY <2>1, <2>5, Zenon
<1>4. ASSUME NEW i \in found PROVE p + 1 <= i /\ i \in Nat
  <2>1. i \in 1 .. Len(json) - Len(m) + 1 /\ SubSeq(json, i, i + Len(m) - 1) = m
    BY <1>4, Zenon
  <2>2. /\ i \in 1 .. Len(json) + 1 /\ i + l - 1 \in i - 1 .. Len(json) /\ (i + l - 1) - i + 1 = l
        /\ i \in Nat /\ i > 0
    BY <1>2, <2>1, SMT
  <2>3. \A n \in 1 .. l : m[n] = json[i + n - 1]
    <3> PICK q : q = SubSeq(json, i, i + l - 1)
      OBVIOUS
    <3>1. /\ q \in Seq(Byte) /\ Len(q) = (i + l - 1) - i + 1
          /\ \A n \in 1 .. (i + l - 1) - i + 1 : q[n] = json[i + n - 1]
      BY <1>2, <2>2, PartIs, Zenon
    <3>2. q = m
      BY <2>1, Zenon
    <3> QED BY <2>2, <3>1, <3>2, Zenon
  <2> SUFFICES ASSUME i <= p PROVE FALSE
    BY <2>2, SMT
  <2> HIDE DEF found
  <2>4. 1 \in 1 .. l /\ 2 \in 1 .. l /\ 3 \in 1 .. l /\ 4 \in 1 .. l
    BY SMT
  <2>5. json[i] = Quote /\ json[i + 1] = key /\ json[i + 2] = Quote /\ json[i + 3] = Colon
    <3>1. i + 1 - 1 = i /\ i + 2 - 1 = i + 1 /\ i + 3 - 1 = i + 2 /\ i + 4 - 1 = i + 3
      BY <2>2, SMT
    <3>2. m[1] = Quote /\ m[2] = key /\ m[3] = Quote /\ m[4] = Colon
      BY Zenon DEF Marker
    <3>3. m[1] = json[i + 1 - 1] /\ m[2] = json[i + 2 - 1] /\ m[3] = json[i + 3 - 1] /\ m[4] = json[i + 4 - 1]
      BY <2>3, <2>4
    <3> QED BY <3>1, <3>2, <3>3, Zenon
  <2>6. a # <<>> /\ p \in 1 .. p
    BY <2>2, SMT
  <2>7. json[p] = Comma
    BY <1>2, <2>6, Zenon DEF Fields
  <2>8. Quote # Comma /\ Colon # Comma /\ key # Comma
    BY Marks, Zenon DEF Marker
  <2>9. p # i /\ p # i + 1 /\ p # i + 2 /\ p # i + 3
    BY <2>5, <2>7, <2>8, Zenon
  <2>10. i + 1 \in 1 .. Len(a) - 2 /\ i + 2 \in 1 .. p /\ i + 3 \in 1 .. p /\ i + 1 \in 1 .. p
         /\ (i + 1) + 1 = i + 2 /\ (i + 1) + 2 = i + 3
    BY <2>2, <2>9, SMT
  <2>11. a[i + 1] = key /\ a[i + 2] = Quote /\ a[i + 3] = Colon
    BY <1>2, <2>5, <2>10, Zenon
  <2> QED BY <2>10, <2>11, Zenon DEF NoKey
<1>5. After(json, m) = IF found = {} THEN 0 ELSE (CHOOSE i \in found : \A j \in found : i <= j) + Len(m)
  BY Zenon DEF After
<1> HIDE DEF found
<1>6. (CHOOSE i \in found : \A j \in found : i <= j) = p + 1
  <2>1. p + 1 \in found /\ \A j \in found : p + 1 <= j
    BY <1>3, <1>4, Zenon
  <2>2. \A i \in found : (\A j \in found : i <= j) => i = p + 1
    BY <1>3, <1>4, SMT
  <2> QED BY <2>1, <2>2, Zenon
<1>7. found # {}
  BY <1>3, Zenon
<1>8. After(json, m) = (p + 1) + l
  BY <1>5, <1>6, <1>7, Zenon
<1> QED BY <1>8, SMT

\* What follows is the rest of the text.
LEMMA RestOf ==
    ASSUME NEW a \in Seq(Byte), NEW m \in Seq(Byte), NEW b \in Seq(Byte), NEW json, Row(a, m, b, json)
    PROVE  SubSeq(json, Len(a) + Len(m) + 1, Len(json)) = b
<1> PICK s \in Nat : s = Len(a) + Len(m) + 1
  BY SMT
<1>1. /\ json \in Seq(Byte) /\ Len(json) = Len(a) + Len(m) + Len(b)
      /\ \A i \in 1 .. Len(b) : json[Len(a) + Len(m) + i] = b[i]
  BY Zenon DEF Row
<1>2. s \in 1 .. Len(json) + 1 /\ Len(json) \in s - 1 .. Len(json) /\ Len(json) - s + 1 = Len(b)
  BY <1>1, SMT
<1> PICK q : q = SubSeq(json, s, Len(json))
  OBVIOUS
<1>3. /\ q \in Seq(Byte) /\ Len(q) = Len(json) - s + 1
      /\ \A n \in 1 .. Len(json) - s + 1 : q[n] = json[s + n - 1]
  BY <1>1, <1>2, PartIs, Zenon
<1>4. \A n \in 1 .. Len(b) : s + n - 1 = Len(a) + Len(m) + n
  BY SMT
<1>5. Len(q) = Len(b) /\ \A n \in 1 .. Len(b) : q[n] = b[n]
  <2>1. \A n \in 1 .. Len(b) : q[n] = json[s + n - 1]
    BY <1>2, <1>3, Zenon
  <2>2. \A n \in 1 .. Len(b) : q[n] = b[n]
    BY <1>1, <1>4, <2>1, Zenon
  <2> QED BY <1>2, <1>3, <2>2, Zenon
<1>6. q = b
  BY <1>3, <1>5, SeqEqual, Zenon
<1> QED BY <1>6, Zenon

\* A string field behind fields with other keys is read.
LEMMA StringIsRead ==
    ASSUME NEW a, Fields(a), NEW key \in Byte, key # Comma, NoKey(a, key), NEW t \in Seq(Byte),
           NEW b, QuotedText(b, t)
    PROVE  JsonStringValue(Joined(Joined(a, StringMarker(key)), b), key) = <<Letters(t)>>
<1> PICK m : m = <<Quote, key, Quote, Colon, Quote>>
  OBVIOUS
<1> PICK json : json = (a \o m) \o b
  OBVIOUS
<1>0. Quote \in Byte /\ Colon \in Byte
  BY Marks, Zenon
<1>1. Marker(m, key)
  BY <1>0, SMT DEF Marker
<1>2. a \in Seq(Byte) /\ m \in Seq(Byte) /\ b \in Seq(Byte)
  BY <1>1, Zenon DEF Fields, Marker, QuotedText
<1>3. After(json, m) = Len(a) + Len(m) + 1
  BY <1>1, <1>2, KeyIsFound, Zenon
<1>4. SubSeq(json, Len(a) + Len(m) + 1, Len(json)) = b
  <2>1. Row(a, m, b, json)
    BY <1>2, InRow, Zenon
  <2> QED BY <1>2, <2>1, RestOf, Zenon
<1> PICK end : end = [done |-> TRUE, escaped |-> FALSE, value |-> Letters(t)]
  OBVIOUS
<1>5. Folded(ReadStep, ReadStart, b) = end
  BY TextIsRead, Zenon
<1>6. end.done /\ end.value = Letters(t)
  BY SMT
<1>7. Len(a) + Len(m) + 1 # 0
  BY <1>2, SMT
<1>8. JsonStringValue(json, key) =
        LET start == After(json, m)
            last == Folded(ReadStep, ReadStart, SubSeq(json, start, Len(json)))
        IN  IF start = 0 \/ ~last.done THEN <<>> ELSE <<last.value>>
  BY Zenon DEF JsonStringValue, ReadStart
<1>9. JsonStringValue(json, key) = <<Letters(t)>>
  BY <1>3, <1>4, <1>5, <1>6, <1>7, <1>8, Zenon
<1>10. json = Joined(Joined(a, StringMarker(key)), b)
  BY Zenon DEF Joined, StringMarker
<1> QED BY <1>9, <1>10, Zenon

-----------------------------------------------------------------------------
(* JSON numbers *)

DigitChars == Zero .. Zero + 9

\* Reading a digit yields a number.
LEMMA DigitStepTyped ==
    ASSUME NEW n \in Int, NEW c \in Byte
    PROVE  DigitStep(n, c) \in Int
BY SMT DEF DigitStep, Zero, Byte

\* The loop of Number.
LEMMA NumberLoop ==
    ASSUME NEW s \in Seq(Byte)
    PROVE  \E g \in [0 .. Len(s) -> Int] :
             /\ g[0] = 0
             /\ \A n \in 1 .. Len(s) : g[n] = DigitStep(g[n - 1], s[n])
             /\ Folded(DigitStep, 0, s) = g[Len(s)]
<1> DEFINE S == Int
           A == Byte
           step == [x \in S \X A |-> DigitStep(x[1], x[2])]
           Loop(g) == [n \in 0 .. Len(s) |-> IF n = 0 THEN 0 ELSE DigitStep(g[n - 1], s[n])]
<1>1. 0 \in S
  BY SMT
<1>2. step \in [S \X A -> S]
  BY DigitStepTyped
<1>3. PICK f \in [0 .. Len(s) -> S] :
        f[0] = 0 /\ \A n \in 1 .. Len(s) : f[n] = step[<<f[n - 1], s[n]>>]
  <2>1. s \in Seq(A)
    OBVIOUS
  <2> HIDE DEF step, S, A
  <2>2. Folds(S, s, 0, step) # {}
    BY <1>1, <1>2, <2>1, FoldRuns, Zenon
  <2> QED BY <2>2, Zenon DEF Folds
<1>4. ASSUME NEW n \in 1 .. Len(s) PROVE f[n] = DigitStep(f[n - 1], s[n])
  <2>1. <<f[n - 1], s[n]>> \in S \X A
    OBVIOUS
  <2> QED BY <1>3, <2>1
<1>5. f = Loop(f)
  BY <1>3, <1>4
<1>6. Folded(DigitStep, 0, s) = (CHOOSE g : g = Loop(g))[Len(s)]
  BY DEF Folded
<1>7. PICK g : g = Loop(g) /\ Folded(DigitStep, 0, s) = g[Len(s)]
  <2> HIDE DEF Loop
  <2> QED BY <1>5, <1>6
<1>8. g[0] = 0 /\ \A n \in 1 .. Len(s) : g[n] = DigitStep(g[n - 1], s[n])
  BY <1>7
<1>9. \A n \in 0 .. Len(s) : g[n] = f[n]
  <2> DEFINE T == {m \in 0 .. Len(s) : g[m] = f[m]}
  <2>1. 0 \in T
    BY <1>3, <1>8
  <2>2. ASSUME NEW i \in 0 .. Len(s) - 1, i \in T PROVE i + 1 \in T
    <3>1. i + 1 \in 1 .. Len(s) /\ (i + 1) - 1 = i /\ i + 1 \in 0 .. Len(s)
      OBVIOUS
    <3>2. g[i] = f[i]
      BY <2>2, Zenon
    <3> HIDE DEF T, Loop, S, step
    <3>3. g[i + 1] = f[i + 1]
      BY <1>4, <1>8, <3>1, <3>2, SMT
    <3> QED BY <3>1, <3>3, Zenon DEF T
  <2>3. Len(s) \in Nat
    OBVIOUS
  <2>4. \A n \in 0 .. Len(s) : n \in T
    <3> HIDE DEF T
    <3> QED BY <2>1, <2>2, <2>3, UpTo, Zenon
  <2> QED BY <2>4, Zenon
<1>10. g = f
  BY <1>7, <1>9
<1> QED BY <1>3, <1>7, <1>8, <1>10

\* A digit is its number.
LEMMA NumberOfDigit ==
    ASSUME NEW c \in Byte
    PROVE  Number(<<c>>) = c - Zero
<1>0. <<c>> \in Seq(Byte)
  BY SMT
<1> PICK s \in Seq(Byte) : s = <<c>>
  BY <1>0, Zenon
<1>1. Len(s) = 1 /\ s[1] = c
  BY SMT
<1>2. PICK h \in [0 .. Len(s) -> Int] :
        /\ h[0] = 0
        /\ \A n \in 1 .. Len(s) : h[n] = DigitStep(h[n - 1], s[n])
        /\ Folded(DigitStep, 0, s) = h[Len(s)]
  BY NumberLoop, Zenon
<1>3. 1 \in 1 .. Len(s) /\ 1 - 1 = 0
  BY <1>1, SMT
<1>4. h[1] = DigitStep(0, c)
  BY <1>1, <1>2, <1>3, Zenon
<1>5. DigitStep(0, c) = c - Zero
  BY SMT DEF DigitStep, Byte, Zero
<1> QED BY <1>1, <1>2, <1>4, <1>5, Zenon DEF Number

\* A digit behind a number.
LEMMA NumberOfAppend ==
    ASSUME NEW t \in Seq(Byte), NEW c \in Byte
    PROVE  /\ Number(t) \in Int
           /\ Number(Append(t, c)) = 10 * Number(t) + (c - Zero)
<1>0. Append(t, c) \in Seq(Byte)
  BY SMT
<1> PICK s \in Seq(Byte) : s = Append(t, c)
  BY <1>0, Zenon
<1> PICK N \in Nat : N = Len(t)
  OBVIOUS
<1>1. Len(s) = N + 1 /\ s[N + 1] = c /\ \A i \in 1 .. N : s[i] = t[i]
  BY SMT
<1>2. PICK g \in [0 .. N -> Int] :
        /\ g[0] = 0
        /\ \A n \in 1 .. N : g[n] = DigitStep(g[n - 1], t[n])
        /\ Folded(DigitStep, 0, t) = g[N]
  BY NumberLoop, Zenon
<1>3. PICK h \in [0 .. Len(s) -> Int] :
        /\ h[0] = 0
        /\ \A n \in 1 .. Len(s) : h[n] = DigitStep(h[n - 1], s[n])
        /\ Folded(DigitStep, 0, s) = h[Len(s)]
  BY NumberLoop, Zenon
<1>4. h[N] = g[N]
  <2> DEFINE T == {n \in 0 .. N : h[n] = g[n]}
  <2>1. 0 \in T
    BY <1>2, <1>3, SMT
  <2>2. ASSUME NEW n \in 0 .. N - 1, n \in T PROVE n + 1 \in T
    <3>1. n + 1 \in 1 .. N /\ n + 1 \in 1 .. Len(s) /\ (n + 1) - 1 = n /\ n + 1 \in 0 .. N
      BY <1>1, SMT
    <3>2. h[n] = g[n]
      BY <2>2, Zenon
    <3>3. h[n + 1] = DigitStep(h[(n + 1) - 1], s[n + 1])
      BY <1>3, <3>1, Zenon
    <3>4. g[n + 1] = DigitStep(g[(n + 1) - 1], t[n + 1])
      BY <1>2, <3>1, Zenon
    <3>5. s[n + 1] = t[n + 1]
      BY <1>1, <3>1, Zenon
    <3>6. h[n + 1] = DigitStep(h[n], t[n + 1]) /\ g[n + 1] = DigitStep(g[n], t[n + 1])
      BY <3>1, <3>3, <3>4, <3>5
    <3>7. h[n + 1] = g[n + 1]
      BY <3>2, <3>6, Zenon
    <3> QED BY <3>1, <3>7, Zenon
  <2> HIDE DEF T
  <2>3. N \in 0 .. N
    BY SMT
  <2>4. N \in T
    BY <2>1, <2>2, <2>3, UpTo, Zenon
  <2> QED BY <2>4, Zenon DEF T
<1>5. h[N + 1] = DigitStep(g[N], c)
  <2>1. N + 1 \in 1 .. Len(s) /\ (N + 1) - 1 = N
    BY <1>1, SMT
  <2> QED BY <1>1, <1>3, <1>4, <2>1, Zenon
<1>6. Number(s) = h[N + 1] /\ Number(t) = g[N]
  BY <1>1, <1>2, <1>3, Zenon DEF Number
<1>7. g[N] \in Int
  BY <1>2, SMT
<1> QED BY <1>5, <1>6, <1>7, Zenon DEF DigitStep

\* What the digits of i are: a digit, or those of a tenth and a digit.
DigitsBody(d, i) == IF i < 10 THEN <<Zero + i>> ELSE Append(d[i \div 10], Zero + (i % 10))

\* The recursion of Digits is well founded.
LEMMA DigitsRun ==
    ASSUME NEW n \in Nat
    PROVE  \E d \in [0 .. n -> Seq(DigitChars)] : \A i \in 0 .. n : d[i] = DigitsBody(d, i)
<1> DEFINE S == Seq(DigitChars)
           Runs(m, f) == \A i \in 0 .. m : f[i] = DigitsBody(f, i)
           T == {m \in 0 .. n : \E f \in [0 .. m -> S] : Runs(m, f)}
<1>1. 0 \in T
  <2> PICK f : f = [i \in 0 .. 0 |-> <<Zero + 0>>]
    OBVIOUS
  <2>1. <<Zero + 0>> \in S
    BY SMT DEF Zero, DigitChars
  <2>2. f \in [0 .. 0 -> S]
    BY <2>1, Zenon
  <2>3. ASSUME NEW i \in 0 .. 0 PROVE f[i] = DigitsBody(f, i)
    <3>1. i = 0 /\ 0 < 10
      BY SMT
    <3> QED BY <3>1, Zenon DEF DigitsBody
  <2>4. 0 \in 0 .. n
    BY SMT
  <2>5. Runs(0, f)
    BY <2>3, Zenon
  <2> HIDE DEF Runs, S
  <2> QED BY <2>2, <2>4, <2>5, Zenon
<1>2. ASSUME NEW m \in 0 .. n - 1, m \in T PROVE m + 1 \in T
  <2>1. PICK f \in [0 .. m -> S] : Runs(m, f)
    <3> HIDE DEF Runs, S
    <3> QED BY <1>2, Zenon
  <2> PICK new : new = DigitsBody(f, m + 1)
    OBVIOUS
  <2>2. m + 1 \in 0 .. n /\ m + 1 \in 0 .. m + 1 /\ m \in Nat
    BY SMT
  <2>3. new \in S
    <3>1. CASE m + 1 < 10
      <4>1. Zero + (m + 1) \in DigitChars
        BY <2>2, <3>1, SMT DEF DigitChars, Zero
      <4> QED BY <3>1, <4>1, SMT DEF DigitsBody
    <3>2. CASE ~ (m + 1 < 10)
      <4>1. (m + 1) \div 10 \in 0 .. m /\ Zero + ((m + 1) % 10) \in DigitChars
        BY <2>2, <3>2, SMT DEF DigitChars, Zero
      <4> PICK p \in Seq(DigitChars) : p = f[(m + 1) \div 10]
        BY <4>1, Zenon
      <4> PICK c \in DigitChars : c = Zero + ((m + 1) % 10)
        BY <4>1, Zenon
      <4>2. new = Append(p, c)
        BY <3>2, Zenon DEF DigitsBody
      <4>3. Append(p, c) \in Seq(DigitChars)
        BY SMT
      <4> QED BY <4>2, <4>3, Zenon
    <3> QED BY <3>1, <3>2
  <2> PICK g : g = [i \in 0 .. m + 1 |-> IF i = m + 1 THEN new ELSE f[i]]
    OBVIOUS
  <2>4. \A i \in 0 .. m : i \in 0 .. m + 1 /\ i # m + 1
    BY <2>2, SMT
  <2>5. \A i \in 0 .. m + 1 : i = m + 1 \/ i \in 0 .. m
    BY <2>2, SMT
  <2>6. g[m + 1] = new /\ \A i \in 0 .. m : g[i] = f[i]
    BY <2>2, <2>4, Zenon
  <2>7. g \in [0 .. m + 1 -> S]
    <3> HIDE DEF S
    <3> QED BY <2>3, <2>5, Zenon
  <2>8. ASSUME NEW i \in 0 .. m + 1 PROVE DigitsBody(g, i) = DigitsBody(f, i)
    <3>1. CASE i < 10
      BY <3>1, Zenon DEF DigitsBody
    <3>2. CASE ~ (i < 10)
      <4>1. i \div 10 \in 0 .. m
        BY <2>2, <3>2, SMT
      <4>2. g[i \div 10] = f[i \div 10]
        BY <2>6, <4>1, Zenon
      <4>3. DigitsBody(g, i) = Append(g[i \div 10], Zero + (i % 10))
        BY <3>2, Zenon DEF DigitsBody
      <4>4. DigitsBody(f, i) = Append(f[i \div 10], Zero + (i % 10))
        BY <3>2, Zenon DEF DigitsBody
      <4> QED BY <4>2, <4>3, <4>4, Zenon
    <3> QED BY <3>1, <3>2
  <2>9. Runs(m + 1, g)
    <3>1. ASSUME NEW i \in 0 .. m + 1 PROVE g[i] = DigitsBody(g, i)
      <4>1. CASE i = m + 1
        BY <2>6, <2>8, <4>1, Zenon
      <4>2. CASE i \in 0 .. m
        BY <2>1, <2>6, <2>8, <4>2, Zenon
      <4> QED BY <2>5, <4>1, <4>2
    <3> QED BY <3>1, Zenon
  <2> HIDE DEF Runs, S
  <2> QED BY <2>2, <2>7, <2>9, Zenon
<1>3. n \in T
  <2>1. n \in 0 .. n
    BY SMT
  <2> HIDE DEF T
  <2> QED BY <1>1, <1>2, <2>1, UpTo, Zenon
<1>4. PICK f \in [0 .. n -> S] : Runs(n, f)
  <2> HIDE DEF Runs, S
  <2> QED BY <1>3, Zenon
<1> QED BY <1>4, Zenon

\* Digits of a number, read, are the number.
LEMMA DigitsAreRead ==
    ASSUME NEW n \in Nat
    PROVE  Digits(n) \in Seq(DigitChars) /\ Len(Digits(n)) >= 1 /\ Number(Digits(n)) = n
<1> DEFINE Loop(d) == [i \in 0 .. n |-> DigitsBody(d, i)]
<1>1. PICK f \in [0 .. n -> Seq(DigitChars)] : \A i \in 0 .. n : f[i] = DigitsBody(f, i)
  BY DigitsRun, Zenon
<1>2. f = Loop(f)
  <2>1. f = [i \in 0 .. n |-> f[i]]
    BY Zenon
  <2> QED BY <1>1, <2>1, Zenon
<1>3. Digits(n) = (CHOOSE d : d = Loop(d))[n]
  BY Zenon DEF Digits, DigitsBody
<1>4. PICK d : d = Loop(d) /\ Digits(n) = d[n]
  <2> HIDE DEF Loop
  <2> QED BY <1>2, <1>3, Zenon
<1>5. \A i \in 0 .. n : d[i] = DigitsBody(d, i)
  BY <1>4, Zenon
<1> DEFINE Good(i) == d[i] \in Seq(DigitChars) /\ Len(d[i]) >= 1 /\ Number(d[i]) = i
           T == {m \in 0 .. n : \A i \in 0 .. m : Good(i)}
<1>6. DigitChars \subseteq Byte
  BY SMT DEF DigitChars, Byte, Zero
<1>7. ASSUME NEW i \in 0 .. n, i < 10 PROVE Good(i)
  <2>1. Zero + i \in DigitChars /\ (Zero + i) - Zero = i
    BY <1>7, SMT DEF DigitChars, Zero
  <2>2. d[i] = <<Zero + i>>
    BY <1>5, <1>7, Zenon DEF DigitsBody
  <2>3. Number(<<Zero + i>>) = i
    BY <1>6, <2>1, NumberOfDigit, Zenon
  <2>4. <<Zero + i>> \in Seq(DigitChars) /\ Len(<<Zero + i>>) >= 1
    BY <2>1, SMT
  <2> QED BY <2>2, <2>3, <2>4, Zenon
<1>8. ASSUME NEW i \in 0 .. n, ~ (i < 10), Good(i \div 10) PROVE Good(i)
  <2> PICK c \in DigitChars : c = Zero + (i % 10)
    <3>1. Zero + (i % 10) \in DigitChars
      BY SMT DEF DigitChars, Zero
    <3> QED BY <3>1, Zenon
  <2> PICK p \in Seq(DigitChars) : p = d[i \div 10]
    BY <1>8, Zenon
  <2>1. d[i] = Append(p, c)
    BY <1>5, <1>8, Zenon DEF DigitsBody
  <2>2. Append(p, c) \in Seq(DigitChars) /\ Len(Append(p, c)) >= 1
    BY SMT
  <2>3. p \in Seq(Byte) /\ c \in Byte
    BY <1>6, SeqMonotonic, Zenon
  <2>4. Number(Append(p, c)) = 10 * Number(p) + (c - Zero)
    BY <2>3, NumberOfAppend, Zenon
  <2>5. Number(p) = i \div 10
    BY <1>8, Zenon
  <2>6. 10 * (i \div 10) + (c - Zero) = i
    BY SMT DEF Zero
  <2>7. Number(Append(p, c)) = i
    BY <2>4, <2>5, <2>6, Zenon
  <2> QED BY <2>1, <2>2, <2>7, Zenon
<1> HIDE DEF Good
<1>9. n \in T
  <2>1. 0 \in T
    <3>1. 0 \in 0 .. n /\ 0 < 10 /\ \A i \in 0 .. 0 : i = 0
      BY SMT
    <3> QED BY <1>7, <3>1, Zenon
  <2>2. ASSUME NEW m \in 0 .. n - 1, m \in T PROVE m + 1 \in T
    <3>1. m + 1 \in 0 .. n /\ \A i \in 0 .. m + 1 : i = m + 1 \/ i \in 0 .. m
      BY SMT
    <3>2. m + 1 < 10 \/ (m + 1) \div 10 \in 0 .. m
      BY SMT
    <3>3. Good(m + 1)
      BY <1>7, <1>8, <2>2, <3>1, <3>2, Zenon
    <3> QED BY <2>2, <3>1, <3>3, Zenon
  <2>3. n \in 0 .. n
    BY SMT
  <2> HIDE DEF T
  <2> QED BY <2>1, <2>2, <2>3, UpTo, Zenon
<1>10. Good(n)
  <2>1. n \in 0 .. n
    BY SMT
  <2> QED BY <1>9, <2>1, Zenon
<1> QED BY <1>4, <1>10, Zenon DEF Good

\* A number is written with digits and a minus, and std::stoll reads it back.
LEMMA IntIsRead ==
    ASSUME NEW n \in Int
    PROVE  /\ IntText(n) \in Seq(DigitChars \cup {Minus}) /\ Len(IntText(n)) >= 1
           /\ IntOf(IntText(n)) = n
<1>0. Minus \notin DigitChars
  BY SMT DEF Minus, DigitChars, Zero
<1>1. CASE n < 0
  <2>1. -n \in Nat
    BY <1>1, SMT
  <2> PICK d \in Seq(DigitChars) : d = Digits(-n) /\ Number(d) = -n
    BY <2>1, DigitsAreRead, Zenon
  <2> PICK t : t = <<Minus>> \o d
    OBVIOUS
  <2>2. IntText(n) = t
    BY <1>1, Zenon DEF IntText
  <2>3. t \in Seq(DigitChars \cup {Minus}) /\ Len(t) >= 1 /\ Head(t) = Minus /\ Tail(t) = d
    BY SMT
  <2>4. IntOf(t) = -Number(d)
    BY <2>3, Zenon DEF IntOf
  <2>5. -(-n) = n
    BY SMT
  <2> QED BY <2>2, <2>3, <2>4, <2>5, Zenon
<1>2. CASE ~ (n < 0)
  <2>1. n \in Nat
    BY <1>2, SMT
  <2> PICK d \in Seq(DigitChars) : d = Digits(n) /\ Number(d) = n /\ Len(d) >= 1
    BY <2>1, DigitsAreRead, Zenon
  <2>2. IntText(n) = d
    BY <1>2, Zenon DEF IntText
  <2>3. Head(d) \in DigitChars /\ d \in Seq(DigitChars \cup {Minus})
    BY SMT
  <2>4. IntOf(d) = Number(d)
    BY <1>0, <2>3, Zenon DEF IntOf
  <2> QED BY <2>2, <2>3, <2>4, Zenon
<1> QED BY <1>1, <1>2

\* A text that goes on behind a number with what is not of a number.
NumberChars == DigitChars \cup {Minus}
NumberedText(b, t) ==
    /\ b \in Seq(Byte) /\ t \in Seq(NumberChars) /\ Len(t) >= 1
    /\ Begins(t, b) /\ Len(t) < Len(b) /\ b[Len(t) + 1] \notin NumberChars

\* Where the digits behind a key end.
Stops(json, start) == {i \in start .. Len(json) : json[i] # Minus /\ json[i] \notin Zero .. Zero + 9}

\* A number of a set that no other is below.
IsLeast(x, T) == x \in T /\ \A i \in T : i \in Nat /\ x <= i

\* The digits end where the number does.
LEMMA StopsAt ==
    ASSUME NEW json, NEW b, NEW t, NumberedText(b, t), NEW s \in Nat, s >= 1,
           Len(json) + 1 = s + Len(b), \A i \in 1 .. Len(b) : json[s + i - 1] = b[i]
    PROVE  IsLeast(s + Len(t), Stops(json, s))
<1>1. b \in Seq(Byte) /\ t \in Seq(NumberChars)
  BY Zenon DEF NumberedText
<1> PICK L \in Nat : L = Len(t)
  BY <1>1
<1> PICK B \in Nat : B = Len(b)
  BY <1>1
<1>2. /\ L < B /\ b[L + 1] \notin NumberChars /\ \A i \in 1 .. L : b[i] = t[i]
  BY Zenon DEF NumberedText, Begins
<1>3. \A c : c \in NumberChars <=> c = Minus \/ c \in Zero .. Zero + 9
  BY Zenon DEF NumberChars, DigitChars
<1>4. Len(json) + 1 = s + B /\ \A i \in 1 .. B : json[s + i - 1] = b[i]
  BY Zenon
<1>5. s + L \in Stops(json, s)
  <2>1. s + L \in s .. Len(json) /\ L + 1 \in 1 .. B /\ s + (L + 1) - 1 = s + L
    <3>1. Len(json) \in Int \/ Len(json) \notin Int
      OBVIOUS
    <3> PICK J : J = Len(json)
      OBVIOUS
    <3>2. J + 1 = s + B
      BY <1>4, Zenon
    <3> QED BY <1>2, <1>4, SMT
  <2>2. json[s + L] = b[L + 1]
    BY <1>4, <2>1, Zenon
  <2>3. json[s + L] \notin NumberChars
    BY <1>2, <2>2, Zenon
  <2> QED BY <1>3, <2>1, <2>3, Zenon DEF Stops
<1>6. ASSUME NEW i \in Stops(json, s) PROVE i \in Nat /\ s + L <= i
  <2>1. i \in s .. Len(json) /\ json[i] \notin NumberChars
    BY <1>3, Zenon DEF Stops
  <2>2. i \in Nat
    BY <2>1, SMT
  <2> SUFFICES ASSUME i < s + L PROVE FALSE
    BY <2>2, SMT
  <2> PICK k \in Int : k = i - s + 1
    BY <2>2, SMT
  <2>3. k \in 1 .. L /\ k \in 1 .. B /\ s + k - 1 = i
    BY <1>2, <2>1, <2>2, SMT
  <2>4. json[i] = t[k]
    BY <1>2, <1>4, <2>3, Zenon
  <2>5. t[k] \in NumberChars
    BY <1>1, <2>3, ElementOfSeq, Zenon
  <2> QED BY <2>1, <2>4, <2>5, Zenon
<1> QED BY <1>5, <1>6, Zenon DEF IsLeast

\* The first of the places where the digits may end.
StopOf(T, last) == CHOOSE i \in T \cup {last} : \A j \in T : i <= j

\* It is the least one.
LEMMA LeastStop ==
    ASSUME NEW T, NEW last \in Nat, NEW x \in Nat, IsLeast(x, T), x <= last
    PROVE  StopOf(T, last) = x
<1>1. PICK y \in T \cup {last} : y = StopOf(T, last) /\ \A j \in T : y <= j
  <2>1. x \in T \cup {last} /\ \A j \in T : x <= j
    BY Zenon DEF IsLeast
  <2> QED BY <2>1, Zenon DEF StopOf
<1>2. y \in Nat /\ x <= y /\ y <= x
  BY <1>1, Zenon DEF IsLeast
<1>3. y = x
  BY <1>2, SMT
<1> QED BY <1>1, <1>3, Zenon

\* A text that occurs in another is a part of it.
LEMMA TextIsPart ==
    ASSUME NEW json \in Seq(Byte), NEW t \in Seq(Byte), NEW s \in 1 .. Len(json) + 1, NEW k \in s - 1 .. Len(json),
           k - s + 1 = Len(t), \A i \in 1 .. Len(t) : json[s + i - 1] = t[i]
    PROVE  SubSeq(json, s, k) = t
<1>1. /\ SubSeq(json, s, k) \in Seq(Byte) /\ Len(SubSeq(json, s, k)) = k - s + 1
      /\ \A i \in 1 .. k - s + 1 : SubSeq(json, s, k)[i] = json[s + i - 1]
  BY PartIs
<1> PICK q : q = SubSeq(json, s, k)
  OBVIOUS
<1>2. q \in Seq(Byte) /\ Len(q) = Len(t) /\ \A i \in 1 .. Len(q) : q[i] = t[i]
  BY <1>1, Zenon
<1>3. q = t
  BY <1>2, SeqEqual, Zenon
<1> QED BY <1>3, Zenon

\* An integer field behind fields with other keys is read.
LEMMA IntegerIsRead ==
    ASSUME NEW a, Fields(a), NEW key \in Byte, key # Comma, NoKey(a, key), NEW n \in Int,
           NEW b, NumberedText(b, IntText(n))
    PROVE  JsonIntValue(Joined(Joined(a, IntMarker(key)), b), key) = <<n>>
<1> PICK m : m = <<Quote, key, Quote, Colon>>
  OBVIOUS
<1> PICK json : json = (a \o m) \o b
  OBVIOUS
<1> PICK t : t = IntText(n)
  OBVIOUS
<1>0. Quote \in Byte /\ Colon \in Byte
  BY Marks, Zenon
<1>1. Marker(m, key)
  BY <1>0, SMT DEF Marker
<1>2. /\ a \in Seq(Byte) /\ m \in Seq(Byte) /\ b \in Seq(Byte) /\ t \in Seq(NumberChars) /\ Len(t) >= 1
      /\ Begins(t, b) /\ Len(t) < Len(b) /\ NumberedText(b, t)
  BY <1>1, Zenon DEF Fields, Marker, NumberedText
<1> PICK s \in Nat : s = Len(a) + Len(m) + 1
  BY <1>2, SMT
<1> PICK L \in Nat : L = Len(t)
  BY <1>2
<1> PICK B \in Nat : B = Len(b)
  BY <1>2
<1>3. After(json, m) = s
  BY <1>1, <1>2, KeyIsFound, Zenon
<1>4. /\ json \in Seq(Byte) /\ Len(json) + 1 = s + Len(b) /\ s >= 1
      /\ \A i \in 1 .. Len(b) : json[s + i - 1] = b[i]
  <2>1. Row(a, m, b, json)
    BY <1>2, InRow, Zenon
  <2>2. /\ json \in Seq(Byte) /\ Len(json) = Len(a) + Len(m) + Len(b)
        /\ \A i \in 1 .. Len(b) : json[Len(a) + Len(m) + i] = b[i]
    BY <2>1, Zenon DEF Row
  <2>3. \A i \in 1 .. Len(b) : s + i - 1 = Len(a) + Len(m) + i
    BY <1>2, SMT
  <2>4. Len(json) + 1 = s + Len(b) /\ s >= 1
    BY <1>2, <2>2, SMT
  <2> QED BY <2>2, <2>3, <2>4, Zenon
<1> PICK J \in Nat : J = Len(json)
  BY <1>4
<1>5. J + 1 = s + B /\ L < B /\ L >= 1 /\ s >= 1
  BY <1>2, <1>4, Zenon
<1>6. IsLeast(s + L, Stops(json, s))
  <2>1. NumberedText(b, t) /\ s >= 1 /\ Len(json) + 1 = s + Len(b) /\ \A i \in 1 .. Len(b) : json[s + i - 1] = b[i]
    BY <1>2, <1>4, Zenon
  <2>2. IsLeast(s + Len(t), Stops(json, s))
    BY <2>1, StopsAt
  <2> QED BY <2>2, Zenon
<1>7. StopOf(Stops(json, s), J + 1) = s + L
  <2>1. J + 1 \in Nat /\ s + L \in Nat /\ s + L <= J + 1
    BY <1>5, SMT
  <2> QED BY <1>6, <2>1, LeastStop, Zenon
<1>8. SubSeq(json, s, (s + L) - 1) = t
  <2>1. s \in 1 .. Len(json) + 1 /\ (s + L) - 1 \in s - 1 .. Len(json) /\ ((s + L) - 1) - s + 1 = Len(t)
    BY <1>5, SMT
  <2>2. t \in Seq(Byte)
    <3>1. NumberChars \subseteq Byte
      BY SMT DEF NumberChars, DigitChars, Byte, Zero, Minus
    <3> QED BY <1>2, <3>1, SeqMonotonic, Zenon
  <2>3. \A i \in 1 .. L : i \in 1 .. B
    BY <1>5, SMT
  <2>4. \A i \in 1 .. Len(t) : json[s + i - 1] = t[i]
    <3>1. \A i \in 1 .. L : b[i] = t[i]
      BY <1>2, Zenon DEF Begins
    <3> QED BY <1>4, <2>3, <3>1, Zenon
  <2>5. json \in Seq(Byte)
    BY <1>4, Zenon
  <2> QED BY <2>1, <2>2, <2>4, <2>5, TextIsPart
<1>9. s # 0 /\ s + L # s
  BY <1>5, SMT
<1>10. IntOf(t) = n
  BY IntIsRead, Zenon
<1>11. JsonIntValue(json, key) =
         LET start == After(json, <<Quote, key, Quote, Colon>>)
             stop == StopOf(Stops(json, start), Len(json) + 1)
         IN  IF start = 0 \/ stop = start THEN <<>> ELSE <<IntOf(SubSeq(json, start, stop - 1))>>
  BY Zenon DEF JsonIntValue, Stops, StopOf
<1>12. StopOf(Stops(json, s), Len(json) + 1) = s + L
  BY <1>7, Zenon
<1>13. After(json, <<Quote, key, Quote, Colon>>) = s
  BY <1>3, Zenon
<1>14. JsonIntValue(json, key) = <<n>>
  BY <1>8, <1>9, <1>10, <1>11, <1>12, <1>13
<1>15. json = Joined(Joined(a, IntMarker(key)), b)
  BY Zenon DEF Joined, IntMarker
<1> QED BY <1>14, <1>15, Zenon

-----------------------------------------------------------------------------
(* The fields of a token *)

\* What a key is: none of the characters that the grammar uses.
KeyChar(key) == key \in Byte /\ key \notin NumberChars /\ key \notin {Quote, Comma, Colon, Backslash}

\* The keys of a token.
LEMMA TokenKeys ==
    /\ KeyChar(Sub) /\ KeyChar(Username) /\ KeyChar(Role) /\ KeyChar(Iat) /\ KeyChar(Exp)
    /\ Sub # Username /\ Sub # Role /\ Sub # Iat /\ Sub # Exp
    /\ Username # Role /\ Username # Iat /\ Username # Exp /\ Role # Iat /\ Role # Exp /\ Iat # Exp
BY SMT DEF KeyChar, Byte, NumberChars, DigitChars, Sub, Username, Role, Iat, Exp, Quote, Comma, Colon, Backslash,
           Minus, Zero

\* The characters of a number are no marks.
LEMMA NumberMarks ==
    /\ NumberChars \subseteq Byte /\ Quote \notin NumberChars /\ Comma \notin NumberChars
    /\ Colon \notin NumberChars /\ 125 \notin NumberChars
BY SMT DEF NumberChars, DigitChars, Byte, Zero, Minus, Quote, Comma, Colon

\* How an integer is written.
LEMMA IntTextIs ==
    ASSUME NEW n \in Int
    PROVE  IntText(n) \in Seq(NumberChars) /\ IntText(n) \in Seq(Byte) /\ Len(IntText(n)) >= 1
<1>1. IntText(n) \in Seq(NumberChars) /\ Len(IntText(n)) >= 1
  BY IntIsRead, Zenon DEF NumberChars
<1>2. IntText(n) \in Seq(Byte)
  BY <1>1, NumberMarks, SeqMonotonic, Zenon
<1> QED BY <1>1, <1>2, Zenon

\* The value of an integer field is read up to the mark behind it.
LEMMA NumberEnds ==
    ASSUME NEW n \in Int, NEW c \in Byte, c \notin NumberChars, NEW rest \in Seq(Byte)
    PROVE  NumberedText((IntText(n) \o <<c>>) \o rest, IntText(n))
<1> PICK t : t = IntText(n)
  OBVIOUS
<1>1. t \in Seq(NumberChars) /\ t \in Seq(Byte) /\ Len(t) >= 1
  BY IntTextIs, Zenon
<1> PICK b : b = (t \o <<c>>) \o rest
  OBVIOUS
<1> PICK m \in Seq(Byte) : m = <<c>>
  <2>1. <<c>> \in Seq(Byte)
    BY SMT
  <2> QED BY <2>1, Zenon
<1>2. Len(m) = 1 /\ m[1] = c
  BY SMT
<1>3. Row(t, m, rest, b)
  BY <1>1, InRow, Zenon
<1>4. /\ b \in Seq(Byte) /\ Len(b) = Len(t) + 1 + Len(rest)
      /\ \A i \in 1 .. Len(t) : b[i] = t[i]
  BY <1>2, <1>3, Zenon DEF Row
<1>5. b[Len(t) + 1] = c
  <2>1. 1 \in 1 .. Len(m)
    BY <1>2, SMT
  <2> QED BY <1>2, <1>3, <2>1, Zenon DEF Row
<1>6. Len(t) < Len(b) /\ Len(t) <= Len(b)
  BY <1>1, <1>4, SMT
<1>7. NumberedText(b, t)
  BY <1>1, <1>4, <1>5, <1>6, Zenon DEF NumberedText, Begins
<1> QED BY <1>7, Zenon

\* The value of a string field is read up to the quote behind it.
LEMMA QuoteEnds ==
    ASSUME NEW t \in Seq(Byte), NEW rest \in Seq(Byte)
    PROVE  QuotedText((JsonEscape(t) \o <<Quote>>) \o rest, t)
<1> PICK e : e = JsonEscape(t)
  OBVIOUS
<1>1. e \in Seq(Byte)
  BY EscapeStages, Zenon
<1> PICK b : b = (e \o <<Quote>>) \o rest
  OBVIOUS
<1> PICK m \in Seq(Byte) : m = <<Quote>>
  <2>1. <<Quote>> \in Seq(Byte)
    BY Marks, SMT
  <2> QED BY <2>1, Zenon
<1>2. Len(m) = 1 /\ m[1] = Quote
  BY SMT
<1>3. Row(e, m, rest, b)
  BY <1>1, InRow, Zenon
<1>4. /\ b \in Seq(Byte) /\ Len(b) = Len(e) + 1 + Len(rest)
      /\ \A i \in 1 .. Len(e) : b[i] = e[i]
  BY <1>2, <1>3, Zenon DEF Row
<1>5. b[Len(e) + 1] = Quote
  <2>1. 1 \in 1 .. Len(m)
    BY <1>2, SMT
  <2> QED BY <1>2, <1>3, <2>1, Zenon DEF Row
<1>6. Len(e) < Len(b) /\ Len(e) <= Len(b)
  BY <1>1, <1>4, SMT
<1>7. QuotedText(b, t)
  BY <1>4, <1>5, <1>6, Zenon DEF QuotedText, Begins
<1> QED BY <1>7, Zenon

\* An integer field holds no other key than its own.
LEMMA IntFieldNoKey ==
    ASSUME NEW key, KeyChar(key), NEW k, KeyChar(k), key # k, NEW n \in Int
    PROVE  /\ IntField(k, n) \in Seq(Byte)
           /\ NoKey(IntField(k, n) \o <<Comma>>, key)
<1> PICK m \in Seq(Byte) : m = <<Quote, k, Quote, Colon>>
  <2>1. k \in Byte /\ Quote \in Byte /\ Colon \in Byte
    BY Marks, Zenon DEF KeyChar
  <2>2. <<Quote, k, Quote, Colon>> \in Seq(Byte)
    BY <2>1, SMT
  <2> QED BY <2>2, Zenon
<1> PICK t \in Seq(Byte) : t = IntText(n)
  BY IntTextIs, Zenon
<1> PICK c \in Seq(Byte) : c = <<Comma>>
  <2>1. <<Comma>> \in Seq(Byte)
    BY Marks, SMT
  <2> QED BY <2>1, Zenon
<1> PICK x : x = (m \o t) \o c
  OBVIOUS
<1>1. Len(m) = 4 /\ m[2] = k /\ m[1] = Quote /\ m[3] = Quote /\ Len(c) = 1 /\ c[1] = Comma
  BY SMT
<1> PICK L \in Nat : L = Len(t)
  BY SMT
<1>2. /\ Len(x) = 4 + L + 1
      /\ \A i \in 1 .. 4 : x[i] = m[i]
      /\ \A i \in 1 .. L : x[4 + i] = t[i]
      /\ \A i \in 1 .. 1 : x[4 + L + i] = c[i]
  <2>1. Row(m, t, c, x)
    BY InRow, Zenon
  <2> QED BY <1>1, <2>1, Zenon DEF Row
<1>3. \A i \in 1 .. L : t[i] \in NumberChars
  <2>1. t \in Seq(NumberChars)
    BY IntTextIs, Zenon
  <2> QED BY <2>1, ElementOfSeq, Zenon
<1>4. Quote # Colon /\ Comma # Colon /\ Colon \notin NumberChars
  BY Marks, NumberMarks, Zenon
<1>5. ASSUME NEW j \in 1 .. Len(x) - 2, x[j] = key, x[j + 1] = Quote, x[j + 2] = Colon PROVE FALSE
  <2>1. j \in Nat /\ j >= 1 /\ j + 2 <= 4 + L + 1
    BY <1>2, SMT
  <2>2. CASE j + 2 = 3
    <3>1. 3 \in 1 .. 4
      BY SMT
    <3>2. x[3] = Quote
      BY <1>1, <1>2, <3>1, Zenon
    <3> QED BY <1>4, <1>5, <2>2, <3>2, Zenon
  <2>3. CASE j = 2
    <3>1. 2 \in 1 .. 4
      BY SMT
    <3> QED BY <1>1, <1>2, <1>5, <2>3, <3>1, Zenon
  <2>4. CASE j + 2 = 4 + L + 1
    <3>1. 1 \in 1 .. 1
      BY SMT
    <3>2. x[4 + L + 1] = Comma
      BY <1>1, <1>2, <3>1, Zenon
    <3> QED BY <1>4, <1>5, <2>4, <3>2, Zenon
  <2>5. CASE j >= 3 /\ j + 2 < 4 + L + 1
    <3> PICK i \in Nat : i = j - 2
      BY <2>1, <2>5, SMT
    <3>1. i \in 1 .. L /\ 4 + i = j + 2
      BY <2>1, <2>5, SMT
    <3>2. x[j + 2] = t[i]
      BY <1>2, <3>1, Zenon
    <3> QED BY <1>3, <1>4, <1>5, <3>1, <3>2, Zenon
  <2>6. j + 2 = 3 \/ j = 2 \/ j + 2 = 4 + L + 1 \/ (j >= 3 /\ j + 2 < 4 + L + 1)
    BY <2>1, SMT
  <2> QED BY <2>2, <2>3, <2>4, <2>5, <2>6, Zenon
<1>6. NoKey(x, key)
  BY <1>5, Zenon DEF NoKey
<1>7. IntField(k, n) = m \o t
  BY Zenon DEF IntField
<1>8. m \o t \in Seq(Byte)
  BY ConcatProperties, Zenon
<1> QED BY <1>6, <1>7, <1>8, Zenon

\* A string field holds no other key than its own: every quote of the text is
\* behind a backslash, and behind the last one there is a comma.
LEMMA StringFieldNoKey ==
    ASSUME NEW key, KeyChar(key), NEW k, KeyChar(k), key # k, NEW text \in Seq(Byte)
    PROVE  /\ StringField(k, text) \in Seq(Byte)
           /\ NoKey(StringField(k, text) \o <<Comma>>, key)
<1> PICK m \in Seq(Byte) : m = <<Quote, k, Quote, Colon, Quote>>
  <2>1. k \in Byte /\ Quote \in Byte /\ Colon \in Byte
    BY Marks, Zenon DEF KeyChar
  <2>2. <<Quote, k, Quote, Colon, Quote>> \in Seq(Byte)
    BY <2>1, SMT
  <2> QED BY <2>2, Zenon
<1> PICK e \in Seq(Byte) : e = JsonEscape(text)
  BY EscapeStages, Zenon
<1> PICK q \in Seq(Byte) : q = <<Quote>>
  <2>1. <<Quote>> \in Seq(Byte)
    BY Marks, SMT
  <2> QED BY <2>1, Zenon
<1> PICK c \in Seq(Byte) : c = <<Comma>>
  <2>1. <<Comma>> \in Seq(Byte)
    BY Marks, SMT
  <2> QED BY <2>1, Zenon
<1> PICK f \in Seq(Byte) : f = (m \o e) \o q
  <2>1. (m \o e) \o q \in Seq(Byte)
    BY ConcatProperties, Zenon
  <2> QED BY <2>1, Zenon
<1> PICK x : x = f \o c
  OBVIOUS
<1>1. /\ Len(m) = 5 /\ m[1] = Quote /\ m[2] = k /\ m[3] = Quote /\ m[4] = Colon
      /\ Len(q) = 1 /\ Len(c) = 1 /\ c[1] = Comma
  BY SMT
<1> PICK L \in Nat : L = Len(e)
  BY SMT
<1>2. /\ Len(f) = 5 + L + 1
      /\ \A i \in 1 .. 5 : f[i] = m[i]
      /\ \A i \in 1 .. L : f[5 + i] = e[i]
  <2>1. Row(m, e, q, f)
    BY InRow, Zenon
  <2> QED BY <1>1, <2>1, Zenon DEF Row
<1>3. Len(x) = Len(f) + 1 /\ (\A i \in 1 .. Len(f) : x[i] = f[i]) /\ x[Len(f) + 1] = Comma
  BY <1>1, SMT
<1>4. \A i \in 1 .. L : e[i] = Quote => i > 1 /\ e[i - 1] = Backslash
  <2>1. QuotesEscaped(JsonEscape(text))
    BY EscapeStages, Zenon
  <2> QED BY <2>1, Zenon DEF QuotesEscaped
<1>5. Quote # Colon /\ Comma # Colon /\ Quote # Comma /\ key # Backslash /\ key # Colon /\ key # Quote
  BY Marks, Zenon DEF KeyChar
<1>6. ASSUME NEW j \in 1 .. Len(x) - 2, x[j] = key, x[j + 1] = Quote, x[j + 2] = Colon PROVE FALSE
  <2>1. j \in Nat /\ j >= 1 /\ j + 2 <= 5 + L + 2 /\ Len(f) = 6 + L
    BY <1>2, <1>3, SMT
  <2>2. CASE j + 2 = Len(f) + 1
    BY <1>3, <1>5, <1>6, <2>2, ZenonT(60)
  <2>3. CASE j <= 5 /\ j # 3
    <3>1. j = 1 \/ j = 2 \/ j = 4 \/ j = 5
      BY <2>1, <2>3, SMT
    <3>2. 1 \in 1 .. 5 /\ 2 \in 1 .. 5 /\ 4 \in 1 .. 5 /\ 1 \in 1 .. Len(f) /\ 2 \in 1 .. Len(f) /\ 4 \in 1 .. Len(f)
      BY <2>1, SMT
    <3>3. x[1] = Quote /\ x[2] = k /\ x[4] = Colon
      <4>1. x[1] = f[1] /\ x[2] = f[2] /\ x[4] = f[4]
        BY <1>3, <3>2, Zenon
      <4>2. f[1] = m[1] /\ f[2] = m[2] /\ f[4] = m[4]
        BY <1>2, <3>2, Zenon
      <4>3. m[1] = Quote /\ m[2] = k /\ m[4] = Colon
        BY <1>1, Zenon
      <4> QED BY <4>1, <4>2, <4>3, Zenon
    <3>4. CASE j = 5
      <4>1. 5 \in 1 .. 5 /\ 5 \in 1 .. Len(f)
        BY <2>1, SMT
      <4>2. x[5] = m[5] /\ m[5] = Quote
        <5>1. m[5] = Quote
          BY SMT
        <5> QED BY <1>2, <1>3, <4>1, <5>1, Zenon
      <4> QED BY <1>5, <1>6, <3>4, <4>2, Zenon
    <3> QED BY <1>5, <1>6, <3>1, <3>3, <3>4, Zenon
  <2>4. CASE j = 3
    <3>1. 3 + 1 = 4 /\ 4 \in 1 .. 5 /\ 4 \in 1 .. Len(f)
      BY <2>1, SMT
    <3>2. x[4] = Colon
      BY <1>1, <1>2, <1>3, <3>1, ZenonT(60)
    <3>3. x[4] = Quote
      BY <1>6, <2>4, <3>1
    <3> QED BY <1>5, <3>2, <3>3, Zenon
  <2>5. CASE j > 5 /\ j + 2 # Len(f) + 1
    <3>0. j - 5 \in Nat
      BY <2>1, <2>5, SMT
    <3> PICK i \in Nat : i = j - 5
      BY <3>0, Zenon
    <3>1. /\ i \in 1 .. L /\ 5 + i = j /\ j \in 1 .. Len(f) /\ j + 1 \in 1 .. Len(f) /\ j + 2 \in 1 .. Len(f)
          /\ j + 1 = 5 + (i + 1) /\ (i + 1) - 1 = i
      BY <2>1, <2>5, SMT
    <3>2. x[j] = e[i]
      <4>1. x[j] = f[j]
        BY <1>3, <3>1, Zenon
      <4>2. f[5 + i] = e[i]
        BY <1>2, <3>1, Zenon
      <4>3. f[j] = e[i]
        BY <3>1, <4>2
      <4> QED BY <4>1, <4>3, Zenon
    <3>3. CASE i + 1 \in 1 .. L
      <4>1. x[j + 1] = e[i + 1]
        <5>1. x[j + 1] = f[j + 1]
          BY <1>3, <3>1, Zenon
        <5>2. f[5 + (i + 1)] = e[i + 1]
          BY <1>2, <3>3, Zenon
        <5>3. f[j + 1] = e[i + 1]
          BY <3>1, <5>2
        <5> QED BY <5>1, <5>3, Zenon
      <4>2. e[(i + 1) - 1] = Backslash
        BY <1>4, <1>6, <3>3, <4>1, Zenon
      <4>3. e[i] = Backslash
        BY <3>1, <4>2
      <4> QED BY <1>5, <1>6, <3>2, <4>3, Zenon
    <3>4. CASE i + 1 \notin 1 .. L
      <4>1. j + 2 = Len(f) + 1
        BY <2>1, <3>1, <3>4, SMT
      <4> QED BY <2>5, <4>1, Zenon
    <3> QED BY <3>3, <3>4
  <2>6. (j + 2 = Len(f) + 1) \/ (j <= 5 /\ j # 3) \/ (j = 3) \/ (j > 5 /\ j + 2 # Len(f) + 1)
    BY <2>1, SMT
  <2> QED BY <2>2, <2>3, <2>4, <2>5, <2>6, Zenon
<1>7. NoKey(x, key)
  BY <1>6, Zenon DEF NoKey
<1>8. StringField(k, text) = f
  BY Zenon DEF StringField
<1> QED BY <1>7, <1>8, Zenon

\* The part of a payload that is written when the fields for keys are not.
Before(a, keys) == Fields(a) /\ \A key \in keys : NoKey(a, key)

\* The next field leaves it so.
LEMMA NextField ==
    ASSUME NEW keys, \A key \in keys : KeyChar(key), NEW a, Before(a, keys), NEW f \in Seq(Byte),
           \A key \in keys : NoKey(f \o <<Comma>>, key)
    PROVE  Before((a \o f) \o <<Comma>>, keys)
<1> PICK c \in Seq(Byte) : c = <<Comma>>
  <2>1. <<Comma>> \in Seq(Byte)
    BY Marks, SMT
  <2> QED BY <2>1, Zenon
<1>1. a \in Seq(Byte) /\ (a # <<>> => a[Len(a)] = Comma)
  BY Zenon DEF Before, Fields
<1> PICK x \in Seq(Byte) : x = f \o c
  <2>1. f \o c \in Seq(Byte)
    BY ConcatProperties, Zenon
  <2> QED BY <2>1, Zenon
<1> PICK y : y = a \o x
  OBVIOUS
<1>2. y = (a \o f) \o c
  <2>1. a \in Seq(Byte)
    BY <1>1, Zenon
  <2>2. (a \o f) \o c = a \o (f \o c)
    BY <2>1, ConcatAssociative
  <2> QED BY <2>2, Zenon
<1> PICK p \in Nat : p = Len(a)
  BY <1>1
<1> PICK l \in Nat : l = Len(x) /\ l >= 1 /\ x[l] = Comma
  BY SMT
<1>3. /\ y \in Seq(Byte) /\ Len(y) = p + l
      /\ \A i \in 1 .. p : y[i] = a[i]
      /\ \A i \in 1 .. l : y[p + i] = x[i]
  BY <1>1, SMT
<1>4. Fields(y)
  <2>1. l \in 1 .. l
    BY SMT
  <2>2. y[Len(y)] = Comma
    BY <1>3, <2>1
  <2> QED BY <1>3, <2>2, Zenon DEF Fields
<1>5. ASSUME NEW key \in keys PROVE NoKey(y, key)
  <2>1. key # Comma /\ Quote # Comma
    BY Marks, Zenon DEF KeyChar
  <2>2. ASSUME NEW j \in 1 .. Len(y) - 2, y[j] = key, y[j + 1] = Quote, y[j + 2] = Colon PROVE FALSE
    <3>1. j \in Nat /\ j >= 1 /\ j + 2 <= p + l
      BY <1>3, SMT
    <3>2. CASE j + 2 <= p
      <4>1. j \in 1 .. p - 2 /\ j \in 1 .. p /\ j + 1 \in 1 .. p /\ j + 2 \in 1 .. p
        BY <3>1, <3>2, SMT
      <4>2. NoKey(a, key)
        BY Zenon DEF Before
      <4>3. a[j] = key /\ a[j + 1] = Quote /\ a[j + 2] = Colon
        BY <1>3, <2>2, <4>1, Zenon
      <4> QED BY <4>1, <4>2, <4>3, Zenon DEF NoKey
    <3>3. CASE j = p \/ j + 1 = p
      <4>1. a # <<>> /\ p \in 1 .. p
        BY <1>1, <3>1, <3>3, SMT
      <4>2. y[p] = Comma
        BY <1>1, <1>3, <4>1, Zenon
      <4>3. y[p] = key \/ y[p] = Quote
        BY <2>2, <3>3, Zenon
      <4> QED BY <2>1, <4>2, <4>3, Zenon
    <3>4. CASE j > p
      <4>0. j - p \in Nat
        BY <3>1, <3>4, SMT
      <4> PICK i \in Nat : i = j - p
        BY <4>0, Zenon
      <4>1. /\ i \in 1 .. l - 2 /\ i \in 1 .. l /\ i + 1 \in 1 .. l /\ i + 2 \in 1 .. l
            /\ p + i = j /\ p + (i + 1) = j + 1 /\ p + (i + 2) = j + 2
        BY <3>1, <3>4, SMT
      <4>2. x[i] = key /\ x[i + 1] = Quote /\ x[i + 2] = Colon
        BY <1>3, <2>2, <4>1, ZenonT(60)
      <4>3. NoKey(x, key)
        BY Zenon
      <4> QED BY <4>1, <4>2, <4>3, Zenon DEF NoKey
    <3>5. j + 2 <= p \/ (j = p \/ j + 1 = p) \/ j > p
      BY <3>1, SMT
    <3> QED BY <3>2, <3>3, <3>4, <3>5, Zenon
  <2> QED BY <2>2, Zenon DEF NoKey
<1> QED BY <1>2, <1>4, <1>5, Zenon DEF Before

\* A text of one character, and of none.
One(c) == <<c>>
NoText == <<>>

\* Texts joined from the left are joined from the right.
LEMMA JoinedTwice ==
    ASSUME NEW s \in Seq(Byte), NEW t \in Seq(Byte), NEW u \in Seq(Byte)
    PROVE  Joined(Joined(s, t), u) = Joined(s, Joined(t, u)) /\ Joined(s, t) \in Seq(Byte)
<1>1. (s \o t) \o u = s \o (t \o u)
  BY ConcatAssociative, SMT
<1>2. s \o t \in Seq(Byte)
  BY ConcatProperties, Zenon
<1> QED BY <1>1, <1>2, SMT DEF Joined

\* The text before a field and the field, and the mark and the text behind it.
LEMMA FieldJoined ==
    ASSUME NEW a \in Seq(Byte), NEW f \in Seq(Byte), NEW c \in Seq(Byte), NEW rest \in Seq(Byte)
    PROVE  /\ Joined(Joined(Joined(a, f), c), rest) = Joined(a, Joined(Joined(f, c), rest))
           /\ Joined(Joined(a, f), c) \in Seq(Byte)
BY JoinedTwice, SMT

\* The text before a field with its marker, and its value with what is behind it.
LEMMA MarkerJoined ==
    ASSUME NEW a \in Seq(Byte), NEW m \in Seq(Byte), NEW v \in Seq(Byte), NEW c \in Seq(Byte), NEW rest \in Seq(Byte)
    PROVE  Joined(a, Joined(Joined(Joined(m, v), c), rest)) = Joined(Joined(a, m), Joined(Joined(v, c), rest))
BY JoinedTwice, SMT

\* The field f is in the text behind a, and ends in c.
Behind(json, a, f, c) == \E rest \in Seq(Byte) : json = Joined(a, Joined(Joined(f, c), rest))

\* The last field is in the text.
LEMMA BehindLast ==
    ASSUME NEW a \in Seq(Byte), NEW f \in Seq(Byte), NEW d \in Seq(Byte)
    PROVE  Behind(Joined(Joined(a, f), d), a, f, d)
<1>1. NoText \in Seq(Byte)
  BY SMT DEF NoText
<1>2. Joined(Joined(a, f), d) \in Seq(Byte)
  BY FieldJoined, SMT
<1>3. Joined(Joined(Joined(a, f), d), NoText) = Joined(Joined(a, f), d)
  <2> PICK s \in Seq(Byte) : s = Joined(Joined(a, f), d)
    BY <1>2, Zenon
  <2>1. s \o <<>> = s
    BY ConcatEmptySeq
  <2> QED BY <2>1, Zenon DEF Joined, NoText
<1>4. Joined(Joined(Joined(a, f), d), NoText) = Joined(a, Joined(Joined(f, d), NoText))
  BY <1>1, FieldJoined, SMT
<1> QED BY <1>1, <1>3, <1>4, SMT DEF Behind

\* A field is in the text if the next one is.
LEMMA BehindOther ==
    ASSUME NEW a \in Seq(Byte), NEW f \in Seq(Byte), NEW c \in Seq(Byte),
           NEW g \in Seq(Byte), NEW d \in Seq(Byte),
           NEW json, Behind(json, Joined(Joined(a, f), c), g, d)
    PROVE  Behind(json, a, f, c)
<1>1. PICK r \in Seq(Byte) : json = Joined(Joined(Joined(a, f), c), Joined(Joined(g, d), r))
  BY Zenon DEF Behind
<1>2. Joined(Joined(g, d), r) \in Seq(Byte)
  BY FieldJoined, SMT
<1> PICK s \in Seq(Byte) : s = Joined(Joined(g, d), r)
  BY <1>2, Zenon
<1>3. json = Joined(a, Joined(Joined(f, c), s))
  BY <1>1, FieldJoined, SMT
<1> QED BY <1>3, SMT DEF Behind

\* An integer field is read, wherever it is.
LEMMA IntFieldRead ==
    ASSUME NEW a, Fields(a), NEW key, KeyChar(key), NoKey(a, key), NEW n \in Int,
           NEW c \in Byte, c \notin NumberChars, NEW rest \in Seq(Byte)
    PROVE  JsonIntValue(Joined(a, Joined(Joined(IntField(key, n), One(c)), rest)), key) = <<n>>
<1>1. key \in Byte /\ key # Comma /\ a \in Seq(Byte)
  BY Zenon DEF KeyChar, Fields
<1>2. IntMarker(key) \in Seq(Byte) /\ One(c) \in Seq(Byte) /\ IntText(n) \in Seq(Byte)
  <2>1. Quote \in Byte /\ Colon \in Byte
    BY Marks, Zenon
  <2>2. IntText(n) \in Seq(Byte)
    BY IntTextIs, Zenon
  <2> QED BY <1>1, <2>1, <2>2, SMT DEF IntMarker, One
<1> PICK b : b = Joined(Joined(IntText(n), One(c)), rest)
  OBVIOUS
<1>3. NumberedText(b, IntText(n))
  BY NumberEnds DEF Joined, One
<1>4. JsonIntValue(Joined(Joined(a, IntMarker(key)), b), key) = <<n>>
  BY <1>1, <1>3, IntegerIsRead
<1>5. IntField(key, n) = Joined(IntMarker(key), IntText(n))
  BY DEF IntField, Joined, IntMarker
<1>6. Joined(a, Joined(Joined(Joined(IntMarker(key), IntText(n)), One(c)), rest))
        = Joined(Joined(a, IntMarker(key)), b)
  BY <1>1, <1>2, MarkerJoined, SMT
<1> QED BY <1>4, <1>5, <1>6, SMT

\* A string field is read, wherever it is.
LEMMA StringFieldRead ==
    ASSUME NEW a, Fields(a), NEW key, KeyChar(key), NoKey(a, key), NEW t \in Seq(Byte), NEW rest \in Seq(Byte)
    PROVE  JsonStringValue(Joined(a, Joined(Joined(StringField(key, t), One(Comma)), rest)), key) = <<Letters(t)>>
<1>1. key \in Byte /\ key # Comma /\ a \in Seq(Byte)
  BY Zenon DEF KeyChar, Fields
<1>2. /\ StringMarker(key) \in Seq(Byte) /\ One(Quote) \in Seq(Byte) /\ One(Comma) \in Seq(Byte)
      /\ JsonEscape(t) \in Seq(Byte)
  <2>1. Quote \in Byte /\ Colon \in Byte /\ Comma \in Byte
    BY Marks, Zenon
  <2>2. JsonEscape(t) \in Seq(Byte)
    BY EscapeStages, Zenon
  <2> QED BY <1>1, <2>1, <2>2, SMT DEF StringMarker, One
<1>3. Joined(One(Comma), rest) \in Seq(Byte)
  BY <1>2, JoinedTwice, Zenon
<1> PICK more \in Seq(Byte) : more = Joined(One(Comma), rest)
  BY <1>3, Zenon
<1> PICK b : b = Joined(Joined(JsonEscape(t), One(Quote)), more)
  OBVIOUS
<1>4. QuotedText(b, t)
  BY QuoteEnds DEF Joined, One
<1>5. JsonStringValue(Joined(Joined(a, StringMarker(key)), b), key) = <<Letters(t)>>
  BY <1>1, <1>4, StringIsRead
<1> PICK f : f = Joined(Joined(StringMarker(key), JsonEscape(t)), One(Quote))
  OBVIOUS
<1>6. StringField(key, t) = f
  BY DEF StringField, Joined, StringMarker, One
<1>7. f \in Seq(Byte)
  BY <1>2, FieldJoined, SMT
<1>8. Joined(Joined(f, One(Comma)), rest) = Joined(f, more)
  BY <1>2, <1>7, JoinedTwice, SMT
<1>9. Joined(a, Joined(f, more)) = Joined(Joined(a, StringMarker(key)), b)
  BY <1>1, <1>2, MarkerJoined, SMT
<1> QED BY <1>5, <1>6, <1>8, <1>9, SMT

NoKeys(f, keys) == \A key \in keys : NoKey(f, key)
KeyChars(keys) == \A key \in keys : KeyChar(key)

\* NextField, for texts that are joined.
LEMMA FieldAdded ==
    ASSUME NEW keys, KeyChars(keys), NEW a, Before(a, keys), NEW f \in Seq(Byte),
           NoKeys(Joined(f, One(Comma)), keys)
    PROVE  Before(Joined(Joined(a, f), One(Comma)), keys)
<1>1. \A key \in keys : KeyChar(key) /\ NoKey(f \o <<Comma>>, key)
  BY Zenon DEF Joined, One, NoKeys, KeyChars
<1>2. Before((a \o f) \o <<Comma>>, keys)
  BY <1>1, NextField
<1> QED BY <1>2, Zenon DEF Joined, One

\* The claims are the values of the keys.
LEMMA ClaimsAre ==
    ASSUME NEW payload, NEW json, Base64UrlDecode(payload) = <<json>>, NEW defaultRole,
           NEW user_id, JsonIntValue(json, Sub) = <<user_id>>,
           NEW username, JsonStringValue(json, Username) = <<username>>,
           NEW role, JsonStringValue(json, Role) = <<role>>,
           NEW now, JsonIntValue(json, Iat) = <<now>>, NEW exp, JsonIntValue(json, Exp) = <<exp>>
    PROVE  TokenClaims(payload, defaultRole)
             = <<[user_id |-> user_id, username |-> username, role |-> role, exp |-> exp]>>
<1>1. \A x : <<x>> # <<>> /\ <<x>>[1] = x
  OBVIOUS
<1>2. Base64UrlDecode(payload)[1] = json
  BY <1>1, Zenon
<1> QED BY <1>1, <1>2, Zenon DEF TokenClaims

\* What was written into a token is read from it, whatever bytes the names are
\* made of: no text passes for a key, and none is cut short or run over; only a
\* newline, carriage return or tab comes back as the letter n, r or t (IssueToken,
\* ValidateToken).
THEOREM TokensReadBack ==
    \A user_id \in Int, username \in Seq(0 .. 255), role \in Seq(0 .. 255), now \in Int, ttl \in Int :
        \A defaultRole :
            TokenClaims(TokenText(user_id, username, role, now, ttl), defaultRole)
              = <<[user_id |-> user_id, username |-> Letters(username), role |-> Letters(role), exp |-> now + ttl]>>
<1> SUFFICES ASSUME NEW user_id \in Int, NEW username \in Seq(Byte), NEW role \in Seq(Byte), NEW now \in Int,
                    NEW ttl \in Int, NEW defaultRole
             PROVE  TokenClaims(TokenText(user_id, username, role, now, ttl), defaultRole)
                      = <<[user_id |-> user_id, username |-> Letters(username), role |-> Letters(role),
                           exp |-> now + ttl]>>
  BY Zenon DEF Byte
<1> PICK exp \in Int : exp = now + ttl
  <2>1. now + ttl \in Int
    BY SMT
  <2> QED BY <2>1, Zenon
<1>0. Comma \in Byte /\ 125 \in Byte /\ Comma \notin NumberChars /\ 125 \notin NumberChars
  BY Marks, NumberMarks
<1>1. One(Comma) \in Seq(Byte) /\ One(125) \in Seq(Byte)
  BY <1>0, SMT DEF One
<1>f1. PICK F1 \in Seq(Byte) : F1 = IntField(Sub, user_id)
  BY TokenKeys, IntFieldNoKey, Zenon
<1>f2. PICK F2 \in Seq(Byte) : F2 = StringField(Username, username)
  BY TokenKeys, StringFieldNoKey, Zenon
<1>f3. PICK F3 \in Seq(Byte) : F3 = StringField(Role, role)
  BY TokenKeys, StringFieldNoKey, Zenon
<1>f4. PICK F4 \in Seq(Byte) : F4 = IntField(Iat, now)
  BY TokenKeys, IntFieldNoKey, Zenon
<1>f5. PICK F5 \in Seq(Byte) : F5 = IntField(Exp, exp)
  BY TokenKeys, IntFieldNoKey, Zenon
<1>t. F1 \in Seq(Byte) /\ F2 \in Seq(Byte) /\ F3 \in Seq(Byte) /\ F4 \in Seq(Byte) /\ F5 \in Seq(Byte)
  BY <1>f1, <1>f2, <1>f3, <1>f4, <1>f5, Zenon
<1>a1. PICK A1 : A1 = Joined(Joined(NoText, F1), One(Comma))
  OBVIOUS
<1>a2. PICK A2 : A2 = Joined(Joined(A1, F2), One(Comma))
  OBVIOUS
<1>a3. PICK A3 : A3 = Joined(Joined(A2, F3), One(Comma))
  OBVIOUS
<1>a4. PICK A4 : A4 = Joined(Joined(A3, F4), One(Comma))
  OBVIOUS
<1>2. Before(NoText, {Sub, Username, Role, Iat, Exp})
  <2>1. NoText \in Seq(Byte) /\ \A j \in 1 .. Len(NoText) - 2 : FALSE
    BY SMT DEF NoText
  <2>2. NoText = <<>>
    BY DEF NoText
  <2> QED BY <2>1, <2>2, Zenon DEF Before, Fields, NoKey
<1>3. Before(A1, {Username, Role, Iat, Exp})
  <2>1. PICK keys : keys = {Username, Role, Iat, Exp}
    OBVIOUS
  <2>2. KeyChars(keys) /\ Before(NoText, keys) /\ NoKeys(Joined(F1, One(Comma)), keys)
    BY <2>1, <1>f1, <1>2, TokenKeys, IntFieldNoKey, Zenon DEF Before, Joined, One, KeyChars, NoKeys
  <2>3. Before(Joined(Joined(NoText, F1), One(Comma)), keys)
    BY <1>t, <2>2, FieldAdded, Zenon
  <2> QED BY <1>a1, <2>1, <2>3, Zenon
<1>4. Before(A2, {Role, Iat, Exp})
  <2>1. PICK keys : keys = {Role, Iat, Exp}
    OBVIOUS
  <2>2. KeyChars(keys) /\ Before(A1, keys) /\ NoKeys(Joined(F2, One(Comma)), keys)
    BY <2>1, <1>f2, <1>3, TokenKeys, StringFieldNoKey, Zenon DEF Before, Joined, One, KeyChars, NoKeys
  <2>3. Before(Joined(Joined(A1, F2), One(Comma)), keys)
    BY <1>t, <2>2, FieldAdded, Zenon
  <2> QED BY <1>a2, <2>1, <2>3, Zenon
<1>5. Before(A3, {Iat, Exp})
  <2>1. PICK keys : keys = {Iat, Exp}
    OBVIOUS
  <2>2. KeyChars(keys) /\ Before(A2, keys) /\ NoKeys(Joined(F3, One(Comma)), keys)
    BY <2>1, <1>f3, <1>4, TokenKeys, StringFieldNoKey, Zenon DEF Before, Joined, One, KeyChars, NoKeys
  <2>3. Before(Joined(Joined(A2, F3), One(Comma)), keys)
    BY <1>t, <2>2, FieldAdded, Zenon
  <2> QED BY <1>a3, <2>1, <2>3, Zenon
<1>6. Before(A4, {Exp})
  <2>1. PICK keys : keys = {Exp}
    OBVIOUS
  <2>2. KeyChars(keys) /\ Before(A3, keys) /\ NoKeys(Joined(F4, One(Comma)), keys)
    BY <2>1, <1>f4, <1>5, TokenKeys, IntFieldNoKey, Zenon DEF Before, Joined, One, KeyChars, NoKeys
  <2>3. Before(Joined(Joined(A3, F4), One(Comma)), keys)
    BY <1>t, <2>2, FieldAdded, Zenon
  <2> QED BY <1>a4, <2>1, <2>3, Zenon
<1>7. NoText \in Seq(Byte) /\ A1 \in Seq(Byte) /\ A2 \in Seq(Byte) /\ A3 \in Seq(Byte) /\ A4 \in Seq(Byte)
  BY <1>2, <1>3, <1>4, <1>5, <1>6, Zenon DEF Before, Fields
<1>8. Joined(Joined(A4, F5), One(125)) \in Seq(Byte)
  BY <1>1, <1>7, <1>f5, FieldJoined, SMTT(40)
<1>j. PICK json \in Seq(Byte) : json = Joined(Joined(A4, F5), One(125))
  BY <1>8, Zenon
<1>10. /\ Behind(json, NoText, F1, One(Comma)) /\ Behind(json, A1, F2, One(Comma)) /\ Behind(json, A2, F3, One(Comma))
       /\ Behind(json, A3, F4, One(Comma)) /\ Behind(json, A4, F5, One(125))
  <2>1. Behind(json, A4, F5, One(125))
    BY <1>1, <1>7, <1>t, <1>j, BehindLast, SMTT(40)
  <2>2. Behind(json, Joined(Joined(A3, F4), One(Comma)), F5, One(125))
    BY <1>a4, <2>1, SMT
  <2>3. Behind(json, A3, F4, One(Comma))
    <3>1. PICK d : d = One(125)
      OBVIOUS
    <3>2. d \in Seq(Byte) /\ One(Comma) \in Seq(Byte) /\ Behind(json, Joined(Joined(A3, F4), One(Comma)), F5, d)
      BY <1>1, <2>2, <3>1, SMT
    <3> QED BY <1>7, <1>t, <3>2, BehindOther, Zenon
  <2>4. Behind(json, Joined(Joined(A2, F3), One(Comma)), F4, One(Comma))
    BY <1>a3, <2>3, SMT
  <2>5. Behind(json, A2, F3, One(Comma))
    BY <1>1, <1>7, <1>t, <2>4, BehindOther, Zenon
  <2>6. Behind(json, Joined(Joined(A1, F2), One(Comma)), F3, One(Comma))
    BY <1>a2, <2>5, SMT
  <2>7. Behind(json, A1, F2, One(Comma))
    BY <1>1, <1>7, <1>t, <2>6, BehindOther, Zenon
  <2>8. Behind(json, Joined(Joined(NoText, F1), One(Comma)), F2, One(Comma))
    BY <1>a1, <2>7, SMT
  <2>9. Behind(json, NoText, F1, One(Comma))
    BY <1>1, <1>7, <1>t, <2>8, BehindOther, Zenon
  <2> QED BY <2>1, <2>3, <2>5, <2>7, <2>9, SMT
<1>11. JsonIntValue(json, Sub) = <<user_id>>
  <2>1. PICK r \in Seq(Byte) : json = Joined(NoText, Joined(Joined(F1, One(Comma)), r))
    BY <1>10, Zenon DEF Behind
  <2>2. Fields(NoText) /\ NoKey(NoText, Sub) /\ KeyChar(Sub)
    BY <1>2, TokenKeys, Zenon DEF Before
  <2>3. JsonIntValue(Joined(NoText, Joined(Joined(IntField(Sub, user_id), One(Comma)), r)), Sub) = <<user_id>>
    BY <1>0, <2>2, IntFieldRead
  <2> QED BY <1>f1, <2>1, <2>3, SMT
<1>12. JsonStringValue(json, Username) = <<Letters(username)>>
  <2>1. PICK r \in Seq(Byte) : json = Joined(A1, Joined(Joined(F2, One(Comma)), r))
    BY <1>10, Zenon DEF Behind
  <2>2. Fields(A1) /\ NoKey(A1, Username) /\ KeyChar(Username)
    BY <1>3, TokenKeys, Zenon DEF Before
  <2>3. JsonStringValue(Joined(A1, Joined(Joined(StringField(Username, username), One(Comma)), r)), Username)
          = <<Letters(username)>>
    BY <2>2, StringFieldRead
  <2> QED BY <1>f2, <2>1, <2>3, SMT
<1>13. JsonStringValue(json, Role) = <<Letters(role)>>
  <2>1. PICK r \in Seq(Byte) : json = Joined(A2, Joined(Joined(F3, One(Comma)), r))
    BY <1>10, Zenon DEF Behind
  <2>2. Fields(A2) /\ NoKey(A2, Role) /\ KeyChar(Role)
    BY <1>4, TokenKeys, Zenon DEF Before
  <2>3. JsonStringValue(Joined(A2, Joined(Joined(StringField(Role, role), One(Comma)), r)), Role)
          = <<Letters(role)>>
    BY <2>2, StringFieldRead
  <2> QED BY <1>f3, <2>1, <2>3, SMT
<1>14. JsonIntValue(json, Iat) = <<now>>
  <2>1. PICK r \in Seq(Byte) : json = Joined(A3, Joined(Joined(F4, One(Comma)), r))
    BY <1>10, Zenon DEF Behind
  <2>2. Fields(A3) /\ NoKey(A3, Iat) /\ KeyChar(Iat)
    BY <1>5, TokenKeys, Zenon DEF Before
  <2>3. JsonIntValue(Joined(A3, Joined(Joined(IntField(Iat, now), One(Comma)), r)), Iat) = <<now>>
    BY <1>0, <2>2, IntFieldRead
  <2> QED BY <1>f4, <2>1, <2>3, SMT
<1>15. JsonIntValue(json, Exp) = <<exp>>
  <2>1. PICK r \in Seq(Byte) : json = Joined(A4, Joined(Joined(F5, One(125)), r))
    BY <1>10, Zenon DEF Behind
  <2>2. Fields(A4) /\ NoKey(A4, Exp) /\ KeyChar(Exp)
    BY <1>6, TokenKeys, Zenon DEF Before
  <2>3. JsonIntValue(Joined(A4, Joined(Joined(IntField(Exp, exp), One(125)), r)), Exp) = <<exp>>
    BY <1>0, <2>2, IntFieldRead
  <2> QED BY <1>f5, <2>1, <2>3, SMT
<1>16. TokenText(user_id, username, role, now, ttl) = Base64UrlEncode(json)
  <2>1. Joined(NoText, F1) = F1
    BY <1>f1, ConcatEmptySeq DEF Joined, NoText
  <2>2. A1 = Joined(F1, One(Comma))
    BY <1>a1, <2>1, Zenon
  <2> QED BY <1>a2, <1>a3, <1>a4, <1>f1, <1>f2, <1>f3, <1>f4, <1>f5, <1>j, <2>2, Zenon DEF TokenText, Joined, One
<1>17. Base64UrlDecode(Base64UrlEncode(json)) = <<json>>
  BY <1>j, Base64UrlKeepsBytes, Zenon DEF Byte
<1>18. TokenClaims(Base64UrlEncode(json), defaultRole)
         = <<[user_id |-> user_id, username |-> Letters(username), role |-> Letters(role), exp |-> exp]>>
  BY <1>11, <1>12, <1>13, <1>14, <1>15, <1>17, ClaimsAre
<1> QED BY <1>16, <1>18, Zenon

\* There are no claims in an empty text.
LEMMA NothingSaysNothing == \A defaultRole : TokenClaims(<<>>, defaultRole) = <<>>
<1>1. Base64UrlDecode(<<>>) = << <<>> >>
  <2>1. <<>> \in Seq(Alphabet) /\ Len(<<>>) = 0
    OBVIOUS
  <2>2. PICK g \in [0 .. Len(<<>>) -> DecodeStates] :
          g[0] = DecodeStart /\ Folded(DecodeStep, DecodeStart, <<>>) = g[Len(<<>>)]
    BY <2>1, DecodeLoop
  <2>3. Folded(DecodeStep, DecodeStart, <<>>) = DecodeStart
    BY <2>1, <2>2, Zenon
  <2>4. DecodeStart.out = <<>>
    BY DEF DecodeStart
  <2>5. ~ \E i \in 1 .. Len(<<>>) : Base64UrlValue(<<>>[i]) = -1
    BY <2>1
  <2>6. Base64UrlDecode(<<>>) = <<Folded(DecodeStep, DecodeStart, <<>>).out>>
    BY <2>5, Zenon DEF Base64UrlDecode, DecodeStart
  <2> QED BY <2>3, <2>4, <2>6, Zenon
<1>2. After(<<>>, IntMarker(Sub)) = 0
  <2> DEFINE m == IntMarker(Sub)
             found == {i \in 1 .. Len(<<>>) - Len(m) + 1 : SubSeq(<<>>, i, i + Len(m) - 1) = m}
  <2>1. Len(m) = 4
    BY DEF IntMarker
  <2>2. Len(<<>>) - Len(m) + 1 = -3
    BY <2>1
  <2>3. 1 .. -3 = {}
    OBVIOUS
  <2>4. found = {}
    <3> HIDE DEF m
    <3> QED BY <2>2, <2>3, Zenon
  <2> QED BY <2>4, Zenon DEF After
<1>3. JsonIntValue(<<>>, Sub) = <<>>
  BY <1>2, Zenon DEF JsonIntValue, IntMarker
<1>4. << <<>> >>[1] = <<>>
  OBVIOUS
<1> QED BY <1>1, <1>3, <1>4, Zenon DEF TokenClaims
=============================================================================
