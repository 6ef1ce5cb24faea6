-------------------------- MODULE RateLimit_proofs --------------------------
(***************************************************************************)
(* Proofs about RateLimit, for every number of threads, processes and      *)
(* keys, all limits and windows, and with Redis failing at will.           *)
(***************************************************************************)
EXTENDS RateLimit, FiniteSetTheorems, TLAPS

\* A process's steady clock reads a positive number of seconds.
LEMMA NowPositive ==
    ASSUME TypeOK, NEW i \in Instances
    PROVE  NowSeconds(i) \in Nat /\ NowSeconds(i) > 0
  BY ClockAssumption DEF TypeOK, NowSeconds

\* A number of seconds has a window index.
LEMMA WindowIndex ==
    ASSUME NEW t \in Int
    PROVE  t \div Window \in Int
<1>1. Window \in Int /\ Window > 0
  BY LimitAssumption
<1> QED BY <1>1

\* CheckLocal works on a bucket.
LEMMA CurrentTyped ==
    ASSUME NEW b \in [window_start : Nat, count : Nat], NEW t \in Nat
    PROVE  /\ Current(b, t) \in [window_start : Nat, count : Nat]
           /\ [Current(b, t) EXCEPT !.count = @ + 1] \in [window_start : Nat, count : Nat]
  BY DEF Current

\* INCR and EXPIRE leave Redis with well-typed keys.
LEMMA RedisTyped ==
    ASSUME TypeOK, NEW x \in Keys \X Int
    PROVE  /\ DOMAIN Incremented(x) \subseteq Keys \X Int
           /\ \A y \in DOMAIN Incremented(x) : Incremented(x)[y] \in [count : Nat, expires : Int]
           /\ x \in DOMAIN Incremented(x)
           /\ DOMAIN Expiring(x) \subseteq Keys \X Int
           /\ \A y \in DOMAIN Expiring(x) : Expiring(x)[y] \in [count : Nat, expires : Int]
  BY LimitAssumption DEF TypeOK, Incremented, Expiring, Never

\* Counting an admission keeps the table of admissions well typed, also when
\* the window lies outside of it.
LEMMA ShareTyped ==
    ASSUME NEW W, NEW s \in [Keys -> [W -> Nat]], NEW k \in Keys, NEW n, NEW ok
    PROVE  [s EXCEPT ![k][n] = IF ok THEN @ + 1 ELSE @] \in [Keys -> [W -> Nat]]
<1> DEFINE row == [s[k] EXCEPT ![n] = IF ok THEN @ + 1 ELSE @]
<1>1. s[k] \in [W -> Nat]
  OBVIOUS
<1>2. row \in [W -> Nat]
  <2>1. CASE n \in W
    BY <1>1, <2>1
  <2>2. CASE n \notin W
    BY <1>1, <2>2
  <2> QED BY <2>1, <2>2
<1> HIDE DEF row
<1>3. [s EXCEPT ![k] = row] \in [Keys -> [W -> Nat]]
  BY <1>2
<1> QED BY <1>3 DEF row

\* Every state the filter reaches is well typed; in particular no thread ever
\* restarts a window at second 0, the mark of an unused bucket.
THEOREM TypeCorrect == Spec => []TypeOK
<1>1. Init => TypeOK
  BY ClockAssumption, LimitAssumption
  DEF Init, TypeOK, Steps, NoRequest, Undecided, Windows
<1>2. TypeOK /\ [Next]_vars => TypeOK'
  <2> SUFFICES ASSUME TypeOK, [Next]_vars PROVE TypeOK'
    OBVIOUS
  <2>0. Windows' = Windows
    BY DEF Windows
  <2> USE <2>0, LimitAssumption DEF TypeOK, Goto, Decide
  <2>1. ASSUME NEW w \in Workers, NEW k \in Keys, NEW l \in Limits, Check(w, k, l)
        PROVE  TypeOK'
    <3>1. NowSeconds(InstanceOf[w]) \in Nat /\ NowSeconds(InstanceOf[w]) > 0
      BY NowPositive
    <3>2. /\ WindowOf(NowSeconds(InstanceOf[w])) \in Int
          /\ clock \div Window \in Int
      BY <3>1, WindowIndex DEF WindowOf
    <3>3. [key |-> k, limit |-> l] \in [key : Keys, limit : Limits]
      BY <2>1
    <3>4. CASE RedisEnabled
      <4>1. /\ pc' = [pc EXCEPT ![w] = "incr"]
            /\ index' = [index EXCEPT ![w] = WindowOf(NowSeconds(InstanceOf[w]))]
            /\ readAt' = [readAt EXCEPT ![w] = clock \div Window]
            /\ UNCHANGED now
        BY <2>1, <3>4, Zenon DEF Check
      <4> QED BY <2>1, <3>2, <3>3, <4>1 DEF Check, Steps
    <3>5. CASE ~RedisEnabled
      <4>1. /\ pc' = [pc EXCEPT ![w] = "local"]
            /\ now' = [now EXCEPT ![w] = NowSeconds(InstanceOf[w])]
            /\ UNCHANGED <<index, readAt>>
        BY <2>1, <3>5, Zenon DEF Check, EnterLocal
      <4> QED BY <2>1, <3>1, <3>3, <4>1, SMTT(40) DEF Check, Steps
    <3> QED BY <3>4, <3>5
  <2>2. ASSUME NEW w \in Workers, CheckLocal(w) PROVE TypeOK'
    BY <2>2, CurrentTyped DEF CheckLocal, Steps
  <2>3. ASSUME NEW w \in Workers, Incr(w) PROVE TypeOK'
    BY <2>3, RedisTyped DEF Incr, Steps, RedisKey
  <2>4. ASSUME NEW w \in Workers, Expire(w) PROVE TypeOK'
    BY <2>4, RedisTyped DEF Expire, Steps, RedisKey
  <2>5. ASSUME NEW w \in Workers, Ttl(w) PROVE TypeOK'
    <3>1. ResetSeconds(TimeToLive(RedisKey(w))) \in Int
      BY DEF ResetSeconds, TimeToLive
    <3>2. decision' \in [Workers -> [allowed : BOOLEAN, reset : Int]]
      BY <2>5, <3>1 DEF Ttl
    <3>3. shares' \in [Keys -> [Windows -> Nat]]
      <4>1. /\ shares \in [Keys -> [Windows -> Nat]]
            /\ req[w].key \in Keys
        BY <2>5 DEF Ttl
      <4>2. shares' = [shares EXCEPT ![req[w].key][readAt[w]] =
                         IF count[w] <= req[w].limit THEN @ + 1 ELSE @]
        BY <2>5 DEF Ttl
      <4> HIDE DEF TypeOK
      <4> QED BY <4>1, <4>2, ShareTyped, Zenon
    <3> QED BY <2>5, <3>2, <3>3 DEF Ttl, Steps
  <2>6. ASSUME NEW w \in Workers, RedisThrows(w) PROVE TypeOK'
    <3>1. NowSeconds(InstanceOf[w]) \in Nat /\ NowSeconds(InstanceOf[w]) > 0
      BY NowPositive
    <3>2. RedisKey(w) \in Keys \X Int
      BY <2>6 DEF RedisThrows, RedisKey
    <3>3. /\ DOMAIN redis' \subseteq Keys \X Int
          /\ \A x \in DOMAIN redis' : redis'[x] \in [count : Nat, expires : Int]
      BY <2>6, <3>2, RedisTyped DEF RedisThrows
    <3>4. orphans' \subseteq Keys \X Int
      BY <2>6, <3>2 DEF RedisThrows
    <3>5. CASE FailOpen[InstanceOf[w]]
      <4>1. /\ pc' = [pc EXCEPT ![w] = "local"]
            /\ now' = [now EXCEPT ![w] = NowSeconds(InstanceOf[w])]
            /\ UNCHANGED decision
        BY <2>6, <3>5, Zenon DEF RedisThrows, EnterLocal
      <4> QED BY <2>6, <3>1, <3>3, <3>4, <4>1 DEF RedisThrows, Steps
    <3>6. CASE ~FailOpen[InstanceOf[w]]
      <4>1. /\ pc' = [pc EXCEPT ![w] = "done"]
            /\ decision' = [decision EXCEPT ![w] = [allowed |-> FALSE, reset |-> Window]]
            /\ UNCHANGED now
        BY <2>6, <3>6, Zenon DEF RedisThrows
      <4> QED BY <2>6, <3>3, <3>4, <4>1 DEF RedisThrows, Steps
    <3> QED BY <3>5, <3>6
  <2>7. ASSUME NEW w \in Workers, Return(w) PROVE TypeOK'
    BY <2>7 DEF Return, Steps, Undecided
  <2>8. CASE Tick
    BY <2>8, ClockAssumption DEF Tick, frame
  <2>9. CASE UNCHANGED vars
    BY <2>9 DEF vars, frame, RedisKey, Windows
  <2> HIDE DEF TypeOK
  <2> QED
    BY <2>1, <2>2, <2>3, <2>4, <2>5, <2>6, <2>7, <2>8, <2>9 DEF Next, Run
<1> QED BY <1>1, <1>2, PTL DEF Spec
-----------------------------------------------------------------------------

\* Only CheckLocal touches the buckets.
LEMMA BucketSteps ==
    ASSUME [Next]_vars
    PROVE  UNCHANGED <<buckets, granted>> \/ \E w \in Workers : CheckLocal(w)
<1>1. ASSUME NEW w \in Workers, NEW k \in Keys, NEW l \in Limits, Check(w, k, l)
      PROVE  UNCHANGED <<buckets, granted>>
  BY <1>1 DEF Check
<1>2. ASSUME NEW w \in Workers,
             Incr(w) \/ Expire(w) \/ Ttl(w) \/ RedisThrows(w) \/ Return(w)
      PROVE  UNCHANGED <<buckets, granted>>
  BY <1>2 DEF Incr, Expire, Ttl, RedisThrows, Return
<1>3. ASSUME Tick \/ UNCHANGED vars PROVE UNCHANGED <<buckets, granted>>
  BY <1>3 DEF Tick, vars
<1> QED BY <1>1, <1>2, <1>3 DEF Next, Run

\* A process never admits more in one of its windows than the largest limit
\* (CheckLocal).
THEOREM LocalQuotaHolds == Spec => []LocalQuota
<1>0. \E l \in Limits \cup {0} : 0 <= l
  OBVIOUS
<1>1. Init => QuotaInv
  BY <1>0 DEF Init, QuotaInv
<1>2. TypeOK /\ QuotaInv /\ [Next]_vars => QuotaInv'
  <2> SUFFICES ASSUME TypeOK, QuotaInv, [Next]_vars PROVE QuotaInv'
    OBVIOUS
  <2>1. CASE UNCHANGED <<buckets, granted>>
    BY <2>1 DEF QuotaInv
  <2>2. ASSUME NEW w \in Workers, CheckLocal(w) PROVE QuotaInv'
    <3> DEFINE i == InstanceOf[w]
               k == req[w].key
               b == Current(buckets[i][k], now[w])
               ok == b.count < req[w].limit
               base == IF b.window_start = buckets[i][k].window_start
                         THEN granted[i][k] ELSE 0
    <3>1. /\ i \in Instances /\ k \in Keys /\ req[w].limit \in Limits
          /\ now[w] \in Nat /\ now[w] > 0
      BY <2>2, LimitAssumption DEF TypeOK, CheckLocal
    <3>2. b.count = base
      BY <3>1, LimitAssumption, SMTT(40) DEF TypeOK, QuotaInv, Current
    <3>3. /\ buckets' = [buckets EXCEPT ![i][k] =
               IF ok THEN [b EXCEPT !.count = @ + 1] ELSE b]
          /\ granted' = [granted EXCEPT ![i][k] = IF ok THEN base + 1 ELSE base]
      BY <2>2, ZenonT(30) DEF CheckLocal
    <3>4. b \in [window_start : Nat, count : Nat]
      BY <3>1 DEF TypeOK, Current
    <3>5. \E l \in Limits \cup {0} : base <= l
      <4>1. \E l \in Limits \cup {0} : granted[i][k] <= l
        BY <3>1 DEF QuotaInv
      <4> QED BY <1>0, <4>1
    <3>6. Limits \subseteq Nat
      BY LimitAssumption
    <3> HIDE DEF b, base, i, k
    <3>7. granted'[i][k] = buckets'[i][k].count
      BY <3>1, <3>2, <3>3, <3>4 DEF TypeOK
    <3>8. \E l \in Limits \cup {0} : granted'[i][k] <= l
      BY <3>1, <3>2, <3>3, <3>4, <3>5, <3>6 DEF TypeOK
    <3>9. \A j \in Instances, h \in Keys : <<j, h>> # <<i, k>> =>
            buckets'[j][h] = buckets[j][h] /\ granted'[j][h] = granted[j][h]
      BY <3>1, <3>3 DEF TypeOK
    <3> QED BY <3>1, <3>7, <3>8, <3>9, SMTT(40) DEF QuotaInv
  <2> QED BY <2>1, <2>2, BucketSteps
<1>3. QuotaInv => LocalQuota
  BY DEF QuotaInv, LocalQuota
<1> QED BY <1>1, <1>2, <1>3, TypeCorrect, PTL DEF Spec

\* The windows of a bucket start at least Window seconds apart, in order, with
\* whatever old times the threads come (CheckLocal).
THEOREM WindowsStayApart == Spec => WindowsApart
<1>1. TypeOK /\ [Next]_vars =>
        [\A i \in Instances, k \in Keys :
           LET old == buckets[i][k].window_start
               new == buckets'[i][k].window_start
           IN  new # old => old = 0 \/ new - old >= Window]_vars
  <2> SUFFICES ASSUME TypeOK, [Next]_vars, NEW j \in Instances, NEW h \in Keys,
                      buckets'[j][h].window_start # buckets[j][h].window_start
               PROVE  \/ buckets[j][h].window_start = 0
                      \/ buckets'[j][h].window_start - buckets[j][h].window_start >= Window
    OBVIOUS
  <2>1. PICK w \in Workers : CheckLocal(w)
    BY BucketSteps, SMTT(40)
  <2> DEFINE i == InstanceOf[w]
             k == req[w].key
             b == Current(buckets[i][k], now[w])
  <2>2. i \in Instances /\ k \in Keys /\ now[w] \in Nat
    BY <2>1, LimitAssumption DEF TypeOK, CheckLocal
  <2>3. b \in [window_start : Nat, count : Nat]
    BY <2>2 DEF TypeOK, Current
  <2>4. /\ \A m \in Instances, n \in Keys :
             <<m, n>> # <<i, k>> => buckets'[m][n] = buckets[m][n]
        /\ buckets'[i][k].window_start = b.window_start
    <3> HIDE DEF b
    <3>1. \/ buckets' = [buckets EXCEPT ![i][k] = [b EXCEPT !.count = @ + 1]]
          \/ buckets' = [buckets EXCEPT ![i][k] = b]
      BY <2>1, ZenonT(30) DEF CheckLocal, b
    <3> QED BY <2>2, <2>3, <3>1, SMTT(40) DEF TypeOK
  <2>5. j = i /\ h = k
    BY <2>4
  <2> QED BY <2>2, <2>4, <2>5 DEF Current
<1> QED BY <1>1, TypeCorrect, PTL DEF Spec, WindowsApart
-----------------------------------------------------------------------------

\* Every Redis key that could stay for ever has its EXPIRE on the way or is one
\* whose creator failed (CheckRedis).
THEOREM KeysDoExpire == Spec => []KeysExpire
<1>1. Init => KeysExpire
  BY DEF Init, KeysExpire
<1>2. TypeOK /\ KeysExpire /\ [Next]_vars => KeysExpire'
  <2> SUFFICES ASSUME TypeOK, KeysExpire, [Next]_vars PROVE KeysExpire'
    OBVIOUS
  <2>0. /\ clock + Window # Never /\ pc \in [Workers -> Steps]
        /\ req \in [Workers -> [key : Keys, limit : Limits] \cup {NoRequest}]
        /\ index \in [Workers -> Int] /\ count \in [Workers -> Nat]
        /\ \A x \in DOMAIN redis : redis[x] \in [count : Nat, expires : Int]
    BY LimitAssumption DEF TypeOK, Never
  <2> USE <2>0 DEF KeysExpire, RedisKey, Goto
  <2>1. ASSUME NEW w \in Workers, NEW k \in Keys, NEW l \in Limits, Check(w, k, l)
        PROVE  KeysExpire'
    <3>1. \A v \in Workers : pc[v] = "expire" =>
            pc'[v] = "expire" /\ RedisKey(v)' = RedisKey(v)
      BY <2>1 DEF Check, EnterLocal
    <3>2. UNCHANGED <<redis, orphans>>
      BY <2>1 DEF Check
    <3> QED BY <3>1, <3>2
  <2>2. ASSUME NEW w \in Workers, CheckLocal(w) \/ Ttl(w) \/ Return(w)
        PROVE  KeysExpire'
    <3>1. \A v \in Workers : pc[v] = "expire" =>
            pc'[v] = "expire" /\ RedisKey(v)' = RedisKey(v)
      BY <2>2 DEF CheckLocal, Ttl, Return
    <3>2. UNCHANGED <<redis, orphans>>
      BY <2>2 DEF CheckLocal, Ttl, Return
    <3> QED BY <3>1, <3>2
  <2>3. ASSUME NEW w \in Workers, Incr(w) PROVE KeysExpire'
    <3>1. /\ UNCHANGED <<req, index, orphans>> /\ redis' = Incremented(RedisKey(w))
          /\ \A v \in Workers : pc[v] = "expire" => pc'[v] = "expire"
      BY <2>3 DEF Incr
    <3>2. ASSUME RedisKey(w) \notin DOMAIN redis PROVE pc'[w] = "expire"
      <4>1. redis'[RedisKey(w)].count = 1
        BY <3>1, <3>2 DEF Incremented
      <4>2. count'[w] = 1
        BY <2>3, <4>1 DEF Incr
      <4> QED BY <2>3, <4>2 DEF Incr
    <3>3. \A x \in DOMAIN redis' : x # RedisKey(w) \/ RedisKey(w) \in DOMAIN redis =>
            x \in DOMAIN redis /\ redis'[x].expires = redis[x].expires
      BY <3>1 DEF Incremented
    <3> QED BY <3>1, <3>2, <3>3
  <2>4. ASSUME NEW w \in Workers, Expire(w) PROVE KeysExpire'
    <3>1. /\ UNCHANGED <<req, index, orphans>> /\ redis' = Expiring(RedisKey(w))
          /\ \A v \in Workers : v # w => pc'[v] = pc[v]
      BY <2>4 DEF Expire
    <3>2. /\ DOMAIN redis' = DOMAIN redis
          /\ \A x \in DOMAIN redis : IF x = RedisKey(w)
               THEN redis'[x].expires = clock + Window ELSE redis'[x] = redis[x]
      BY <3>1 DEF Expiring
    <3> QED BY <3>1, <3>2
  <2>5. ASSUME NEW w \in Workers, RedisThrows(w) PROVE KeysExpire'
    <3>1. /\ UNCHANGED <<req, index>>
          /\ \A v \in Workers : v # w => pc'[v] = pc[v]
          /\ orphans \subseteq orphans'
          /\ RedisKey(w) \in DOMAIN redis' /\ redis'[RedisKey(w)].expires = Never =>
               RedisKey(w) \in orphans'
      BY <2>5 DEF RedisThrows, EnterLocal
    <3>2. \A x \in DOMAIN redis' : x # RedisKey(w) => x \in DOMAIN redis /\ redis'[x] = redis[x]
      BY <2>5 DEF RedisThrows, Incremented, Expiring
    <3> QED BY <3>1, <3>2
  <2>6. CASE Tick
    BY <2>6 DEF Tick, frame
  <2>7. CASE UNCHANGED vars
    BY <2>7 DEF vars, frame
  <2> HIDE DEF KeysExpire
  <2> QED BY <2>1, <2>2, <2>3, <2>4, <2>5, <2>6, <2>7 DEF Next, Run
<1> QED BY <1>1, <1>2, TypeCorrect, PTL DEF Spec
-----------------------------------------------------------------------------

\* A second lies in the window with its index.
LEMMA WindowBounds ==
    ASSUME NEW t \in Nat
    PROVE  /\ t \div Window \in Int
           /\ (t \div Window) * Window <= t
           /\ t < (t \div Window) * Window + Window
<1>1. Window \in Nat /\ Window > 0
  BY LimitAssumption
<1> QED BY <1>1

\* Threads are counted one by one.
LEMMA CountThreads ==
    ASSUME NEW A \in SUBSET Workers
    PROVE  /\ Cardinality(A) \in Nat /\ Cardinality(A) <= Cardinality(Workers)
           /\ \A B \in SUBSET A : Cardinality(B) \in Nat /\ Cardinality(B) <= Cardinality(A)
           /\ \A w \in Workers \ A : Cardinality(A \cup {w}) = Cardinality(A) + 1
           /\ \A w \in A : Cardinality(A \ {w}) = Cardinality(A) - 1
<1>1. IsFiniteSet(A)
  BY ThreadsAssumption, FS_Subset
<1>2. Cardinality(A) \in Nat /\ Cardinality(A) <= Cardinality(Workers)
  BY <1>1, ThreadsAssumption, FS_CardinalityType, FS_Subset
<1>3. ASSUME NEW B \in SUBSET A
      PROVE  Cardinality(B) \in Nat /\ Cardinality(B) <= Cardinality(A)
  BY <1>1, FS_CardinalityType, FS_Subset
<1>4. ASSUME NEW w \in Workers \ A PROVE Cardinality(A \cup {w}) = Cardinality(A) + 1
  BY <1>1, FS_AddElement
<1>5. ASSUME NEW w \in A PROVE Cardinality(A \ {w}) = Cardinality(A) - 1
  BY <1>1, FS_RemoveElement
<1> QED BY <1>2, <1>3, <1>4, <1>5

\* The quantities of WindowQuota are numbers.
LEMMA QuotaTyped ==
    ASSUME TypeOK, NEW k \in Keys, NEW n \in Windows
    PROVE  /\ shares[k][n] \in Nat /\ Won(k, n) \in Nat /\ Counter(k, n) \in Nat
           /\ Winning(k, n) \in SUBSET Workers /\ Waiting(k, n) \in SUBSET Workers
           /\ Cardinality(Winning(k, n)) \in Nat /\ Cardinality(Waiting(k, n)) \in Nat
           /\ n \in Int /\ n * Window + Window \in Int
<1>1. Winning(k, n) \in SUBSET Workers /\ Waiting(k, n) \in SUBSET Workers
  BY DEF Winning, Waiting
<1>2. Cardinality(Winning(k, n)) \in Nat /\ Cardinality(Waiting(k, n)) \in Nat
  BY <1>1, CountThreads
<1>3. shares[k][n] \in Nat
  BY DEF TypeOK
<1>4. Counter(k, n) \in Nat
  BY DEF TypeOK, Counter
<1>5. n \in Int
  BY DEF Windows
<1>6. n * Window + Window \in Int
  BY <1>5, LimitAssumption
<1> QED BY <1>1, <1>2, <1>3, <1>4, <1>5, <1>6 DEF Won

\* A window keeps its quota in a step that adds no admission to it, lets no
\* check of a past window begin and takes nothing from its counter.
LEMMA QuotaKept ==
    ASSUME TypeOK, TypeOK', NEW k \in Keys, NEW n \in Windows, WindowQuota(k, n),
           Won(k, n)' <= Won(k, n),
           n * Window + Window <= clock =>
             Won(k, n)' + Cardinality(Waiting(k, n)') <= Won(k, n) + Cardinality(Waiting(k, n)),
           Counter(k, n) <= Counter(k, n)',
           clock <= clock'
    PROVE  WindowQuota(k, n)'
<1> DEFINE won == Won(k, n)
           won1 == Won(k, n)'
           ctr == Counter(k, n)
           ctr1 == Counter(k, n)'
           wait == Cardinality(Waiting(k, n))
           wait1 == Cardinality(Waiting(k, n)')
           end == n * Window + Window
           all == Cardinality(Workers)
<1>0. Windows' = Windows
  BY DEF Windows
<1>1. won \in Nat /\ ctr \in Nat /\ wait \in Nat /\ end \in Int
  BY QuotaTyped
<1>2. won1 \in Nat /\ ctr1 \in Nat /\ wait1 \in Nat
  <2>1. Winning(k, n)' \in SUBSET Workers /\ Waiting(k, n)' \in SUBSET Workers
    BY DEF Winning, Waiting
  <2>2. wait1 \in Nat /\ Cardinality(Winning(k, n)') \in Nat
    BY <2>1, CountThreads
  <2>3. shares'[k][n] \in Nat
    BY <1>0 DEF TypeOK
  <2>4. ctr1 \in Nat
    BY DEF TypeOK, Counter
  <2> QED BY <2>2, <2>3, <2>4 DEF Won
<1>3. clock \in Nat /\ clock' \in Nat /\ all \in Nat /\ Limits \cup {0} \subseteq Nat
  BY LimitAssumption, ThreadsAssumption, FS_CardinalityType DEF TypeOK
<1>4. PICK l \in Limits \cup {0} :
        \/ won <= l /\ won <= ctr
        \/ end <= clock /\ won + wait <= l + all
  BY DEF WindowQuota
<1>5. /\ won1 <= won /\ ctr <= ctr1 /\ clock <= clock'
      /\ end <= clock => won1 + wait1 <= won + wait
  OBVIOUS
<1> HIDE DEF won, won1, ctr, ctr1, wait, wait1, end, all
<1>6. \/ won1 <= l /\ won1 <= ctr1
      \/ end <= clock' /\ won1 + wait1 <= l + all
  BY <1>1, <1>2, <1>3, <1>4, <1>5
<1> QED BY <1>6 DEF WindowQuota, won1, ctr1, wait1, end, all

\* The quota of a window is kept by a step that admits nobody to it: no check is
\* added, and its counter does not fall.
LEMMA QuotaShrinks ==
    ASSUME TypeOK, TypeOK', NEW k \in Keys, NEW n \in Windows, WindowQuota(k, n),
           shares'[k][n] = shares[k][n],
           Winning(k, n)' \subseteq Winning(k, n),
           n * Window + Window <= clock => Waiting(k, n)' \subseteq Waiting(k, n),
           Counter(k, n) <= Counter(k, n)',
           clock <= clock'
    PROVE  WindowQuota(k, n)'
<1> DEFINE a == Cardinality(Winning(k, n))
           a1 == Cardinality(Winning(k, n)')
           b == Cardinality(Waiting(k, n))
           b1 == Cardinality(Waiting(k, n)')
<1>1. /\ shares[k][n] \in Nat /\ a \in Nat /\ b \in Nat
      /\ Winning(k, n) \in SUBSET Workers /\ Waiting(k, n) \in SUBSET Workers
  BY QuotaTyped
<1>2. a1 \in Nat /\ a1 <= a
  BY <1>1, CountThreads
<1>3. n * Window + Window <= clock => b1 \in Nat /\ b1 <= b
  BY <1>1, CountThreads
<1>4. Won(k, n) = shares[k][n] + a /\ Won(k, n)' = shares[k][n] + a1
  BY DEF Won
<1> HIDE DEF a, a1, b, b1
<1>5. /\ Won(k, n)' <= Won(k, n)
      /\ n * Window + Window <= clock => Won(k, n)' + b1 <= Won(k, n) + b
  BY <1>1, <1>2, <1>3, <1>4
<1> QED BY <1>5, QuotaKept DEF b, b1

\* INCR and EXPIRE take nothing from a counter.
LEMMA CountersGrow ==
    ASSUME TypeOK, NEW x \in Keys \X Int, NEW k \in Keys, NEW n \in Windows,
           redis' \in {redis, Incremented(x), Expiring(x)}
    PROVE  Counter(k, n) <= Counter(k, n)'
<1>1. \A y \in DOMAIN redis : redis[y].count \in Nat /\ redis[y] \in [count : Nat, expires : Int]
  BY DEF TypeOK
<1>2. MaxCount \in Nat
  BY LimitAssumption
<1>3. /\ DOMAIN redis \subseteq DOMAIN redis'
      /\ \A y \in DOMAIN redis : redis[y].count <= redis'[y].count
      /\ \A y \in DOMAIN redis' \ DOMAIN redis : redis'[y].count >= 0
  <2>1. CASE redis' = redis
    BY <1>1, <2>1
  <2>2. CASE redis' = Incremented(x)
    BY <1>1, <1>2, <2>2 DEF Incremented
  <2>3. CASE redis' = Expiring(x)
    BY <1>1, <2>3 DEF Expiring
  <2> QED BY <2>1, <2>2, <2>3
<1> QED BY <1>3 DEF Counter

\* Checks stay in the window whose key they use, and a key that expires does so
\* after the end of its window.
LEMMA WindowStep ==
    ASSUME SharedClock, TypeOK, ChecksInWindow, KeysOutliveWindow, [Next]_vars
    PROVE  ChecksInWindow' /\ KeysOutliveWindow'
<1>0. /\ clock \in Nat /\ Window \in Nat /\ Window > 0
      /\ pc \in [Workers -> Steps] /\ index \in [Workers -> Int] /\ readAt \in [Workers -> Int]
      /\ \A v \in Workers : readAt[v] * Window \in Int
      /\ \A x \in DOMAIN redis : redis[x] \in [count : Nat, expires : Int]
      /\ \A x \in DOMAIN redis : x[2] \in Int /\ x[2] * Window + Window \in Int
  BY LimitAssumption DEF TypeOK
<1>1. ASSUME NEW w \in Workers, NEW k \in Keys, NEW l \in Limits, Check(w, k, l)
      PROVE  ChecksInWindow' /\ KeysOutliveWindow'
  <2>1. UNCHANGED <<redis, clock>> /\ \A v \in Workers : v # w =>
          pc'[v] = pc[v] /\ index'[v] = index[v] /\ readAt'[v] = readAt[v]
    BY <1>0, <1>1 DEF Check, EnterLocal, Goto
  <2>2. pc'[w] \in {"incr", "expire", "ttl"} =>
          index'[w] = readAt'[w] /\ readAt'[w] * Window <= clock
    <3>1. CASE RedisEnabled
      <4>1. /\ index'[w] = WindowOf(NowSeconds(InstanceOf[w]))
            /\ readAt'[w] = clock \div Window
        BY <1>0, <1>1, <3>1 DEF Check
      <4>2. NowSeconds(InstanceOf[w]) = clock
        BY <1>0, LimitAssumption DEF NowSeconds, SharedClock
      <4>3. (clock \div Window) * Window <= clock
        BY <1>0, WindowBounds
      <4> QED BY <4>1, <4>2, <4>3 DEF WindowOf
    <3>2. CASE ~RedisEnabled
      <4>1. pc'[w] = "local"
        BY <1>0, <1>1, <3>2 DEF Check, EnterLocal, Goto
      <4> QED BY <4>1
    <3> QED BY <3>1, <3>2
  <2> QED BY <2>1, <2>2 DEF ChecksInWindow, KeysOutliveWindow
<1>2. ASSUME NEW w \in Workers, Run(w) PROVE ChecksInWindow'
  <2>1. /\ clock' = clock
        /\ \A v \in Workers : v # w =>
             pc'[v] = pc[v] /\ index'[v] = index[v] /\ readAt'[v] = readAt[v]
        /\ pc'[w] \in {"incr", "expire", "ttl"} =>
             /\ pc[w] \in {"incr", "expire", "ttl"}
             /\ index'[w] = index[w] /\ readAt'[w] = readAt[w]
    <3>1. CASE CheckLocal(w) \/ Incr(w) \/ Expire(w) \/ Ttl(w)
      BY <1>0, <3>1 DEF CheckLocal, Incr, Expire, Ttl, Goto
    <3>2. CASE RedisThrows(w)
      BY <1>0, <3>2 DEF RedisThrows, EnterLocal, Goto
    <3>3. CASE Return(w)
      BY <1>0, <3>3 DEF Return, Goto
    <3> QED BY <1>2, <3>1, <3>2, <3>3, SMTT(40) DEF Run
  <2> QED BY <2>1 DEF ChecksInWindow
<1>3. ASSUME NEW w \in Workers, Run(w) PROVE KeysOutliveWindow'
  <2> DEFINE x == RedisKey(w)
  <2>1. CASE redis' = redis
    BY <2>1 DEF KeysOutliveWindow
  <2>2. CASE redis' = Incremented(x)
    BY <1>0, <2>2 DEF KeysOutliveWindow, Incremented
  <2>3. CASE pc[w] = "expire" /\ redis' = Expiring(x)
    <3>1. x[2] = readAt[w] /\ readAt[w] * Window <= clock
      BY <2>3 DEF ChecksInWindow, RedisKey
    <3>2. \A y \in DOMAIN redis : redis'[y].expires =
            IF y = x THEN clock + Window ELSE redis[y].expires
      BY <1>0, <2>3 DEF Expiring
    <3>3. clock + Window >= x[2] * Window + Window
      BY <1>0, <3>1
    <3>4. DOMAIN redis' = DOMAIN redis
      BY <2>3, SMTT(40) DEF Expiring
    <3> HIDE DEF x
    <3> QED BY <3>2, <3>3, <3>4 DEF KeysOutliveWindow
  <2>4. \/ redis' = redis \/ redis' = Incremented(x)
        \/ pc[w] = "expire" /\ redis' = Expiring(x)
    BY <1>3 DEF Run, CheckLocal, Incr, Expire, Ttl, RedisThrows, Return
  <2> QED BY <2>1, <2>2, <2>3, <2>4
<1>4. CASE Tick
  <2>1. ChecksInWindow'
    BY <1>0, <1>4 DEF Tick, frame, ChecksInWindow
  <2>2. KeysOutliveWindow'
    BY <1>4 DEF Tick, KeysOutliveWindow
  <2> QED BY <2>1, <2>2
<1>5. CASE UNCHANGED vars
  BY <1>5 DEF vars, frame, ChecksInWindow, KeysOutliveWindow
<1> QED BY <1>1, <1>2, <1>3, <1>4, <1>5 DEF Next

\* INCR is answered: the check may win only a count below its limit.
LEMMA IncrQuota ==
    ASSUME TypeOK, TypeOK', ChecksInWindow, NEW w \in Workers, Incr(w),
           NEW k \in Keys, NEW n \in Windows, WindowQuota(k, n)
    PROVE  WindowQuota(k, n)'
<1>0. /\ pc[w] = "incr" /\ redis' = Incremented(RedisKey(w))
      /\ UNCHANGED <<clock, shares, req, readAt, index>>
      /\ count'[w] = redis'[RedisKey(w)].count
      /\ pc'[w] \in {"expire", "ttl"}
      /\ \A v \in Workers : v # w => pc'[v] = pc[v] /\ count'[v] = count[v]
  BY DEF Incr, TypeOK, Goto
<1>1. RedisKey(w) \in Keys \X Int
  BY <1>0 DEF TypeOK, RedisKey
<1>2. Counter(k, n) <= Counter(k, n)'
  BY <1>0, <1>1, CountersGrow
<1>3. clock \in Nat
  BY DEF TypeOK
<1>4. CASE w \notin Waiting(k, n)
  <2>1. /\ Winning(k, n)' \subseteq Winning(k, n)
        /\ Waiting(k, n)' \subseteq Waiting(k, n)
    BY <1>0, <1>4 DEF Winning, Waiting
  <2> QED BY <1>0, <1>2, <1>3, <2>1, QuotaShrinks
<1>5. CASE w \in Waiting(k, n)
  <2>1. req[w].key = k /\ readAt[w] = n /\ RedisKey(w) = <<k, n>>
    BY <1>0, <1>5 DEF Waiting, ChecksInWindow, RedisKey
  <2>2. /\ req[w].limit \in Limits /\ req[w].limit \in Nat /\ MaxCount \in Nat
        /\ req[w].limit < MaxCount
    BY <1>0, LimitAssumption DEF TypeOK
  <2>3. /\ Waiting(k, n)' = Waiting(k, n) \ {w}
        /\ w \notin Winning(k, n)
        /\ Winning(k, n)' = IF count'[w] <= req[w].limit
                              THEN Winning(k, n) \cup {w} ELSE Winning(k, n)
    BY <1>0, <2>1 DEF Waiting, Winning
  <2>4. /\ Winning(k, n) \in SUBSET Workers /\ Waiting(k, n) \in SUBSET Workers
        /\ Cardinality(Winning(k, n)) \in Nat /\ Cardinality(Waiting(k, n)) \in Nat
        /\ shares[k][n] \in Nat /\ Counter(k, n) \in Nat
        /\ n * Window + Window \in Int
    BY QuotaTyped
  <2>5. /\ Cardinality(Waiting(k, n) \ {w}) = Cardinality(Waiting(k, n)) - 1
        /\ Cardinality(Winning(k, n) \cup {w}) = Cardinality(Winning(k, n)) + 1
    BY <1>5, <2>3, <2>4, CountThreads
  <2>6. Counter(k, n)' = IF Counter(k, n) < MaxCount THEN Counter(k, n) + 1 ELSE Counter(k, n)
    <3>1. MaxCount \in Nat /\ MaxCount > 0
      BY LimitAssumption
    <3>2. CASE <<k, n>> \in DOMAIN redis
      <4>1. redis[<<k, n>>] \in [count : Nat, expires : Int]
        BY <3>2 DEF TypeOK
      <4>2. /\ <<k, n>> \in DOMAIN redis'
            /\ redis'[<<k, n>>] = [redis[<<k, n>>] EXCEPT !.count = IF @ < MaxCount THEN @ + 1 ELSE @]
        BY <1>0, <2>1, <3>2 DEF Incremented
      <4> QED BY <3>2, <4>1, <4>2 DEF Counter
    <3>3. CASE <<k, n>> \notin DOMAIN redis
      <4>1. <<k, n>> \in DOMAIN redis' /\ redis'[<<k, n>>].count = 1
        BY <1>0, <2>1, <3>3 DEF Incremented
      <4> QED BY <3>1, <3>3, <4>1 DEF Counter
    <3> QED BY <3>2, <3>3
  <2>7. count'[w] = Counter(k, n)'
    BY <1>0, <2>1 DEF Counter, Incremented
  <2>8. Won(k, n) = shares[k][n] + Cardinality(Winning(k, n)) /\ Won(k, n) \in Nat
    BY <2>4 DEF Won
  <2>9. CASE ~(count'[w] <= req[w].limit)
    BY <1>0, <1>2, <1>3, <2>3, <2>9, QuotaShrinks
  <2>10. CASE count'[w] <= req[w].limit
    <3> DEFINE won == Won(k, n)
               won1 == Won(k, n)'
               ctr == Counter(k, n)
               ctr1 == Counter(k, n)'
               wait == Cardinality(Waiting(k, n))
               wait1 == Cardinality(Waiting(k, n)')
               end == n * Window + Window
               all == Cardinality(Workers)
    <3>1. won1 = won + 1
      <4>1. Won(k, n)' = shares[k][n] + Cardinality(Winning(k, n) \cup {w})
        BY <1>0, <2>3, <2>10 DEF Won
      <4> QED BY <2>4, <2>5, <2>8, <4>1
    <3>2. wait1 = wait - 1
      BY <2>3, <2>5
    <3>3. ctr1 = ctr + 1 /\ ctr1 <= req[w].limit
      BY <2>2, <2>4, <2>6, <2>7, <2>10
    <3>4. all \in Nat /\ Limits \cup {0} \subseteq Nat
      BY LimitAssumption, ThreadsAssumption, FS_CardinalityType
    <3>5. PICK l \in Limits \cup {0} :
            \/ won <= l /\ won <= ctr
            \/ end <= clock /\ won + wait <= l + all
      BY DEF WindowQuota
    <3>6. won \in Nat /\ ctr \in Nat /\ wait \in Nat /\ end \in Int
      BY <2>4, <2>8
    <3> HIDE DEF won, won1, ctr, ctr1, wait, wait1, end, all
    <3>7. \/ won1 <= req[w].limit /\ won1 <= ctr1
          \/ end <= clock /\ won1 + wait1 <= l + all
      BY <1>3, <2>2, <3>1, <3>2, <3>3, <3>4, <3>5, <3>6
    <3>8. \E m \in Limits \cup {0} :
            \/ won1 <= m /\ won1 <= ctr1
            \/ end <= clock' /\ won1 + wait1 <= m + all
      BY <1>0, <2>2, <3>7
    <3> QED BY <3>8 DEF WindowQuota, won1, ctr1, wait1, end, all
  <2> QED BY <2>9, <2>10
<1> QED BY <1>4, <1>5

\* TTL is answered: a check that won its count becomes an admission.
LEMMA TtlQuota ==
    ASSUME TypeOK, TypeOK', NEW w \in Workers, Ttl(w),
           NEW k \in Keys, NEW n \in Windows, WindowQuota(k, n)
    PROVE  WindowQuota(k, n)'
<1>0. /\ pc[w] = "ttl" /\ pc'[w] = "done"
      /\ UNCHANGED <<clock, redis, req, readAt, count>>
      /\ \A v \in Workers : v # w => pc'[v] = pc[v]
      /\ shares' = [shares EXCEPT ![req[w].key][readAt[w]] =
                      IF count[w] <= req[w].limit THEN @ + 1 ELSE @]
  BY DEF Ttl, TypeOK, Goto
<1>1. /\ shares \in [Keys -> [Windows -> Nat]] /\ req[w].key \in Keys
      /\ clock \in Nat
  BY <1>0 DEF TypeOK
<1>2. Counter(k, n)' = Counter(k, n) /\ Counter(k, n) \in Nat
  BY <1>0, QuotaTyped DEF Counter
<1>3. Waiting(k, n)' = Waiting(k, n)
  BY <1>0 DEF Waiting
<1>4. CASE w \in Winning(k, n)
  <2>1. /\ Winning(k, n)' = Winning(k, n) \ {w}
        /\ req[w].key = k /\ readAt[w] = n /\ count[w] <= req[w].limit
    BY <1>0, <1>4 DEF Winning
  <2>2. shares'[k][n] = shares[k][n] + 1
    BY <1>0, <1>1, <2>1
  <2>3. /\ Winning(k, n) \in SUBSET Workers /\ Cardinality(Winning(k, n)) \in Nat
        /\ shares[k][n] \in Nat /\ Cardinality(Waiting(k, n)) \in Nat
    BY QuotaTyped
  <2>4. Cardinality(Winning(k, n) \ {w}) = Cardinality(Winning(k, n)) - 1
    BY <1>4, <2>3, CountThreads
  <2>5. Won(k, n)' = shares'[k][n] + Cardinality(Winning(k, n) \ {w})
    BY <2>1 DEF Won
  <2>6. Won(k, n)' = Won(k, n) /\ Won(k, n) \in Nat
    BY <2>2, <2>3, <2>4, <2>5 DEF Won
  <2> QED BY <1>0, <1>1, <1>2, <1>3, <2>3, <2>6, QuotaKept
<1>5. CASE w \notin Winning(k, n)
  <2>1. Winning(k, n)' \subseteq Winning(k, n)
    BY <1>0 DEF Winning
  <2>2. shares'[k][n] = shares[k][n]
    <3>1. ~(req[w].key = k /\ readAt[w] = n /\ count[w] <= req[w].limit)
      BY <1>0, <1>5 DEF Winning
    <3> QED BY <1>0, <1>1, <3>1
  <2> QED BY <1>0, <1>1, <1>2, <1>3, <2>1, <2>2, QuotaShrinks
<1> QED BY <1>4, <1>5

\* A second passes: a key that Redis drops was of a window that is over.
LEMMA TickQuota ==
    ASSUME TypeOK, TypeOK', KeysOutliveWindow, Tick,
           NEW k \in Keys, NEW n \in Windows, WindowQuota(k, n)
    PROVE  WindowQuota(k, n)'
<1>0. clock \in Nat /\ clock' = clock + 1 /\ UNCHANGED <<frame, shares>>
  BY DEF Tick, TypeOK
<1>1. Winning(k, n)' = Winning(k, n) /\ Waiting(k, n)' = Waiting(k, n)
  BY <1>0 DEF frame, Winning, Waiting
<1>2. /\ Counter(k, n) \in Nat /\ Winning(k, n) \in SUBSET Workers
      /\ Waiting(k, n) \in SUBSET Workers /\ n * Window + Window \in Int
      /\ Cardinality(Waiting(k, n)) \in Nat /\ Won(k, n) \in Nat
  BY QuotaTyped
<1>3. CASE <<k, n>> \in DOMAIN redis' \/ <<k, n>> \notin DOMAIN redis
  <2>1. Counter(k, n)' = Counter(k, n)
    BY <1>3 DEF Tick, Counter
  <2> QED BY <1>0, <1>1, <1>2, <2>1, QuotaShrinks
<1>4. CASE <<k, n>> \in DOMAIN redis /\ <<k, n>> \notin DOMAIN redis'
  <2>1. /\ redis[<<k, n>>].expires # Never
        /\ ~(redis[<<k, n>>].expires > clock + 1)
        /\ redis[<<k, n>>].expires \in Int
    BY <1>4 DEF Tick, TypeOK
  <2>2. redis[<<k, n>>].expires >= n * Window + Window
    BY <1>4, <2>1 DEF KeysOutliveWindow
  <2>3. n * Window + Window <= clock + 1
    BY <1>0, <1>2, <2>1, <2>2
  <2>4. /\ Cardinality(Waiting(k, n)) <= Cardinality(Workers) /\ Cardinality(Workers) \in Nat
        /\ Limits \cup {0} \subseteq Nat
    BY <1>2, CountThreads, LimitAssumption, ThreadsAssumption, FS_CardinalityType
  <2>5. Won(k, n)' = Won(k, n)
    BY <1>0, <1>1 DEF Won
  <2>6. PICK l \in Limits \cup {0} :
          \/ Won(k, n) <= l
          \/ Won(k, n) + Cardinality(Waiting(k, n)) <= l + Cardinality(Workers)
    BY DEF WindowQuota
  <2>7. Won(k, n) + Cardinality(Waiting(k, n)) <= l + Cardinality(Workers)
    BY <1>2, <2>4, <2>6
  <2>8. /\ n * Window + Window <= clock'
        /\ Won(k, n)' + Cardinality(Waiting(k, n)') <= l + Cardinality(Workers)
    BY <1>0, <1>1, <2>3, <2>5, <2>7
  <2> QED BY <2>8 DEF WindowQuota
<1> QED BY <1>3, <1>4

\* Every window keeps its quota in every step.
LEMMA QuotaStep ==
    ASSUME TypeOK, TypeOK', ClusterInv, [Next]_vars, NEW k \in Keys, NEW n \in Windows
    PROVE  WindowQuota(k, n)'
<1>0. /\ WindowQuota(k, n) /\ ChecksInWindow /\ KeysOutliveWindow
      /\ clock \in Nat /\ pc \in [Workers -> Steps] /\ Counter(k, n) \in Nat
      /\ req \in [Workers -> [key : Keys, limit : Limits] \cup {NoRequest}]
      /\ readAt \in [Workers -> Int] /\ count \in [Workers -> Nat]
      /\ n \in Int /\ n * Window + Window \in Int
  BY QuotaTyped DEF ClusterInv, TypeOK
<1>1. ASSUME NEW w \in Workers, NEW h \in Keys, NEW l \in Limits, Check(w, h, l)
      PROVE  WindowQuota(k, n)'
  <2>1. /\ UNCHANGED <<clock, redis, shares, count>> /\ pc'[w] \in {"incr", "local"}
        /\ \A v \in Workers : v # w =>
             pc'[v] = pc[v] /\ req'[v] = req[v] /\ readAt'[v] = readAt[v]
        /\ pc'[w] = "incr" => readAt'[w] = clock \div Window
    <3>1. CASE RedisEnabled
      BY <1>0, <1>1, <3>1 DEF Check, Goto
    <3>2. CASE ~RedisEnabled
      BY <1>0, <1>1, <3>2 DEF Check, EnterLocal, Goto
    <3> QED BY <3>1, <3>2
  <2>2. Winning(k, n)' \subseteq Winning(k, n)
    BY <2>1 DEF Winning
  <2>3. n * Window + Window <= clock => Waiting(k, n)' \subseteq Waiting(k, n)
    <3>1. clock < (clock \div Window) * Window + Window
      BY <1>0, WindowBounds
    <3>2. n * Window + Window <= clock => clock \div Window # n
      BY <1>0, <3>1
    <3> QED BY <2>1, <3>2 DEF Waiting
  <2>4. Counter(k, n)' = Counter(k, n)
    BY <2>1 DEF Counter
  <2> QED BY <1>0, <2>1, <2>2, <2>3, <2>4, QuotaShrinks
<1>2. ASSUME NEW w \in Workers, UNCHANGED <<clock, shares>>,
             redis' \in {redis, Incremented(RedisKey(w)), Expiring(RedisKey(w))},
             RedisKey(w) \in Keys \X Int \/ UNCHANGED redis,
             \A v \in Workers : v # w =>
               /\ pc'[v] = pc[v] /\ req'[v] = req[v] /\ readAt'[v] = readAt[v]
               /\ count'[v] = count[v],
             \/ pc'[w] \notin {"incr", "expire", "ttl"}
             \/ /\ pc[w] = "expire" /\ pc'[w] = "ttl"
                /\ UNCHANGED <<req, readAt, count>>
      PROVE  WindowQuota(k, n)'
  <2>1. Winning(k, n)' \subseteq Winning(k, n) /\ Waiting(k, n)' \subseteq Waiting(k, n)
    BY <1>2 DEF Winning, Waiting
  <2>2. Counter(k, n) <= Counter(k, n)'
    <3>1. CASE UNCHANGED redis
      BY <1>0, <3>1 DEF Counter
    <3>2. CASE RedisKey(w) \in Keys \X Int
      BY <1>2, <3>2, CountersGrow
    <3> QED BY <1>2, <3>1, <3>2
  <2> QED BY <1>0, <1>2, <2>1, <2>2, QuotaShrinks
<1>3. ASSUME NEW w \in Workers, CheckLocal(w) \/ Return(w) PROVE WindowQuota(k, n)'
  BY <1>0, <1>2, <1>3 DEF CheckLocal, Return, Goto
<1>4. ASSUME NEW w \in Workers, pc[w] \in {"incr", "expire", "ttl"}
      PROVE  RedisKey(w) \in Keys \X Int
  BY <1>4 DEF TypeOK, RedisKey
<1>5. ASSUME NEW w \in Workers, Expire(w) PROVE WindowQuota(k, n)'
  BY <1>0, <1>2, <1>4, <1>5 DEF Expire, Goto
<1>6. ASSUME NEW w \in Workers, RedisThrows(w) PROVE WindowQuota(k, n)'
  <2>1. /\ pc'[w] \in {"local", "done"} /\ \A v \in Workers : v # w => pc'[v] = pc[v]
        /\ UNCHANGED <<clock, shares, req, readAt, count>>
    BY <1>0, <1>6 DEF RedisThrows, EnterLocal, Goto
  <2>2. redis' \in {redis, Incremented(RedisKey(w)), Expiring(RedisKey(w))}
    BY <1>6 DEF RedisThrows
  <2>3. RedisKey(w) \in Keys \X Int
    BY <1>4, <1>6 DEF RedisThrows
  <2> QED BY <1>2, <2>1, <2>2, <2>3
<1>7. ASSUME NEW w \in Workers, Incr(w) PROVE WindowQuota(k, n)'
  BY <1>0, <1>7, IncrQuota
<1>8. ASSUME NEW w \in Workers, Ttl(w) PROVE WindowQuota(k, n)'
  BY <1>0, <1>8, TtlQuota
<1>9. CASE Tick
  BY <1>0, <1>9, TickQuota
<1>10. CASE UNCHANGED vars
  BY <1>0, <1>10 DEF vars, frame, WindowQuota, Won, Winning, Waiting, Counter
<1> QED BY <1>1, <1>3, <1>5, <1>6, <1>7, <1>8, <1>9, <1>10 DEF Next, Run

\* Processes that share one clock and one Redis admit together, of the requests
\* of one window, at most the limit and one for each worker thread (CheckRedis),
\* whenever keys expire and commands fail.
THEOREM ClusterQuotaHolds ==
    ASSUME SharedClock
    PROVE  Spec => []ClusterQuota
<1>1. Init => ClusterInv
  <2> SUFFICES ASSUME Init PROVE ClusterInv
    OBVIOUS
  <2>1. ChecksInWindow /\ KeysOutliveWindow
    BY DEF Init, ChecksInWindow, KeysOutliveWindow
  <2>2. ASSUME NEW k \in Keys, NEW n \in Windows PROVE WindowQuota(k, n)
    <3>1. Winning(k, n) = {} /\ shares[k][n] = 0 /\ Counter(k, n) = 0
      BY DEF Init, Winning, Counter
    <3>2. Won(k, n) = 0
      BY <3>1, FS_EmptySet DEF Won
    <3> QED BY <3>1, <3>2 DEF WindowQuota
  <2> QED BY <2>1, <2>2 DEF ClusterInv
<1>2. TypeOK /\ TypeOK' /\ ClusterInv /\ [Next]_vars => ClusterInv'
  <2> SUFFICES ASSUME TypeOK, TypeOK', ClusterInv, [Next]_vars PROVE ClusterInv'
    OBVIOUS
  <2>1. Windows' = Windows
    BY DEF Windows
  <2>2. ChecksInWindow' /\ KeysOutliveWindow'
    BY WindowStep DEF ClusterInv
  <2>3. \A k \in Keys, n \in Windows : WindowQuota(k, n)'
    BY QuotaStep
  <2> QED BY <2>1, <2>2, <2>3 DEF ClusterInv
<1>3. TypeOK /\ ClusterInv => ClusterQuota
  <2> SUFFICES ASSUME TypeOK, ClusterInv, NEW k \in Keys, NEW n \in Windows
               PROVE  \E l \in Limits : shares[k][n] <= l + Cardinality(Workers)
    BY DEF ClusterQuota
  <2>1. /\ shares[k][n] \in Nat /\ Cardinality(Winning(k, n)) \in Nat
        /\ Cardinality(Waiting(k, n)) \in Nat /\ Won(k, n) \in Nat
    BY QuotaTyped
  <2>2. Cardinality(Workers) \in Nat /\ Limits \subseteq Nat /\ Limits # {}
    BY LimitAssumption, ThreadsAssumption, FS_CardinalityType
  <2>3. PICK l \in Limits \cup {0} :
          \/ Won(k, n) <= l
          \/ Won(k, n) + Cardinality(Waiting(k, n)) <= l + Cardinality(Workers)
    BY DEF ClusterInv, WindowQuota
  <2>4. shares[k][n] <= l + Cardinality(Workers)
    <3>1. shares[k][n] <= Won(k, n)
      BY <2>1 DEF Won
    <3> QED BY <2>1, <2>2, <2>3, <3>1
  <2>5. \E m \in Limits : l <= m
    <3>1. PICK m \in Limits : TRUE
      BY <2>2
    <3>2. CASE l \in Limits
      BY <2>2, <3>2
    <3>3. CASE l = 0
      BY <2>2, <3>1, <3>3
    <3> QED BY <3>2, <3>3
  <2> QED BY <2>1, <2>2, <2>4, <2>5
<1> QED BY <1>1, <1>2, <1>3, TypeCorrect, PTL DEF Spec
=============================================================================
