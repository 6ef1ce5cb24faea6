----------------------------- MODULE RateLimit ------------------------------
(***************************************************************************)
(* RateLimitFilter: fixed-window limits, kept in the process (buckets_     *)
(* under mutex_) or in a Redis shared by several gateway processes.        *)
(*                                                                         *)
(* A worker belongs to a gateway instance.  It reads its instance's steady *)
(* clock first and uses what it read later: after waiting for mutex_, or   *)
(* after connecting to Redis.  The Redis commands INCR, EXPIRE and TTL are *)
(* separate steps; each may fail, before Redis took the command or after.  *)
(*                                                                         *)
(* A request is a bucket key (BuildKey: client and route) and the limit    *)
(* ResolveLimit found for its path; two paths of one route may share a key *)
(* and have different limits.                                              *)
(***************************************************************************)
EXTENDS Integers, FiniteSets

CONSTANTS
    Workers,        \* worker threads of all gateway instances
    Instances,      \* gateway processes that share one Redis
    InstanceOf,     \* InstanceOf[w]: the process thread w belongs to
    Offset,         \* Offset[i]: i's steady clock minus the real clock
    Keys,           \* rate limit keys
    Limits,         \* limits of the default and of the path rules
    Window,         \* rate_limit.window_seconds
    RedisEnabled,   \* rate_limit.redis.enabled
    FailOpen,       \* FailOpen[i]: rate_limit.redis.fail_open of instance i
    StartTime,      \* the real clock, in seconds, when the model starts
    MaxTime,        \* bound: the clock stops here
    MaxCount        \* bound: a Redis counter stays at this value, above all limits

ASSUME LimitAssumption ==
    /\ InstanceOf \in [Workers -> Instances]
    /\ Window \in Nat \ {0}
    /\ Limits \subseteq Nat \ {0} /\ Limits # {}
    /\ RedisEnabled \in BOOLEAN /\ FailOpen \in [Instances -> BOOLEAN]
    /\ MaxCount \in Nat \ {0, 1} /\ \A l \in Limits : l < MaxCount

\* A steady clock counts from the boot of its host, so a process that serves
\* requests never reads second 0, which Bucket uses for "no window yet".
ASSUME ClockAssumption ==
    /\ StartTime \in Nat /\ MaxTime \in Nat
    /\ Offset \in [Instances -> Int]
    /\ \A i \in Instances : StartTime + Offset[i] > 0

\* Every process has a number of worker threads, and there are finitely many.
ASSUME ThreadsAssumption == IsFiniteSet(Workers)

VARIABLES
    clock,      \* real time in seconds, the time Redis expires keys by
    buckets,    \* buckets[i][k]: buckets_ of instance i
    redis,      \* live Redis keys: <<k, window index>> -> [count, expires]
    pc,         \* where each worker is in Check
    req,        \* the request a worker checks
    now,        \* the steady clock as read by CheckLocal
    index,      \* the window index in redis_key
    count,      \* INCR's answer
    decision,   \* RateLimitDecision: [allowed, reset]
    \* History, read by properties only:
    readAt,     \* real window in which redis_key was built
    granted,    \* granted[i][k]: admissions by CheckLocal since window_start
    shares,     \* shares[k][n]: admissions by CheckRedis, requests of window n
    orphans     \* Redis keys whose creator failed before its EXPIRE

frame == <<pc, req, now, index, count, decision, readAt>>
vars == <<clock, buckets, redis, frame, granted, shares, orphans>>

Undecided == [allowed |-> FALSE, reset |-> 0]
NoRequest == [key |-> "none", limit |-> 0]
Never == -1     \* a Redis key without a time to live

\* NowUnixSeconds: a steady clock, in spite of its name.
NowSeconds(i) == clock + Offset[i]

\* Mutation: the seconds are not divided by the window's length.
WindowOfEverySecond(t) == t

\* The window index in redis_key.
WindowOf(t) == t \div Window

Windows == 0 .. (MaxTime \div Window)

Init ==
    /\ clock = StartTime
    /\ buckets = [i \in Instances |-> [k \in Keys |-> [window_start |-> 0, count |-> 0]]]
    /\ redis = [x \in {} |-> [count |-> 0, expires |-> Never]]
    /\ pc = [w \in Workers |-> "idle"]
    /\ req = [w \in Workers |-> NoRequest]
    /\ now = [w \in Workers |-> 0]
    /\ index = [w \in Workers |-> 0]
    /\ count = [w \in Workers |-> 0]
    /\ decision = [w \in Workers |-> Undecided]
    /\ readAt = [w \in Workers |-> 0]
    /\ granted = [i \in Instances |-> [k \in Keys |-> 0]]
    /\ shares = [k \in Keys |-> [n \in Windows |-> 0]]
    /\ orphans = {}

-----------------------------------------------------------------------------

Goto(w, step) == pc' = [pc EXCEPT ![w] = step]

Decide(w, allowed, reset) ==
    decision' = [decision EXCEPT ![w] = [allowed |-> allowed, reset |-> reset]]

RedisKey(w) == <<req[w].key, index[w]>>

\* CheckLocal begins: it reads the clock and goes for mutex_.
EnterLocal(w) ==
    /\ Goto(w, "local")
    /\ now' = [now EXCEPT ![w] = NowSeconds(InstanceOf[w])]

\* Check begins.  With Redis, CheckRedis builds redis_key from the clock and
\* goes on to connect.
Check(w, k, l) ==
    /\ pc[w] = "idle"
    /\ req' = [req EXCEPT ![w] = [key |-> k, limit |-> l]]
    /\ IF RedisEnabled
         THEN /\ Goto(w, "incr")
              /\ index' = [index EXCEPT ![w] = WindowOf(NowSeconds(InstanceOf[w]))]
              /\ readAt' = [readAt EXCEPT ![w] = clock \div Window]
              /\ UNCHANGED now
         ELSE EnterLocal(w) /\ UNCHANGED <<index, readAt>>
    /\ UNCHANGED <<clock, buckets, redis, count, decision, granted, shares, orphans>>

\* Mutation: a window is started in the past.
CurrentInThePast(b, t) ==
    IF b.window_start = 0 \/ t - b.window_start >= Window
      THEN [window_start |-> t - Window, count |-> 0]
      ELSE b

\* Mutation: an old window is emptied, but goes on.
CurrentKeepsStart(b, t) ==
    IF b.window_start = 0 THEN [window_start |-> t, count |-> 0]
    ELSE IF t - b.window_start >= Window THEN [b EXCEPT !.count = 0]
    ELSE b

\* Mutation: a window ends a second early.
CurrentEndsEarly(b, t) ==
    IF b.window_start = 0 \/ t - b.window_start + 1 >= Window
      THEN [window_start |-> t, count |-> 0]
      ELSE b

\* The bucket CheckLocal works on, after the window was restarted if it was over.
Current(b, t) ==
    IF b.window_start = 0 \/ t - b.window_start >= Window
      THEN [window_start |-> t, count |-> 0]
      ELSE b

CheckLocal(w) ==
    LET i == InstanceOf[w]
        k == req[w].key
        b == Current(buckets[i][k], now[w])
        reset == Window - (now[w] - b.window_start)
        ok == b.count < req[w].limit
        base == IF b.window_start = buckets[i][k].window_start THEN granted[i][k] ELSE 0
    IN
    /\ pc[w] = "local"
    /\ buckets' = [buckets EXCEPT ![i][k] =
         IF ok THEN [b EXCEPT !.count = @ + 1] ELSE b]
    /\ granted' = [granted EXCEPT ![i][k] = IF ok THEN base + 1 ELSE base]
    /\ Decide(w, ok, IF reset < 0 THEN 0 ELSE reset)
    /\ Goto(w, "done")
    /\ UNCHANGED <<clock, redis, req, now, index, count, readAt, shares, orphans>>

-----------------------------------------------------------------------------
(* CheckRedis, command by command *)

\* What INCR does in Redis: a missing key counts from 0 and has no expiry.
Incremented(rk) ==
    [x \in DOMAIN redis \cup {rk} |->
       IF x # rk THEN redis[x]
       ELSE IF rk \in DOMAIN redis THEN [redis[rk] EXCEPT !.count = IF @ < MaxCount THEN @ + 1 ELSE @]
       ELSE [count |-> 1, expires |-> Never]]

\* INCR is answered; only the answer 1 is followed by EXPIRE.
Incr(w) ==
    /\ pc[w] = "incr"
    /\ redis' = Incremented(RedisKey(w))
    /\ count' = [count EXCEPT ![w] = redis'[RedisKey(w)].count]
    /\ Goto(w, IF count'[w] = 1 THEN "expire" ELSE "ttl")
    /\ UNCHANGED <<clock, buckets, req, now, index, decision, readAt, granted,
                   shares, orphans>>

\* Mutation: EXPIRE names another key.
ExpiringAnother(rk) == redis

\* What EXPIRE does in Redis: nothing if the key is gone.
Expiring(rk) ==
    [x \in DOMAIN redis |->
       IF x = rk THEN [redis[x] EXCEPT !.expires = clock + Window] ELSE redis[x]]

Expire(w) ==
    /\ pc[w] = "expire"
    /\ redis' = Expiring(RedisKey(w))
    /\ Goto(w, "ttl")
    /\ UNCHANGED <<clock, buckets, req, now, index, count, decision, readAt,
                   granted, shares, orphans>>

\* What TTL answers: -1 without expiry, -2 without the key.
TimeToLive(rk) ==
    IF rk \notin DOMAIN redis THEN -2
    ELSE IF redis[rk].expires = Never THEN -1
    ELSE redis[rk].expires - clock

ResetSeconds(ttl) == IF ttl > 0 THEN ttl ELSE Window

\* TTL is answered and the request decided.
Ttl(w) ==
    LET ok == count[w] <= req[w].limit IN
    /\ pc[w] = "ttl"
    /\ Decide(w, ok, ResetSeconds(TimeToLive(RedisKey(w))))
    /\ shares' = [shares EXCEPT ![req[w].key][readAt[w]] = IF ok THEN @ + 1 ELSE @]
    /\ Goto(w, "done")
    /\ UNCHANGED <<clock, buckets, redis, req, now, index, count, readAt, granted,
                   orphans>>

\* Resolving, connecting, sending or receiving throws.  Redis may have taken
\* the command.  Check goes on with CheckLocal or, without fail_open, rejects.
RedisThrows(w) ==
    /\ pc[w] \in {"incr", "expire", "ttl"}
    /\ \/ UNCHANGED redis
       \/ pc[w] = "incr" /\ redis' = Incremented(RedisKey(w))
       \/ pc[w] = "expire" /\ redis' = Expiring(RedisKey(w))
    /\ orphans' = IF RedisKey(w) \in DOMAIN redis' /\ redis'[RedisKey(w)].expires = Never
                    THEN orphans \cup {RedisKey(w)} ELSE orphans
    /\ IF FailOpen[InstanceOf[w]]
         THEN EnterLocal(w) /\ UNCHANGED decision
         ELSE /\ Decide(w, FALSE, Window)
              /\ Goto(w, "done")
              /\ UNCHANGED now
    /\ UNCHANGED <<clock, buckets, req, index, count, readAt, granted, shares>>

-----------------------------------------------------------------------------

\* Check returns its decision and the worker's frame is gone.
Return(w) ==
    /\ pc[w] = "done"
    /\ Goto(w, "idle")
    /\ req' = [req EXCEPT ![w] = NoRequest]
    /\ now' = [now EXCEPT ![w] = 0]
    /\ index' = [index EXCEPT ![w] = 0]
    /\ count' = [count EXCEPT ![w] = 0]
    /\ decision' = [decision EXCEPT ![w] = Undecided]
    /\ readAt' = [readAt EXCEPT ![w] = 0]
    /\ UNCHANGED <<clock, buckets, redis, granted, shares, orphans>>

\* A second passes; Redis drops the keys whose time is over.
Tick ==
    /\ clock < MaxTime
    /\ clock' = clock + 1
    /\ LET live == {x \in DOMAIN redis :
                      redis[x].expires = Never \/ redis[x].expires > clock + 1}
       IN redis' = [x \in live |-> redis[x]]
    /\ UNCHANGED <<buckets, frame, granted, shares, orphans>>

Run(w) ==
    \/ CheckLocal(w) \/ Incr(w) \/ Expire(w) \/ Ttl(w) \/ RedisThrows(w) \/ Return(w)

Next ==
    \/ \E w \in Workers, k \in Keys, l \in Limits : Check(w, k, l)
    \/ \E w \in Workers : Run(w)
    \/ Tick

Spec == Init /\ [][Next]_vars

-----------------------------------------------------------------------------
(* Properties *)

Steps == {"idle", "local", "incr", "expire", "ttl", "done"}

\* Every variable has its type; a window that began has a start other than 0.
TypeOK ==
    /\ clock \in Nat /\ clock >= StartTime
    /\ buckets \in [Instances -> [Keys -> [window_start : Nat, count : Nat]]]
    /\ DOMAIN redis \subseteq Keys \X Int
    /\ \A x \in DOMAIN redis : redis[x] \in [count : Nat, expires : Int]
    /\ pc \in [Workers -> Steps]
    /\ req \in [Workers -> [key : Keys, limit : Limits] \cup {NoRequest}]
    /\ \A w \in Workers : pc[w] # "idle" => req[w] \in [key : Keys, limit : Limits]
    /\ now \in [Workers -> Nat]
    /\ \A w \in Workers : pc[w] = "local" => now[w] > 0
    /\ index \in [Workers -> Int]
    /\ count \in [Workers -> Nat]
    /\ decision \in [Workers -> [allowed : BOOLEAN, reset : Int]]
    /\ readAt \in [Workers -> Int]
    /\ granted \in [Instances -> [Keys -> Nat]]
    /\ shares \in [Keys -> [Windows -> Nat]]
    /\ orphans \subseteq Keys \X Int

\* No process admits more requests of a key in one window of its own than the
\* largest limit its requests have, however threads interleave between reading
\* the clock and taking mutex_, and whichever limits share the bucket.
LocalQuota ==
    \A i \in Instances, k \in Keys : \E l \in Limits \cup {0} : granted[i][k] <= l

\* LocalQuota strengthened so that it is inductive: what a bucket counts is
\* what was admitted in its window.
QuotaInv ==
    \A i \in Instances, k \in Keys :
        /\ granted[i][k] = buckets[i][k].count
        /\ \E l \in Limits \cup {0} : granted[i][k] <= l

\* Two windows of a bucket start at least Window seconds apart, and never
\* backwards, although a thread may restart the window with an old time.
WindowsApart ==
    [][\A i \in Instances, k \in Keys :
         LET old == buckets[i][k].window_start
             new == buckets'[i][k].window_start
         IN  new # old => old = 0 \/ new - old >= Window]_vars

\* All processes together admit through Redis, of the requests that came in one
\* window of real time, no more than the limit, plus at most one per check that
\* was under way when the window's Redis key expired.
ClusterQuota ==
    \A k \in Keys, n \in Windows :
        \E l \in Limits : shares[k][n] <= l + Cardinality(Workers)

\* All processes read one steady clock, as on one host; real time may then be
\* counted from where that clock does.
SharedClock == \A i \in Instances : Offset[i] = 0

\* ClusterQuota strengthened so that it is inductive, for processes that share
\* one clock.  A check of window n is under way in the window's Redis key, and
\* either that key has not expired and counts every admission, or the window is
\* over and only the checks that have their INCR still to send can add to it.
Waiting(k, n) ==
    {w \in Workers : pc[w] = "incr" /\ req[w].key = k /\ readAt[w] = n}

Winning(k, n) ==
    {w \in Workers : /\ pc[w] \in {"expire", "ttl"} /\ req[w].key = k /\ readAt[w] = n
                     /\ count[w] <= req[w].limit}

Counter(k, n) == IF <<k, n>> \in DOMAIN redis THEN redis[<<k, n>>].count ELSE 0

ChecksInWindow ==
    \A w \in Workers : pc[w] \in {"incr", "expire", "ttl"} =>
        index[w] = readAt[w] /\ readAt[w] * Window <= clock

KeysOutliveWindow ==
    \A x \in DOMAIN redis :
        redis[x].expires = Never \/ redis[x].expires >= x[2] * Window + Window

Won(k, n) == shares[k][n] + Cardinality(Winning(k, n))

WindowQuota(k, n) ==
    \E l \in Limits \cup {0} :
        \/ Won(k, n) <= l /\ Won(k, n) <= Counter(k, n)
        \/ /\ n * Window + Window <= clock
           /\ Won(k, n) + Cardinality(Waiting(k, n)) <= l + Cardinality(Workers)

ClusterInv ==
    /\ ChecksInWindow /\ KeysOutliveWindow
    /\ \A k \in Keys, n \in Windows : WindowQuota(k, n)

\* A Redis key without a time to live is one whose creator is about to send
\* EXPIRE, or failed before Redis took it: no other key can stay for ever.
KeysExpire ==
    \A x \in DOMAIN redis : redis[x].expires = Never =>
        \/ x \in orphans
        \/ \E w \in Workers : pc[w] = "expire" /\ RedisKey(w) = x
=============================================================================
