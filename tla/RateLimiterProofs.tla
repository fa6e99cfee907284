-------------------------- MODULE RateLimiterProofs --------------------------
(***************************************************************************)
(* Proofs about RateLimiter, for any number of request handlers and any    *)
(* limit, clock difference and delay within the assumptions.  What tokens  *)
(* and time have in common is the potential tokens - updated: refilling    *)
(* leaves it alone, the cap only lowers it, and granting lowers it by what *)
(* is granted.                                                             *)
(***************************************************************************)
EXTENDS RateLimiter, TLAPS

\* A handler reaches the bucket soon after it has read the clock.
ThreadsInv ==
    \A t \in Threads :
       /\ pc[t] = "redis" => /\ now[t] - ahead[t] <= clock
                             /\ clock <= now[t] - ahead[t] + MaxLag
       /\ pc[t] = "pg" => stamp[t] <= clock

\* The potential is bounded from both sides, and a key that is gone was last
\* used so long ago that any request to come finds it full.
RedisInv ==
    /\ redis.tokens - redis.updated >= -latest["redis"]
    /\ spent["redis"] > 0 =>
          spent["redis"] + redis.tokens - redis.updated <= Window - first["redis"]
    /\ first["redis"] <= latest["redis"]
    /\ redis.live => /\ latest["redis"] + Lifetime <= redis.expires + MaxSkew
                     /\ redis.expires <= clock + Lifetime
    /\ ~redis.live => \/ latest["redis"] = 0 /\ spent["redis"] = 0
                         /\ redis.tokens = Window /\ redis.updated = 0
                      \/ clock >= latest["redis"] + Window + MaxLag

PgInv ==
    /\ ~pg.live => spent["pg"] = 0
    /\ spent["pg"] > 0 =>
          spent["pg"] + pg.tokens - pg.updated <= Window - first["pg"] + minted
    /\ first["pg"] <= latest["pg"]

\* The earliest time at which a client can be at a bucket again.
Earliest(t) == IF pc[t] = "redis" THEN now[t] - ahead[t]
               ELSE IF pc[t] = "idle" THEN Larger(until[t], clock) ELSE clock

EarliestPg(t) == IF pc[t] = "pg" THEN stamp[t]
                 ELSE IF pc[t] = "idle" THEN Larger(until[t], clock) ELSE clock

\* The bucket a client waits for will have what a request costs by then.
ToldInv ==
    /\ \A s \in Stores : told[s] \in Obedient \cup {Nobody}
    /\ \A t \in Threads : told["redis"] = t /\ redis.live =>
          redis.tokens - redis.updated + Earliest(t) >= Cost
    /\ \A t \in Threads : told["pg"] = t =>
          pg.live /\ pg.tokens - pg.updated + EarliestPg(t) >= Cost

IInv == /\ TypeOK /\ ThreadsInv /\ RedisInv /\ PgInv /\ ToldInv
        /\ RedisBudget /\ PgBudget /\ RetryAfterIsEnough
-----------------------------------------------------------------------------
\* A whole number of seconds is a number.
LEMMA WholeIsInt == \A x \in Int : Whole(x) \in Int
<1>1. SUFFICES ASSUME NEW x \in Int PROVE Whole(x) \in Int
  OBVIOUS
<1>2. x \div Second \in Int
  BY RateAssumption
<1>3. QED
  BY <1>2, RateAssumption DEF Whole

\* Redis answers with a number.
LEMMA TruncatedIsInt == \A x \in Int : Truncated(x) \in Int
<1>1. SUFFICES ASSUME NEW x \in Int PROVE Truncated(x) \in Int
  OBVIOUS
<1>2. x \div Cost \in Int /\ (-x) \div Cost \in Int
  BY TimesAssumption
<1>3. QED
  BY <1>2, TimesAssumption DEF Truncated

\* Retry-After is at least one second.
LEMMA RetryAfterIsASecond ==
    ASSUME TypeOK, NEW t \in Threads, NEW left \in Int
    PROVE  RetryAfter(t, left) \in Nat /\ RetryAfter(t, left) >= Second
<1> DEFINE a == now[t] + Larger(0, Cost - left)
           b == clock + ahead[t]
<1>1. a \in Int /\ b \in Int
  BY TimesAssumption DEF TypeOK, Larger
<1>2. Whole(a) \in Int /\ Whole(b) \in Int
  BY <1>1, WholeIsInt
<1>3. RetryAfter(t, left) = Larger(Second, Whole(a) - Whole(b))
  BY DEF RetryAfter
<1> HIDE DEF a, b
<1>4. QED
  BY <1>2, <1>3, RateAssumption DEF Larger

\* The script keeps the bounds of the Redis bucket.
LEMMA ScriptKeeps ==
    ASSUME IInv, NEW t \in Threads, pc[t] = "redis", Script(t), UNCHANGED clock
    PROVE  /\ RedisInv' /\ RedisBudget'
           /\ redis' \in [live : BOOLEAN, tokens : Int, updated : Nat, expires : Nat]
           /\ redis'.tokens <= Window
           /\ first' \in [Stores -> Nat] /\ latest' \in [Stores -> Nat] /\ spent' \in [Stores -> Nat]
           /\ redis'.live /\ redis'.updated = now[t]
           /\ first'["pg"] = first["pg"] /\ latest'["pg"] = latest["pg"] /\ spent'["pg"] = spent["pg"]
<1> DEFINE tokens == Refilled(redis, now[t])
           cost == IF tokens >= Cost THEN Cost ELSE 0
<1>t. /\ redis.tokens \in Int /\ redis.updated \in Nat /\ redis.expires \in Nat /\ redis.live \in BOOLEAN
      /\ now[t] \in Nat /\ ahead[t] \in 0 .. MaxSkew /\ clock \in Nat
      /\ first["redis"] \in Nat /\ latest["redis"] \in Nat /\ spent["redis"] \in Nat
  BY DEF IInv, TypeOK, Stores
<1>1. tokens \in Int /\ tokens <= Window /\ cost \in {0, Cost} /\ (cost = Cost <=> tokens >= Cost)
  BY <1>t, TimesAssumption DEF Refilled, Smaller
<1>2. redis.live => tokens <= redis.tokens + now[t] - redis.updated /\
                    (tokens = Window \/ tokens = redis.tokens + now[t] - redis.updated)
  BY <1>t, TimesAssumption DEF Refilled, Smaller
<1>3. ~redis.live => tokens = Window
  BY DEF Refilled
<1>4. /\ redis' = [live |-> TRUE, tokens |-> tokens - cost, updated |-> now[t], expires |-> clock + Lifetime]
      /\ first' = [first EXCEPT !["redis"] = IF spent["redis"] = 0 THEN now[t] ELSE @]
      /\ latest' = [latest EXCEPT !["redis"] = Larger(@, now[t])]
      /\ spent' = [spent EXCEPT !["redis"] = @ + cost]
  BY DEF Script, Record
<1> HIDE DEF tokens, cost
<1>5. /\ redis'.live /\ redis'.tokens = tokens - cost /\ redis'.updated = now[t]
      /\ redis'.expires = clock + Lifetime
  BY <1>4
<1>6. /\ first'["redis"] = (IF spent["redis"] = 0 THEN now[t] ELSE first["redis"])
      /\ latest'["redis"] = Larger(latest["redis"], now[t])
      /\ spent'["redis"] = spent["redis"] + cost
      /\ first'["pg"] = first["pg"] /\ latest'["pg"] = latest["pg"] /\ spent'["pg"] = spent["pg"]
  BY <1>4 DEF IInv, TypeOK, Stores
<1>7. now[t] - ahead[t] <= clock /\ clock <= now[t] - ahead[t] + MaxLag
  BY DEF IInv, ThreadsInv
<1>8. latest'["redis"] \in Nat /\ latest'["redis"] >= now[t] /\ latest'["redis"] >= latest["redis"]
      /\ (latest'["redis"] = latest["redis"] \/ latest'["redis"] = now[t])
  BY <1>6, <1>t DEF Larger
<1>9. redis'.tokens - redis'.updated >= -latest'["redis"]
  <2>1. CASE tokens >= Cost
    BY <2>1, <1>1, <1>5, <1>8, <1>t, TimesAssumption
  <2>2. CASE tokens < Cost
    <3>1. cost = 0 /\ redis'.tokens = tokens
      BY <2>2, <1>1, <1>5, TimesAssumption
    <3>2. CASE tokens = Window
      BY <3>1, <3>2, <1>5, <1>8, <1>t, TimesAssumption
    <3>3. CASE tokens # Window
      <4>1. tokens = redis.tokens + now[t] - redis.updated
        BY <3>3, <1>2, <1>3, <1>t
      <4>2. redis.tokens - redis.updated >= -latest["redis"]
        BY DEF IInv, RedisInv
      <4>3. QED
        BY <4>1, <4>2, <3>1, <1>5, <1>8, <1>t
    <3>4. QED
      BY <3>2, <3>3
  <2>3. QED
    BY <2>1, <2>2, <1>1, TimesAssumption
<1>10. spent["redis"] > 0 => spent["redis"] + tokens - now[t] <= Window - first["redis"]
  <2>1. SUFFICES ASSUME spent["redis"] > 0 PROVE spent["redis"] + tokens - now[t] <= Window - first["redis"]
    OBVIOUS
  <2>2. CASE redis.live
    <3>1. spent["redis"] + redis.tokens - redis.updated <= Window - first["redis"]
      BY <2>1 DEF IInv, RedisInv
    <3>2. QED
      BY <3>1, <2>2, <1>2, <1>1, <1>t, TimesAssumption
  <2>3. CASE ~redis.live
    <3>1. clock >= latest["redis"] + Window + MaxLag
      BY <2>1, <2>3, <1>t DEF IInv, RedisInv
    <3>2. spent["redis"] <= Window + latest["redis"] - first["redis"]
      BY DEF IInv, RedisBudget
    <3>3. QED
      BY <3>1, <3>2, <1>3, <2>3, <1>7, <1>t, TimesAssumption
  <2>4. QED
    BY <2>2, <2>3, <1>t
<1>11. spent'["redis"] > 0 => spent'["redis"] + redis'.tokens - redis'.updated <= Window - first'["redis"]
  <2>1. CASE spent["redis"] = 0
    BY <2>1, <1>1, <1>5, <1>6, <1>t, TimesAssumption
  <2>2. CASE spent["redis"] > 0
    BY <2>2, <1>10, <1>1, <1>5, <1>6, <1>t, TimesAssumption
  <2>3. QED
    BY <2>1, <2>2, <1>t
<1>12. first'["redis"] <= latest'["redis"]
  <2>1. first["redis"] <= latest["redis"]
    BY DEF IInv, RedisInv
  <2>2. QED
    BY <2>1, <1>6, <1>8, <1>t
<1>13. RedisBudget'
  <2>1. spent["redis"] <= Window + latest["redis"] - first["redis"]
    BY DEF IInv, RedisBudget
  <2>2. CASE cost = 0
    BY <2>1, <2>2, <1>6, <1>8, <1>12, <1>t, TimesAssumption DEF RedisBudget
  <2>3. CASE cost = Cost
    <3>1. spent'["redis"] > 0 /\ redis'.tokens >= 0
      BY <2>3, <1>1, <1>5, <1>6, <1>t, TimesAssumption
    <3>2. QED
      BY <3>1, <1>11, <1>5, <1>6, <1>8, <1>1, <1>t, TimesAssumption DEF RedisBudget
  <2>4. QED
    BY <2>2, <2>3, <1>1
<1>14. /\ latest'["redis"] + Lifetime <= redis'.expires + MaxSkew
       /\ redis'.expires <= clock' + Lifetime
  <2>1. latest["redis"] <= clock + MaxSkew
    BY <1>t, TimesAssumption DEF IInv, RedisInv, Lifetime
  <2>2. QED
    BY <2>1, <1>5, <1>7, <1>8, <1>t, TimesAssumption DEF Lifetime
<1>15. RedisInv'
  BY <1>5, <1>9, <1>11, <1>12, <1>14 DEF RedisInv
<1>16. /\ redis' \in [live : BOOLEAN, tokens : Int, updated : Nat, expires : Nat]
       /\ first' \in [Stores -> Nat] /\ latest' \in [Stores -> Nat] /\ spent' \in [Stores -> Nat]
  <2>1. first' \in [Stores -> Nat] /\ spent' \in [Stores -> Nat]
    BY <1>4, <1>1, <1>t, TimesAssumption DEF IInv, TypeOK, Stores
  <2>2. latest' \in [Stores -> Nat]
    BY <1>4, <1>t DEF IInv, TypeOK, Stores, Larger
  <2>3. clock + Lifetime \in Nat
    BY <1>t, TimesAssumption DEF Lifetime
  <2>4. QED
    BY <2>1, <2>2, <2>3, <1>4, <1>1, <1>t, TimesAssumption
<1>17. redis'.tokens <= Window
  BY <1>1, <1>5, TimesAssumption
<1>18. QED
  BY <1>5, <1>6, <1>13, <1>15, <1>16, <1>17

\* The initial state.
LEMMA InitOK == Init => IInv
BY TimesAssumption, ThreadsAssumption
   DEF Init, IInv, TypeOK, ThreadsInv, RedisInv, PgInv, ToldInv, RedisBudget, PgBudget,
       RetryAfterIsEnough, Stores, Earliest, EarliestPg, Larger

\* What both buckets have in common when a client is answered.
LEMMA AnswerKeeps ==
    ASSUME IInv, NEW t \in Threads, NEW s \in Stores, NEW allowed \in BOOLEAN, NEW left \in Int,
           Answer(t, s, allowed, left)
    PROVE  /\ pc' \in [Threads -> {"idle", "redis", "begin", "pg"}]
           /\ now' \in [Threads -> Nat] /\ ahead' \in [Threads -> 0 .. MaxSkew]
           /\ stamp' \in [Threads -> Nat] /\ until' \in [Threads -> Nat]
           /\ told' \in [Stores -> Threads \cup {Nobody}] /\ again' \in [Stores -> BOOLEAN]
           /\ pc'[t] = "idle"
           /\ told'[s] \in {t, Nobody}
           /\ told'[s] = t => ~allowed /\ t \in Obedient /\ until'[t] >= clock + Second
           /\ \A r \in Stores \ {s} : told'[r] = told[r] /\ again'[r] = again[r]
           /\ \A u \in Threads \ {t} : /\ pc'[u] = pc[u] /\ now'[u] = now[u] /\ ahead'[u] = ahead[u]
                                       /\ stamp'[u] = stamp[u] /\ until'[u] = until[u]
<1>1. RetryAfter(t, left) \in Nat /\ RetryAfter(t, left) >= Second
  BY RetryAfterIsASecond DEF IInv
<1>2. /\ pc \in [Threads -> {"idle", "redis", "begin", "pg"}] /\ clock \in Nat
      /\ now \in [Threads -> Nat] /\ ahead \in [Threads -> 0 .. MaxSkew]
      /\ stamp \in [Threads -> Nat] /\ until \in [Threads -> Nat]
      /\ told \in [Stores -> Threads \cup {Nobody}] /\ again \in [Stores -> BOOLEAN]
  BY DEF IInv, TypeOK
<1>3. PICK n \in Nat : n = clock + RetryAfter(t, left) /\ n >= clock + Second
  BY <1>1, <1>2, RateAssumption
<1>4. until' = [until EXCEPT ![t] = IF allowed \/ t \notin Obedient THEN 0 ELSE n]
  BY <1>3 DEF Answer
<1>5. told' = [told EXCEPT ![s] = IF allowed \/ t \notin Obedient THEN Nobody ELSE t]
  BY DEF Answer
<1>6. /\ pc' = [pc EXCEPT ![t] = "idle"] /\ again' = [again EXCEPT ![s] = ~allowed /\ told[s] = t]
      /\ now' = [now EXCEPT ![t] = 0] /\ ahead' = [ahead EXCEPT ![t] = 0]
      /\ stamp' = [stamp EXCEPT ![t] = 0]
  BY DEF Answer
<1>7. told'[s] \in {t, Nobody} /\ (told'[s] = t => ~allowed /\ t \in Obedient)
  BY <1>2, <1>5, ThreadsAssumption
<1>8. told'[s] = t => until'[t] >= clock + Second
  BY <1>2, <1>3, <1>4, <1>7
<1>9. /\ pc' \in [Threads -> {"idle", "redis", "begin", "pg"}] /\ pc'[t] = "idle"
      /\ \A u \in Threads \ {t} : pc'[u] = pc[u]
  BY <1>2, <1>6
<1>10. /\ now' \in [Threads -> Nat] /\ ahead' \in [Threads -> 0 .. MaxSkew] /\ stamp' \in [Threads -> Nat]
       /\ \A u \in Threads \ {t} : now'[u] = now[u] /\ ahead'[u] = ahead[u] /\ stamp'[u] = stamp[u]
  BY <1>2, <1>6, TimesAssumption
<1>11. until' \in [Threads -> Nat] /\ \A u \in Threads \ {t} : until'[u] = until[u]
  BY <1>2, <1>4
<1>12. told' \in [Stores -> Threads \cup {Nobody}] /\ \A r \in Stores \ {s} : told'[r] = told[r]
  BY <1>2, <1>5
<1>13. again' \in [Stores -> BOOLEAN] /\ \A r \in Stores \ {s} : again'[r] = again[r]
  BY <1>2, <1>6
<1>14. QED
  BY <1>7, <1>8, <1>9, <1>10, <1>11, <1>12, <1>13

\* A request arrives and reads the clock.
LEMMA ArriveKeeps == ASSUME IInv, NEW t \in Threads, Arrive(t) PROVE IInv'
<1>1. PICK k \in 0 .. MaxSkew : /\ ahead' = [ahead EXCEPT ![t] = k]
                                /\ now' = [now EXCEPT ![t] = clock + k]
  BY DEF Arrive
<1>2. /\ pc' = [pc EXCEPT ![t] = IF configured THEN "redis" ELSE "begin"]
      /\ UNCHANGED <<clock, configured, redis, pg, stamp, until, told, again, spent, first, latest, minted, faults>>
  BY DEF Arrive, history
<1>3. TypeOK'
  BY <1>1, <1>2, TimesAssumption DEF IInv, TypeOK
<1>4. ThreadsInv'
  BY <1>1, <1>2, TimesAssumption DEF IInv, TypeOK, ThreadsInv
<1>5. RedisInv' /\ PgInv' /\ RedisBudget' /\ PgBudget' /\ RetryAfterIsEnough'
  BY <1>2 DEF IInv, RedisInv, PgInv, RedisBudget, PgBudget, RetryAfterIsEnough
<1>6. \A u \in Threads : /\ u \in Obedient => Earliest(u)' >= Earliest(u)
                         /\ u \in Obedient => EarliestPg(u)' >= EarliestPg(u)
  BY <1>1, <1>2, TimesAssumption DEF IInv, TypeOK, Arrive, Earliest, EarliestPg, Larger
<1>7. \A u \in Threads : /\ Earliest(u) \in Int /\ Earliest(u)' \in Int
                         /\ EarliestPg(u) \in Int /\ EarliestPg(u)' \in Int
  BY <1>3, TimesAssumption DEF IInv, TypeOK, Earliest, EarliestPg, Larger
<1>8. ToldInv'
  BY <1>2, <1>6, <1>7, ThreadsAssumption, TimesAssumption DEF IInv, TypeOK, ToldInv, Stores
<1>9. QED
  BY <1>3, <1>4, <1>5, <1>8 DEF IInv

\* Redis answers.
LEMMA CheckRedisKeeps == ASSUME IInv, NEW t \in Threads, CheckRedis(t) PROVE IInv'
<1> DEFINE allowed == Refilled(redis, now[t]) >= Cost
<1>1. pc[t] = "redis" /\ Script(t) /\ UNCHANGED <<clock, configured, faults, pg, minted>>
  BY DEF CheckRedis, Script
<1>2. /\ RedisInv' /\ RedisBudget'
      /\ redis' \in [live : BOOLEAN, tokens : Int, updated : Nat, expires : Nat]
      /\ redis'.tokens <= Window
      /\ first' \in [Stores -> Nat] /\ latest' \in [Stores -> Nat] /\ spent' \in [Stores -> Nat]
      /\ redis'.live /\ redis'.updated = now[t]
      /\ first'["pg"] = first["pg"] /\ latest'["pg"] = latest["pg"] /\ spent'["pg"] = spent["pg"]
  BY <1>1, ScriptKeeps
<1>3. PICK left \in Int : left = Truncated(redis'.tokens)
  BY <1>2, TruncatedIsInt
<1>4. Answer(t, "redis", allowed, left)
  BY <1>3 DEF CheckRedis
<1>5. allowed \in BOOLEAN /\ "redis" \in Stores /\ "pg" \in Stores \ {"redis"}
  BY DEF Stores
<1> HIDE DEF allowed
<1>6. /\ pc' \in [Threads -> {"idle", "redis", "begin", "pg"}]
      /\ now' \in [Threads -> Nat] /\ ahead' \in [Threads -> 0 .. MaxSkew]
      /\ stamp' \in [Threads -> Nat] /\ until' \in [Threads -> Nat]
      /\ told' \in [Stores -> Threads \cup {Nobody}] /\ again' \in [Stores -> BOOLEAN]
      /\ pc'[t] = "idle"
      /\ told'["redis"] \in {t, Nobody}
      /\ told'["redis"] = t => ~allowed /\ t \in Obedient /\ until'[t] >= clock + Second
      /\ \A r \in Stores \ {"redis"} : told'[r] = told[r] /\ again'[r] = again[r]
      /\ \A u \in Threads \ {t} : /\ pc'[u] = pc[u] /\ now'[u] = now[u] /\ ahead'[u] = ahead[u]
                                  /\ stamp'[u] = stamp[u] /\ until'[u] = until[u]
  BY <1>3, <1>4, <1>5, AnswerKeeps
<1>7. TypeOK'
  BY <1>1, <1>2, <1>6 DEF IInv, TypeOK
<1>8. ThreadsInv'
  BY <1>1, <1>6 DEF IInv, ThreadsInv
<1>9. PgInv' /\ PgBudget'
  BY <1>1, <1>2 DEF IInv, PgInv, PgBudget
<1>10. ~again'["redis"]
  <2>1. again'["redis"] = (~allowed /\ told["redis"] = t)
    BY <1>4 DEF IInv, TypeOK, Stores, Answer
  <2>2. ASSUME told["redis"] = t PROVE allowed
    <3> USE DEF allowed
    <3>1. CASE redis.live
      <4>1. redis.tokens - redis.updated + now[t] - ahead[t] >= Cost
        BY <2>2, <3>1, <1>1, ThreadsAssumption, TimesAssumption
           DEF IInv, TypeOK, ToldInv, Earliest
      <4>2. QED
        BY <4>1, TimesAssumption DEF IInv, TypeOK, Refilled, Smaller
    <3>2. CASE ~redis.live
      BY <3>2, TimesAssumption DEF Refilled
    <3>3. QED
      BY <3>1, <3>2
  <2>3. QED
    BY <2>1, <2>2
<1>11. RetryAfterIsEnough'
  BY <1>5, <1>6, <1>10 DEF IInv, RetryAfterIsEnough, Stores
<1>12. ASSUME told'["redis"] = t PROVE redis'.tokens - redis'.updated + Earliest(t)' >= Cost
  <2>1. latest["redis"] <= clock + MaxSkew
    BY TimesAssumption DEF IInv, TypeOK, RedisInv, Lifetime, Stores
  <2>2. latest'["redis"] = Larger(latest["redis"], now[t])
    BY <1>1 DEF Script, Record, IInv, TypeOK, Stores
  <2>3. now[t] - ahead[t] <= clock /\ clock <= now[t] - ahead[t] + MaxLag
    BY <1>1 DEF IInv, ThreadsInv
  <2>4. latest'["redis"] <= clock + MaxSkew /\ now[t] <= clock + MaxSkew /\ now[t] >= clock - MaxLag
    BY <2>1, <2>2, <2>3, TimesAssumption DEF IInv, TypeOK, Larger, Stores
  <2>5. redis'.tokens - redis'.updated >= -latest'["redis"]
    BY <1>2 DEF RedisInv
  <2>6. Earliest(t)' >= clock + Second
    BY <1>12, <1>1, <1>6, <1>7, RateAssumption DEF TypeOK, Earliest, Larger
  <2>7. Earliest(t)' \in Int
    BY <1>6, <1>7 DEF TypeOK, Earliest, Larger
  <2>8. latest'["redis"] \in Nat /\ redis'.tokens \in Int /\ redis'.updated \in Nat /\ clock \in Nat
    BY <1>2 DEF IInv, TypeOK, Stores
  <2>9. -(clock + MaxSkew) + clock + Second >= Cost
    BY <2>8, RateAssumption, TimesAssumption
  <2>10. QED
    BY <2>4, <2>5, <2>6, <2>7, <2>8, <2>9, TimesAssumption, RateAssumption
<1>13. ToldInv'
  <2>1. \A s \in Stores : told'[s] \in Obedient \cup {Nobody}
    BY <1>5, <1>6 DEF IInv, ToldInv, Stores
  <2>2. \A u \in Threads : told'["redis"] = u /\ redis'.live => u = t
    BY <1>6, ThreadsAssumption
  <2>3. ASSUME NEW u \in Threads, told'["pg"] = u
        PROVE  pg'.live /\ pg'.tokens - pg'.updated + EarliestPg(u)' >= Cost
    <3>1. pg.live /\ pg.tokens - pg.updated + EarliestPg(u) >= Cost
      BY <2>3, <1>5, <1>6 DEF IInv, ToldInv
    <3>2. EarliestPg(u)' >= EarliestPg(u) /\ EarliestPg(u) \in Int /\ EarliestPg(u)' \in Int
      BY <1>1, <1>6, <1>7 DEF IInv, TypeOK, EarliestPg, Larger
    <3>3. QED
      BY <3>1, <3>2, <1>1, TimesAssumption DEF IInv, TypeOK
  <2>4. QED
    BY <2>1, <2>2, <2>3, <1>12 DEF ToldInv
<1>14. QED
  BY <1>2, <1>7, <1>8, <1>9, <1>11, <1>13 DEF IInv

\* Redis fails, before or after its script ran.
LEMMA RedisFailsKeeps == ASSUME IInv, NEW t \in Threads, RedisFails(t) PROVE IInv'
<1>1. /\ pc[t] = "redis" /\ pc' = [pc EXCEPT ![t] = "begin"] /\ faults' = faults + 1
      /\ again' = [again EXCEPT !["redis"] = FALSE]
      /\ UNCHANGED <<clock, configured, now, ahead, stamp, until, pg, minted>>
  BY DEF RedisFails, Script, history
<1>2. \A u \in Threads : /\ Earliest(u)' >= Earliest(u) /\ EarliestPg(u)' >= EarliestPg(u)
                         /\ Earliest(u) \in Int /\ Earliest(u)' \in Int
                         /\ EarliestPg(u) \in Int /\ EarliestPg(u)' \in Int
  BY <1>1, TimesAssumption DEF IInv, TypeOK, ThreadsInv, Earliest, EarliestPg, Larger
<1>3. ThreadsInv'
  BY <1>1 DEF IInv, TypeOK, ThreadsInv
<1>4. RetryAfterIsEnough' /\ again' \in [Stores -> BOOLEAN]
  BY <1>1 DEF IInv, TypeOK, RetryAfterIsEnough, Stores
<1>5. CASE UNCHANGED <<redis, pg, told, history>>
  <2>1. TypeOK'
    BY <1>1, <1>4, <1>5 DEF IInv, TypeOK, history
  <2>2. RedisInv' /\ PgInv' /\ RedisBudget' /\ PgBudget'
    BY <1>1, <1>5 DEF IInv, RedisInv, PgInv, RedisBudget, PgBudget, history
  <2>3. ToldInv'
    BY <1>1, <1>2, <1>5, TimesAssumption DEF IInv, TypeOK, ToldInv, Stores
  <2>4. QED
    BY <2>1, <2>2, <2>3, <1>3, <1>4 DEF IInv
<1>6. CASE Script(t) /\ told' = [told EXCEPT !["redis"] = Nobody]
  <2>1. /\ RedisInv' /\ RedisBudget'
        /\ redis' \in [live : BOOLEAN, tokens : Int, updated : Nat, expires : Nat]
        /\ redis'.tokens <= Window
        /\ first' \in [Stores -> Nat] /\ latest' \in [Stores -> Nat] /\ spent' \in [Stores -> Nat]
        /\ first'["pg"] = first["pg"] /\ latest'["pg"] = latest["pg"] /\ spent'["pg"] = spent["pg"]
    BY <1>1, <1>6, ScriptKeeps
  <2>2. /\ told' \in [Stores -> Threads \cup {Nobody}]
        /\ told'["redis"] = Nobody /\ told'["pg"] = told["pg"]
    BY <1>6 DEF IInv, TypeOK, Stores
  <2>3. TypeOK'
    BY <1>1, <1>4, <2>1, <2>2 DEF IInv, TypeOK
  <2>4. PgInv' /\ PgBudget'
    BY <1>1, <2>1 DEF IInv, PgInv, PgBudget
  <2>5. ToldInv'
    BY <1>1, <1>2, <2>2, ThreadsAssumption, TimesAssumption DEF IInv, TypeOK, ToldInv, Stores
  <2>6. QED
    BY <2>1, <2>3, <2>4, <2>5, <1>3, <1>4 DEF IInv
<1>7. QED
  BY <1>5, <1>6 DEF RedisFails

\* The fallback opens its transaction.
LEMMA BeginPgKeeps == ASSUME IInv, NEW t \in Threads, BeginPg(t) PROVE IInv'
<1>1. /\ pc[t] = "begin" /\ pc' = [pc EXCEPT ![t] = "pg"] /\ stamp' = [stamp EXCEPT ![t] = clock]
      /\ UNCHANGED <<clock, configured, redis, pg, now, ahead, until, told, again, spent, first, latest, minted, faults>>
  BY DEF BeginPg, history
<1>2. TypeOK'
  BY <1>1 DEF IInv, TypeOK
<1>3. ThreadsInv'
  BY <1>1 DEF IInv, TypeOK, ThreadsInv
<1>4. RedisInv' /\ PgInv' /\ RedisBudget' /\ PgBudget' /\ RetryAfterIsEnough'
  BY <1>1 DEF IInv, RedisInv, PgInv, RedisBudget, PgBudget, RetryAfterIsEnough
<1>5. \A u \in Threads : /\ Earliest(u)' = Earliest(u) /\ EarliestPg(u)' = EarliestPg(u)
  BY <1>1 DEF IInv, TypeOK, Earliest, EarliestPg
<1>6. ToldInv'
  BY <1>1, <1>5 DEF IInv, ToldInv
<1>7. QED
  BY <1>2, <1>3, <1>4, <1>6 DEF IInv

\* The fallback charges the bucket and answers.
LEMMA CheckPgKeeps == ASSUME IInv, NEW t \in Threads, CheckPg(t) PROVE IInv'
<1> DEFINE allowed == Charged(t) >= 0
           tokens == Refilled(pg, stamp[t])
           cost == IF Charged(t) >= 0 THEN Cost ELSE 0
<1>t. /\ pg.tokens \in Int /\ pg.updated \in Nat /\ pg.live \in BOOLEAN /\ pg.tokens >= -Cost
      /\ stamp[t] \in Nat /\ clock \in Nat /\ minted \in Nat
      /\ first["pg"] \in Nat /\ latest["pg"] \in Nat /\ spent["pg"] \in Nat
  BY DEF IInv, TypeOK, Stores
<1>1. /\ pc[t] = "pg" /\ UNCHANGED <<clock, configured, redis, faults>>
      /\ pg' = [live |-> TRUE, tokens |-> Charged(t), updated |-> stamp[t]]
      /\ first' = [first EXCEPT !["pg"] = IF spent["pg"] = 0 THEN stamp[t] ELSE @]
      /\ latest' = [latest EXCEPT !["pg"] = Larger(@, stamp[t])]
      /\ spent' = [spent EXCEPT !["pg"] = @ + cost]
      /\ minted' = minted + Larger(0, Charged(t) - tokens)
  BY DEF CheckPg, Record
<1>2. /\ tokens \in Int /\ tokens <= Window
      /\ pg.live => tokens <= pg.tokens + stamp[t] - pg.updated
      /\ pg.live => tokens = Window \/ tokens = pg.tokens + stamp[t] - pg.updated
      /\ ~pg.live => tokens = Window
  BY <1>t, TimesAssumption DEF Refilled, Smaller
<1>3. /\ Charged(t) \in Int /\ Charged(t) >= -Cost
      /\ Charged(t) = tokens - Cost \/ (Charged(t) = -Cost /\ tokens < 0)
  BY <1>2, TimesAssumption DEF Charged, Larger
<1>4. /\ cost \in {0, Cost} /\ (cost = Cost <=> Charged(t) >= 0)
      /\ Charged(t) >= 0 => Charged(t) = tokens - Cost
  BY <1>3, TimesAssumption
<1>5. PICK left \in Int : left = Larger(Charged(t), 0)
  BY <1>3 DEF Larger
<1>6. Answer(t, "pg", allowed, left)
  BY <1>5 DEF CheckPg
<1>7. allowed \in BOOLEAN /\ "pg" \in Stores /\ "redis" \in Stores \ {"pg"}
  BY DEF Stores
<1> HIDE DEF allowed, tokens, cost
<1>8. /\ pc' \in [Threads -> {"idle", "redis", "begin", "pg"}]
      /\ now' \in [Threads -> Nat] /\ ahead' \in [Threads -> 0 .. MaxSkew]
      /\ stamp' \in [Threads -> Nat] /\ until' \in [Threads -> Nat]
      /\ told' \in [Stores -> Threads \cup {Nobody}] /\ again' \in [Stores -> BOOLEAN]
      /\ pc'[t] = "idle"
      /\ told'["pg"] \in {t, Nobody}
      /\ told'["pg"] = t => ~allowed /\ t \in Obedient /\ until'[t] >= clock + Second
      /\ \A r \in Stores \ {"pg"} : told'[r] = told[r] /\ again'[r] = again[r]
      /\ \A u \in Threads \ {t} : /\ pc'[u] = pc[u] /\ now'[u] = now[u] /\ ahead'[u] = ahead[u]
                                  /\ stamp'[u] = stamp[u] /\ until'[u] = until[u]
  BY <1>6, <1>7, AnswerKeeps
<1>9. /\ first'["pg"] = (IF spent["pg"] = 0 THEN stamp[t] ELSE first["pg"])
      /\ latest'["pg"] = Larger(latest["pg"], stamp[t])
      /\ spent'["pg"] = spent["pg"] + cost
      /\ first'["redis"] = first["redis"] /\ latest'["redis"] = latest["redis"]
      /\ spent'["redis"] = spent["redis"]
  BY <1>1 DEF IInv, TypeOK, Stores
<1>10. pg'.live /\ pg'.tokens = Charged(t) /\ pg'.updated = stamp[t]
  BY <1>1
<1>11. /\ minted' \in Nat /\ minted' >= minted /\ minted' >= minted + Charged(t) - tokens
  BY <1>1, <1>2, <1>3, <1>t DEF Larger
<1>12. first' \in [Stores -> Nat] /\ spent' \in [Stores -> Nat] /\ latest' \in [Stores -> Nat]
  <2>1. first' \in [Stores -> Nat] /\ spent' \in [Stores -> Nat]
    BY <1>1, <1>4, <1>t, TimesAssumption DEF IInv, TypeOK, Stores
  <2>2. latest' \in [Stores -> Nat]
    BY <1>1, <1>t DEF IInv, TypeOK, Stores, Larger
  <2>3. QED
    BY <2>1, <2>2
<1>13. TypeOK'
  <2>1. Charged(t) \in -Cost .. Window
    BY <1>2, <1>3, TimesAssumption
  <2>2. pg' \in [live : BOOLEAN, tokens : Int, updated : Nat] /\ pg'.tokens \in -Cost .. Window
    BY <1>1, <1>10, <1>3, <1>t, <2>1
  <2>3. QED
    BY <1>1, <1>8, <1>11, <1>12, <2>2 DEF IInv, TypeOK
<1>14. ThreadsInv'
  BY <1>1, <1>8 DEF IInv, ThreadsInv
<1>15. RedisInv' /\ RedisBudget'
  BY <1>1, <1>9 DEF IInv, RedisInv, RedisBudget
<1>16. latest'["pg"] >= stamp[t] /\ latest'["pg"] >= latest["pg"] /\ latest'["pg"] \in Nat
  BY <1>9, <1>t DEF Larger
<1>17. first'["pg"] <= latest'["pg"]
  BY <1>9, <1>16, <1>t DEF IInv, PgInv
<1>18. spent'["pg"] > 0 =>
          spent'["pg"] + pg'.tokens - pg'.updated <= Window - first'["pg"] + minted'
  <2>1. CASE spent["pg"] = 0
    BY <2>1, <1>2, <1>4, <1>9, <1>10, <1>11, <1>t, TimesAssumption
  <2>2. CASE spent["pg"] > 0
    <3>1. pg.live /\ spent["pg"] + pg.tokens - pg.updated <= Window - first["pg"] + minted
      BY <2>2 DEF IInv, PgInv
    <3>2. CASE Charged(t) >= 0
      BY <3>1, <3>2, <2>2, <1>2, <1>4, <1>9, <1>10, <1>11, <1>t, TimesAssumption
    <3>3. CASE Charged(t) < 0
      BY <3>1, <3>3, <2>2, <1>2, <1>3, <1>4, <1>9, <1>10, <1>11, <1>t, TimesAssumption
    <3>4. QED
      BY <3>2, <3>3, <1>3
  <2>3. QED
    BY <2>1, <2>2, <1>t
<1>19. PgInv'
  BY <1>10, <1>17, <1>18 DEF PgInv
<1>20. PgBudget'
  <2>1. spent["pg"] <= Window + latest["pg"] - first["pg"] + minted
    BY DEF IInv, PgBudget
  <2>2. CASE Charged(t) >= 0
    BY <2>2, <1>4, <1>9, <1>10, <1>11, <1>12, <1>16, <1>18, <1>t, <1>3, TimesAssumption DEF PgBudget
  <2>3. CASE Charged(t) < 0
    BY <2>1, <2>3, <1>3, <1>4, <1>9, <1>11, <1>16, <1>17, <1>t, TimesAssumption DEF PgBudget
  <2>4. QED
    BY <2>2, <2>3, <1>3
<1>21. ~again'["pg"]
  <2>1. again'["pg"] = (~allowed /\ told["pg"] = t)
    BY <1>6 DEF IInv, TypeOK, Stores, Answer
  <2>2. ASSUME told["pg"] = t PROVE allowed
    <3>1. pg.live /\ pg.tokens - pg.updated + stamp[t] >= Cost
      BY <2>2, <1>1 DEF IInv, ToldInv, EarliestPg
    <3>2. tokens >= Cost
      BY <3>1, <1>2, <1>t, TimesAssumption
    <3>3. QED
      BY <3>2, <1>2, <1>3, TimesAssumption DEF allowed
  <2>3. QED
    BY <2>1, <2>2
<1>22. RetryAfterIsEnough'
  BY <1>7, <1>8, <1>21 DEF IInv, RetryAfterIsEnough, Stores
<1>23. ASSUME told'["pg"] = t PROVE pg'.tokens - pg'.updated + EarliestPg(t)' >= Cost
  <2>1. stamp[t] <= clock
    BY <1>1 DEF IInv, ThreadsInv
  <2>2. EarliestPg(t)' >= clock + Second /\ EarliestPg(t)' \in Int
    BY <1>23, <1>1, <1>8, <1>13, RateAssumption DEF TypeOK, EarliestPg, Larger
  <2>3. QED
    BY <2>1, <2>2, <1>3, <1>10, <1>t, TimesAssumption, RateAssumption
<1>24. ToldInv'
  <2>1. \A s \in Stores : told'[s] \in Obedient \cup {Nobody}
    BY <1>7, <1>8 DEF IInv, ToldInv, Stores
  <2>2. \A u \in Threads : told'["pg"] = u => u = t
    BY <1>8, ThreadsAssumption
  <2>3. ASSUME NEW u \in Threads, told'["redis"] = u, redis'.live
        PROVE  redis'.tokens - redis'.updated + Earliest(u)' >= Cost
    <3>1. redis.tokens - redis.updated + Earliest(u) >= Cost
      BY <2>3, <1>1, <1>7, <1>8 DEF IInv, ToldInv
    <3>2. Earliest(u)' >= Earliest(u) /\ Earliest(u) \in Int /\ Earliest(u)' \in Int
      BY <1>1, <1>8, <1>13 DEF IInv, TypeOK, Earliest, Larger
    <3>3. QED
      BY <3>1, <3>2, <1>1, TimesAssumption DEF IInv, TypeOK
  <2>4. QED
    BY <2>1, <2>2, <2>3, <1>10, <1>23 DEF ToldInv
<1>25. QED
  BY <1>13, <1>14, <1>15, <1>19, <1>20, <1>22, <1>24 DEF IInv

\* Redis drops an idle bucket.
LEMMA ExpireKeeps == ASSUME IInv, Expire PROVE IInv'
<1>1. /\ redis.live /\ clock >= redis.expires /\ redis' = [redis EXCEPT !.live = FALSE]
      /\ UNCHANGED <<clock, configured, pg, pc, now, ahead, stamp, until, told, again, spent, first, latest, minted, faults>>
  BY DEF Expire, history
<1>2. /\ ~redis'.live /\ redis'.tokens = redis.tokens /\ redis'.updated = redis.updated
      /\ redis' \in [live : BOOLEAN, tokens : Int, updated : Nat, expires : Nat]
  BY <1>1 DEF IInv, TypeOK
<1>3. clock >= latest["redis"] + Window + MaxLag
  BY <1>1, SlackAssumption, TimesAssumption DEF IInv, TypeOK, RedisInv, Lifetime, Stores
<1>4. RedisInv'
  BY <1>1, <1>2, <1>3 DEF IInv, RedisInv
<1>5. TypeOK'
  BY <1>1, <1>2 DEF IInv, TypeOK
<1>6. ThreadsInv' /\ PgInv' /\ RedisBudget' /\ PgBudget' /\ RetryAfterIsEnough'
  BY <1>1 DEF IInv, ThreadsInv, PgInv, RedisBudget, PgBudget, RetryAfterIsEnough
<1>7. ToldInv'
  BY <1>1, <1>2 DEF IInv, ToldInv, Earliest, EarliestPg
<1>8. QED
  BY <1>4, <1>5, <1>6, <1>7 DEF IInv

\* A stretch of time to account for begins.
LEMMA MeasureKeeps == ASSUME IInv, NEW s \in Stores, Measure(s) PROVE IInv'
<1>1. /\ spent' = [spent EXCEPT ![s] = 0] /\ minted' = IF s = "pg" THEN 0 ELSE minted
      /\ UNCHANGED <<clock, configured, redis, pg, pc, now, ahead, stamp, until, told, again, first, latest, faults>>
  BY DEF Measure
<1>2. TypeOK'
  BY <1>1 DEF IInv, TypeOK
<1>3. RedisInv' /\ RedisBudget'
  BY <1>1, TimesAssumption DEF IInv, TypeOK, RedisInv, RedisBudget, Stores
<1>4. PgInv' /\ PgBudget'
  BY <1>1, TimesAssumption DEF IInv, TypeOK, PgInv, PgBudget, Stores
<1>5. ThreadsInv' /\ RetryAfterIsEnough' /\ ToldInv'
  BY <1>1 DEF IInv, ThreadsInv, RetryAfterIsEnough, ToldInv, Earliest, EarliestPg
<1>6. QED
  BY <1>2, <1>3, <1>4, <1>5 DEF IInv

\* Time passes.
LEMMA TickKeeps == ASSUME IInv, Tick PROVE IInv'
<1>1. /\ clock' = clock + 1
      /\ \A t \in Threads : pc[t] = "redis" => clock < now[t] - ahead[t] + MaxLag
      /\ UNCHANGED <<configured, redis, pg, pc, now, ahead, stamp, until, told, again, spent, first, latest, minted, faults>>
  BY DEF Tick, history
<1>2. TypeOK'
  BY <1>1 DEF IInv, TypeOK
<1>3. ThreadsInv'
  BY <1>1, TimesAssumption DEF IInv, TypeOK, ThreadsInv
<1>4. RedisInv'
  BY <1>1, TimesAssumption DEF IInv, TypeOK, RedisInv, Lifetime, Stores
<1>5. PgInv' /\ RedisBudget' /\ PgBudget' /\ RetryAfterIsEnough'
  BY <1>1 DEF IInv, PgInv, RedisBudget, PgBudget, RetryAfterIsEnough
<1>6. \A u \in Threads : /\ Earliest(u)' >= Earliest(u) /\ EarliestPg(u)' >= EarliestPg(u)
                         /\ Earliest(u) \in Int /\ Earliest(u)' \in Int
                         /\ EarliestPg(u) \in Int /\ EarliestPg(u)' \in Int
  BY <1>1, TimesAssumption DEF IInv, TypeOK, Earliest, EarliestPg, Larger
<1>7. ToldInv'
  BY <1>1, <1>6, TimesAssumption DEF IInv, TypeOK, ToldInv, Stores
<1>8. QED
  BY <1>2, <1>3, <1>4, <1>5, <1>7 DEF IInv

\* Every step of the limiter preserves the inductive invariant.
LEMMA NextKeeps == IInv /\ [Next]_vars => IInv'
<1> SUFFICES ASSUME IInv, [Next]_vars PROVE IInv'
  OBVIOUS
<1>1. ASSUME NEW t \in Threads, Arrive(t) \/ CheckRedis(t) \/ RedisFails(t) \/ BeginPg(t) \/ CheckPg(t)
      PROVE  IInv'
  BY <1>1, ArriveKeeps, CheckRedisKeeps, RedisFailsKeeps, BeginPgKeeps, CheckPgKeeps
<1>2. ASSUME NEW s \in Stores, Measure(s) PROVE IInv'
  BY <1>2, MeasureKeeps
<1>3. CASE Expire \/ Tick
  BY <1>3, ExpireKeeps, TickKeeps
<1>4. CASE UNCHANGED vars
  BY <1>4 DEF vars, history, IInv, TypeOK, ThreadsInv, RedisInv, PgInv, ToldInv, RedisBudget, PgBudget,
              RetryAfterIsEnough, Earliest, EarliestPg
<1>5. QED
  BY <1>1, <1>2, <1>3, <1>4 DEF Next

\* The inductive invariant holds in every reachable state.
LEMMA Invariant == Spec => []IInv
BY InitOK, NextKeeps, PTL DEF Spec

\* A key that has expired would have been full for any request to come.
LEMMA GoneIsFull == IInv => ExpiryIsInvisible
<1>1. SUFFICES ASSUME IInv, NEW t \in Threads, pc[t] = "redis", ~redis.live
               PROVE  redis.tokens + now[t] - redis.updated >= Window
  BY DEF ExpiryIsInvisible
<1>2. /\ redis.tokens \in Int /\ redis.updated \in Nat /\ now[t] \in Nat /\ ahead[t] \in 0 .. MaxSkew
      /\ clock \in Nat /\ latest["redis"] \in Nat
  BY <1>1 DEF IInv, TypeOK, Stores
<1>3. now[t] - ahead[t] <= clock /\ clock <= now[t] - ahead[t] + MaxLag
  BY <1>1 DEF IInv, ThreadsInv
<1>4. redis.tokens - redis.updated >= -latest["redis"]
  BY <1>1 DEF IInv, RedisInv
<1>5. CASE redis.tokens = Window /\ redis.updated = 0
  BY <1>2, <1>5, TimesAssumption
<1>6. CASE clock >= latest["redis"] + Window + MaxLag
  BY <1>2, <1>3, <1>4, <1>6, TimesAssumption
<1>7. QED
  BY <1>1, <1>5, <1>6 DEF IInv, RedisInv

\* Every reachable state of the limiter is well typed: in particular neither
\* bucket holds more than its capacity, although hosts disagree about the time
\* and requests overtake each other, and the Postgres bucket never sinks below
\* its floor of one request.
THEOREM TypeCorrect == Spec => []TypeOK
<1>1. IInv => TypeOK
  BY DEF IInv
<1>2. QED
  BY <1>1, Invariant, PTL

\* The Lua bucket keeps to its budget over any stretch of time.
THEOREM RedisKeepsBudget == Spec => []RedisBudget
<1>1. IInv => RedisBudget
  BY DEF IInv
<1>2. QED
  BY <1>1, Invariant, PTL

\* The Postgres bucket keeps to its budget but for what overtaking gives away.
THEOREM PgKeepsBudget == Spec => []PgBudget
<1>1. IInv => PgBudget
  BY DEF IInv
<1>2. QED
  BY <1>1, Invariant, PTL

\* Dropping an idle key changes no answer.
THEOREM ExpiryChangesNothing == Spec => []ExpiryIsInvisible
BY GoneIsFull, Invariant, PTL

\* Whoever waits as long as Retry-After says is served.
THEOREM WaitingIsEnough == Spec => []RetryAfterIsEnough
<1>1. IInv => RetryAfterIsEnough
  BY DEF IInv
<1>2. QED
  BY <1>1, Invariant, PTL
=============================================================================
