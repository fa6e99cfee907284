---------------------------- MODULE RateLimiter ----------------------------
(***************************************************************************)
(* The token bucket of one API key (api/ratelimit.py, called from          *)
(* deps.context): a Lua script on Redis, and an upsert on Postgres when    *)
(* Redis fails or is not configured.  Request handlers run in several      *)
(* processes, read the clock first and reach the bucket later, in any      *)
(* order; the two buckets know nothing of each other.                      *)
(*                                                                         *)
(* Tokens are measured in the time it takes to refill them.  capacity is   *)
(* per_minute and refill is capacity / 60 a second, so the capacity is one *)
(* minute (Window) whatever the limit, a request costs Cost = 60 s /       *)
(* per_minute, and a bucket gains one unit per tick.                       *)
(***************************************************************************)
EXTENDS Integers

CONSTANTS
    Threads,    \* request handlers
    Obedient,   \* those whose client waits as long as Retry-After says
    Nobody,
    Window,     \* capacity / refill
    Cost,       \* cost / refill
    Second,     \* ticks of a second: Retry-After is in whole seconds
    MaxSkew,    \* bound: how far the clocks of the API hosts are apart
    MaxLag,     \* bound: ticks between reading the clock and the script
    MaxWait,    \* bound: ticks between beginning a transaction and its upsert
    MaxClock,   \* bound
    MaxFaults   \* bound: calls of Redis that fail

ASSUME ThreadsAssumption == Obedient \subseteq Threads /\ Nobody \notin Threads
ASSUME TimesAssumption ==
    /\ Cost \in Nat \ {0} /\ Window \in Nat /\ Cost <= Window
    /\ MaxSkew \in Nat /\ MaxLag \in Nat /\ MaxWait \in Nat
\* What the properties rest on: delays and clock differences are small against
\* the minute of the bucket, and the limit allows two requests a second.
ASSUME SlackAssumption == MaxLag + MaxSkew <= Window
ASSUME RateAssumption ==
    Second \in Nat \ {0} /\ 2 * Cost + MaxLag + 2 * MaxSkew <= Second

VARIABLES
    clock,
    configured, \* whether redis_url is set and the script registered
    redis,      \* hash of the key: live, tokens, updated, and when it expires
    pg,         \* row of rate_limit_buckets: live, tokens, updated
    pc, now,    \* each thread: where it is, and time.time() of its check
    ahead,      \* how far the clock of its host is ahead
    stamp,      \* now() of its Postgres transaction
    until,      \* when its client will come back
    told,       \* the client that waits for a bucket nobody has used since
    again,      \* whether it had denied the same client just before
    spent,      \* history: tokens granted in the stretch of time measured,
    first,      \* the stamp that began it, and the latest stamp of all
    latest,
    minted,     \* history: what clamping overtaken denials gave away in it
    faults
history == <<first, latest, spent, minted>>
vars == <<clock, configured, redis, pg, pc, now, ahead, stamp, until, told, again, history, faults>>

Stores == {"redis", "pg"}

Larger(a, b) == IF a >= b THEN a ELSE b
Smaller(a, b) == IF a <= b THEN a ELSE b

\* int(...) of a time.
Whole(x) == (x \div Second) * Second
-----------------------------------------------------------------------------
(* deps.context and RateLimiter.check.                                      *)

Arrive(t) ==
    /\ pc[t] = "idle"
    /\ t \in Obedient => clock >= until[t]
    /\ pc' = [pc EXCEPT ![t] = IF configured THEN "redis" ELSE "begin"]
    /\ \E k \in 0 .. MaxSkew : ahead' = [ahead EXCEPT ![t] = k] /\ now' = [now EXCEPT ![t] = clock + k]
    /\ UNCHANGED <<clock, configured, redis, pg, stamp, until, told, again, history, faults>>

\* Mutant: Retry-After is what the clock difference says, which may be nothing.
RetryAfterExact(t, left) == Whole(now[t] + Larger(0, Cost - left)) - Whole(clock + ahead[t])

\* _decision, and retry_after in deps.context: at least one second.
RetryAfter(t, left) ==
    Larger(Second, Whole(now[t] + Larger(0, Cost - left)) - Whole(clock + ahead[t]))

\* The answer of store s to thread t: left is what it reports as remaining.
Answer(t, s, allowed, left) ==
    /\ pc' = [pc EXCEPT ![t] = "idle"]
    /\ until' = [until EXCEPT ![t] = IF allowed \/ t \notin Obedient THEN 0
                                     ELSE clock + RetryAfter(t, left)]
    /\ told' = [told EXCEPT ![s] = IF allowed \/ t \notin Obedient THEN Nobody ELSE t]
    /\ again' = [again EXCEPT ![s] = ~allowed /\ told[s] = t]
    /\ now' = [now EXCEPT ![t] = 0] /\ ahead' = [ahead EXCEPT ![t] = 0] /\ stamp' = [stamp EXCEPT ![t] = 0]

\* A stretch of time begins with the first request granted in it.
Record(s, at, cost) ==
    /\ first' = [first EXCEPT ![s] = IF spent[s] = 0 THEN at ELSE @]
    /\ latest' = [latest EXCEPT ![s] = Larger(@, at)]
    /\ spent' = [spent EXCEPT ![s] = @ + cost]

\* Mutant: the refill is not capped.
RefilledUncapped(bucket, at) ==
    IF bucket.live THEN bucket.tokens + at - bucket.updated ELSE Window

\* The refill, which is negative for a request that was overtaken.
Refilled(bucket, at) ==
    IF bucket.live THEN Smaller(Window, bucket.tokens + at - bucket.updated) ELSE Window

\* Mutant: the key expires before its bucket is sure to be full again.
LifetimeOnce == Window

\* EXPIRE: capacity / refill, twice.
Lifetime == 2 * Window

\* _LUA: one script, run atomically with the time its caller has read.
Script(t) ==
    LET tokens == Refilled(redis, now[t])
        cost   == IF tokens >= Cost THEN Cost ELSE 0
    IN  /\ redis' = [live |-> TRUE, tokens |-> tokens - cost, updated |-> now[t],
                     expires |-> clock + Lifetime]
        /\ Record("redis", now[t], cost)
        /\ UNCHANGED <<pg, minted>>

\* Redis turns the number that a script returns into an integer, towards zero:
\* what check is told is whole requests.
Truncated(tokens) ==
    IF tokens >= 0 THEN (tokens \div Cost) * Cost ELSE -(((-tokens) \div Cost) * Cost)

CheckRedis(t) ==
    /\ pc[t] = "redis"
    /\ Script(t)
    /\ Answer(t, "redis", Refilled(redis, now[t]) >= Cost, Truncated(redis'.tokens))
    /\ UNCHANGED <<clock, configured, faults>>

\* The call raises, before or after the script ran, and check falls through.
RedisFails(t) ==
    /\ pc[t] = "redis" /\ faults < MaxFaults
    /\ faults' = faults + 1
    /\ pc' = [pc EXCEPT ![t] = "begin"]
    /\ \/ UNCHANGED <<redis, pg, told, history>>
       \/ Script(t) /\ told' = [told EXCEPT !["redis"] = Nobody]
    /\ again' = [again EXCEPT !["redis"] = FALSE]
    /\ UNCHANGED <<clock, configured, now, ahead, stamp, until>>

\* _check_pg begins its transaction, which fixes now().
BeginPg(t) ==
    /\ pc[t] = "begin"
    /\ pc' = [pc EXCEPT ![t] = "pg"]
    /\ stamp' = [stamp EXCEPT ![t] = clock]
    /\ UNCHANGED <<clock, configured, redis, pg, now, ahead, until, told, again, history, faults>>

\* Mutant: tokens are subtracted only when there are enough.
ChargedIfEnough(t) ==
    LET tokens == Refilled(pg, stamp[t]) IN IF tokens >= Cost THEN tokens - Cost ELSE Larger(0, tokens)

\* GREATEST(-cost, LEAST(capacity, ...) - cost)
Charged(t) == Larger(-Cost, Refilled(pg, stamp[t]) - Cost)

\* The upsert, with the row locked: the sign carries the answer.
CheckPg(t) ==
    /\ pc[t] = "pg"
    /\ pg' = [live |-> TRUE, tokens |-> Charged(t), updated |-> stamp[t]]
    /\ Record("pg", stamp[t], IF Charged(t) >= 0 THEN Cost ELSE 0)
    /\ minted' = minted + Larger(0, Charged(t) - Refilled(pg, stamp[t]))
    /\ Answer(t, "pg", Charged(t) >= 0, Larger(Charged(t), 0))
    /\ UNCHANGED <<clock, configured, redis, faults>>

\* Redis drops the key.
Expire ==
    /\ redis.live /\ clock >= redis.expires
    /\ redis' = [redis EXCEPT !.live = FALSE]
    /\ UNCHANGED <<clock, configured, pg, pc, now, ahead, stamp, until, told, again, history, faults>>

\* The properties are about any stretch of time: another one is measured.
Measure(s) ==
    /\ spent[s] > 0
    /\ spent' = [spent EXCEPT ![s] = 0]
    /\ minted' = IF s = "pg" THEN 0 ELSE minted
    /\ UNCHANGED <<clock, configured, redis, pg, pc, now, ahead, stamp, until, told, again, first, latest, faults>>

\* Time passes; nobody takes longer to reach the bucket.
Tick ==
    /\ clock < MaxClock
    /\ \A t \in Threads : /\ pc[t] = "redis" => clock < now[t] - ahead[t] + MaxLag
                          /\ pc[t] = "pg" => clock < stamp[t] + MaxWait
    /\ clock' = clock + 1
    /\ UNCHANGED <<configured, redis, pg, pc, now, ahead, stamp, until, told, again, history, faults>>
-----------------------------------------------------------------------------
Init ==
    /\ clock = 0 /\ configured \in BOOLEAN
    /\ redis = [live |-> FALSE, tokens |-> Window, updated |-> 0, expires |-> 0]
    /\ pg = [live |-> FALSE, tokens |-> Window, updated |-> 0]
    /\ pc = [t \in Threads |-> "idle"]
    /\ now = [t \in Threads |-> 0] /\ ahead = [t \in Threads |-> 0] /\ stamp = [t \in Threads |-> 0]
    /\ until = [t \in Threads |-> 0]
    /\ told = [s \in Stores |-> Nobody] /\ again = [s \in Stores |-> FALSE]
    /\ first = [s \in Stores |-> 0] /\ latest = [s \in Stores |-> 0]
    /\ spent = [s \in Stores |-> 0] /\ minted = 0 /\ faults = 0

Next ==
    \/ \E t \in Threads : Arrive(t) \/ CheckRedis(t) \/ RedisFails(t) \/ BeginPg(t) \/ CheckPg(t)
    \/ \E s \in Stores : Measure(s)
    \/ Expire \/ Tick

Spec == Init /\ [][Next]_vars
-----------------------------------------------------------------------------
(* Properties.                                                              *)

TypeOK ==
    /\ clock \in Nat /\ configured \in BOOLEAN /\ faults \in Nat /\ minted \in Nat
    /\ redis \in [live : BOOLEAN, tokens : Int, updated : Nat, expires : Nat]
    /\ pg \in [live : BOOLEAN, tokens : Int, updated : Nat]
    /\ redis.tokens <= Window /\ pg.tokens \in -Cost .. Window
    /\ pc \in [Threads -> {"idle", "redis", "begin", "pg"}]
    /\ now \in [Threads -> Nat] /\ ahead \in [Threads -> 0 .. MaxSkew]
    /\ stamp \in [Threads -> Nat] /\ until \in [Threads -> Nat]
    /\ told \in [Stores -> Threads \cup {Nobody}] /\ again \in [Stores -> BOOLEAN]
    /\ first \in [Stores -> Nat] /\ latest \in [Stores -> Nat] /\ spent \in [Stores -> Nat]

\* "Refill continuously": over any stretch of time the script grants one
\* capacity and what is refilled meanwhile, no more, although hosts disagree
\* about the time, requests overtake each other and the key expires.
RedisBudget == spent["redis"] <= Window + latest["redis"] - first["redis"]

\* The same on Postgres, where now() is read before the row lock is granted and
\* a denied request that was overtaken is lifted to the floor: what that gives
\* away is all that is granted beyond the budget.
PgBudget == spent["pg"] <= Window + latest["pg"] - first["pg"] + minted

\* EXPIRE never changes an answer: a bucket that is gone would be full.
ExpiryIsInvisible ==
    \A t \in Threads :
       pc[t] = "redis" /\ ~redis.live =>
          redis.tokens + now[t] - redis.updated >= Window

\* A client that is denied, waits as long as Retry-After says and finds that
\* nobody used the bucket meanwhile is not denied again: the Postgres bucket
\* charges denied requests too, but no deeper than its floor.
RetryAfterIsEnough ==
    \A s \in Stores : ~again[s]
=============================================================================
