---------------------------- MODULE RateLimiter ----------------------------
(***************************************************************************)
(* The rate limiter of middleware/ratelimit.go: a fixed window of one      *)
(* minute per client and route, counted in Redis, and in a map of this     *)
(* process whenever Redis does not answer.                                 *)
(*                                                                         *)
(* A request reads the clock three times: for its Redis key, for its local *)
(* bucket and for the reset header.  The minute may turn between any two.  *)
(***************************************************************************)
EXTENDS Naturals, FiniteSets

CONSTANTS
  Key,           \* ClientIP ":" FullPath
  Request,       \* requests that reach the middleware
  Limit,         \* REQUEST_LIMIT, requests per window
  Capacity,      \* 512: the map's size from which stale buckets are dropped
  RedisEnabled,  \* whether REDIS_ADDR is set
  MaxMinute,     \* bound on the clock
  MaxRestarts    \* bound on restarts of the process

ASSUME LimiterAssumption ==
  /\ Limit \in Nat \ {0} /\ Capacity \in Nat \ {0}
  /\ RedisEnabled \in BOOLEAN
  /\ MaxMinute \in Nat /\ MaxRestarts \in Nat

VARIABLES
  minute,   \* the clock, in windows
  life,     \* which run of the process this is
  redis,    \* Redis: window -> key -> counter
  local,    \* Limiter.local: the keys tracked -> bucket
  pc,       \* request -> where it is in the middleware
  key,      \* request -> its key
  window,   \* request -> the window it was counted in
  count,    \* request -> the count it was given
  backend,  \* request -> who counted it
  born,     \* request -> the life of the process it is served by
  reset,    \* request -> its X-RateLimit-Reset header
  charged   \* every increment that took effect (for the properties only)

vars == <<minute, life, redis, local, pc, key, window, count, backend, born, reset, charged>>
requestVars == <<pc, key, window, count, backend, born, reset>>

Window == 0 .. MaxMinute
Bucket == [window : Window, count : Nat]

Init ==
  /\ minute = 0 /\ life = 0
  /\ redis = [w \in Window |-> [k \in Key |-> 0]]
  /\ local = [k \in {} |-> 0]
  /\ pc = [r \in Request |-> "idle"]
  /\ key \in [Request -> Key]
  /\ window = [r \in Request |-> 0]
  /\ count = [r \in Request |-> 0]
  /\ backend = [r \in Request |-> "none"]
  /\ born = [r \in Request |-> 0]
  /\ reset = [r \in Request |-> 0]
  /\ charged = {}

-----------------------------------------------------------------------------
Charge(r, w, who) ==
  charged' = charged \cup
    {[request |-> r, key |-> key[r], window |-> w, backend |-> who, life |-> life]}

\* Middleware: the key of the Redis counter is made of the minute it is now.
Arrive(r) ==
  /\ pc[r] = "idle"
  /\ pc' = [pc EXCEPT ![r] = IF RedisEnabled THEN "redis" ELSE "local"]
  /\ window' = [window EXCEPT ![r] = minute]
  /\ born' = [born EXCEPT ![r] = life]
  /\ UNCHANGED <<minute, life, redis, local, key, count, backend, reset, charged>>

\* INCR and EXPIRE in one transaction.  When it is executed and the answer is lost
\* (or in time), the counter has moved either way.
Incremented(r) == [redis EXCEPT ![window[r]][key[r]] = @ + 1]

RedisCounts(r) ==
  /\ pc[r] = "redis"
  /\ redis' = Incremented(r)
  /\ Charge(r, window[r], "redis")
  /\ \/ /\ count' = [count EXCEPT ![r] = redis'[window[r]][key[r]]]
        /\ backend' = [backend EXCEPT ![r] = "redis"]
        /\ pc' = [pc EXCEPT ![r] = "counted"]
     \/ /\ pc' = [pc EXCEPT ![r] = "local"]      \* Exec returns an error
        /\ UNCHANGED <<count, backend>>
  /\ UNCHANGED <<minute, life, local, key, window, born, reset>>

\* Redis is out of reach and counts nothing.
RedisFails(r) ==
  /\ pc[r] = "redis"
  /\ pc' = [pc EXCEPT ![r] = "local"]
  /\ UNCHANGED <<minute, life, redis, local, key, window, count, backend, born, reset, charged>>

Restricted(f, S) == [k \in S |-> f[k]]

\* cleanupLocal: drops the buckets of earlier windows once the map is full.
CleanedAll(buckets, now) ==                                             \* mutant
  IF Cardinality(DOMAIN buckets) < Capacity THEN buckets ELSE [k \in {} |-> 0]
CleanedNever(buckets, now) == buckets                                   \* mutant
Cleaned(buckets, now) ==
  IF Cardinality(DOMAIN buckets) < Capacity THEN buckets
  ELSE Restricted(buckets, {k \in DOMAIN buckets : buckets[k].window >= now})

\* The bucket a request of key k finds, opened afresh when its window is over.
CarriedOver(buckets, k, now) ==                                         \* mutant
  IF k \in DOMAIN buckets THEN [buckets[k] EXCEPT !.window = now]
                          ELSE [window |-> now, count |-> 0]
Opened(buckets, k, now) ==
  IF k \in DOMAIN buckets /\ buckets[k].window = now THEN buckets[k]
                                                     ELSE [window |-> now, count |-> 0]

\* incrementLocal, under the mutex.
IncrementLocal(r) ==
  LET kept   == Cleaned(local, minute)
      before == Opened(kept, key[r], minute)
      bucket == [before EXCEPT !.count = @ + 1]
  IN /\ pc[r] = "local"
     /\ local' = [k \in DOMAIN kept \cup {key[r]} |-> IF k = key[r] THEN bucket ELSE kept[k]]
     /\ count' = [count EXCEPT ![r] = bucket.count]
     /\ window' = [window EXCEPT ![r] = minute]
     /\ backend' = [backend EXCEPT ![r] = "local"]
     /\ pc' = [pc EXCEPT ![r] = "counted"]
     /\ Charge(r, minute, "local")
     /\ UNCHANGED <<minute, life, redis, key, born, reset>>

OverLimitInclusive(n) == n > Limit + 1                                  \* mutant
OverLimit(n) == n > Limit

ResetAt == minute + 1

\* The headers, and 429 or the handler.
Answer(r) ==
  /\ pc[r] = "counted"
  /\ reset' = [reset EXCEPT ![r] = ResetAt]
  /\ pc' = [pc EXCEPT ![r] = IF OverLimit(count[r]) THEN "rejected" ELSE "admitted"]
  /\ UNCHANGED <<minute, life, redis, local, key, window, count, backend, born, charged>>

Tick ==
  /\ minute < MaxMinute
  /\ minute' = minute + 1
  /\ UNCHANGED <<life, redis, local, requestVars, charged>>

\* The process dies with its map and the requests in it; Redis keeps counting.
InFlight(r) == pc[r] \in {"redis", "local", "counted"}
Restart ==
  /\ life < MaxRestarts
  /\ life' = life + 1
  /\ local' = [k \in {} |-> 0]
  /\ pc' = [r \in Request |-> IF InFlight(r) THEN "lost" ELSE pc[r]]
  /\ UNCHANGED <<minute, redis, key, window, count, backend, born, reset, charged>>

Next ==
  \/ Tick \/ Restart
  \/ \E r \in Request :
       Arrive(r) \/ RedisCounts(r) \/ RedisFails(r) \/ IncrementLocal(r) \/ Answer(r)

Spec == Init /\ [][Next]_vars

-----------------------------------------------------------------------------
(* Properties                                                              *)

\* The clock, the counters and the requests have their shape.
TypeOK ==
  /\ minute \in Window /\ life \in 0 .. MaxRestarts
  /\ redis \in [Window -> [Key -> Nat]]
  /\ DOMAIN local \subseteq Key /\ \A k \in DOMAIN local : local[k] \in Bucket
  /\ pc \in [Request -> {"idle", "redis", "local", "counted", "admitted", "rejected", "lost"}]
  /\ key \in [Request -> Key] /\ window \in [Request -> Window]
  /\ count \in [Request -> Nat] /\ backend \in [Request -> {"none", "redis", "local"}]
  /\ born \in [Request -> 0 .. MaxRestarts]
  /\ reset \in [Request -> 0 .. MaxMinute + 1]

SameBudget(r, s) ==
  /\ key[r] = key[s] /\ window[r] = window[s] /\ backend[r] = backend[s]
  /\ backend[r] = "local" => born[r] = born[s]

\* No client gets more than Limit requests of a window from one counter, whichever
\* way its requests interleave with cleanups, outages, lost answers and the turn of
\* the minute.  A process's map is a counter of its own in each of its lives, so a
\* client that Redis fails half way may get up to twice the limit, not more.
BudgetKept ==
  \A r \in Request : pc[r] = "admitted" =>
    Cardinality({s \in Request : pc[s] = "admitted" /\ SameBudget(r, s)}) <= Limit

\* A request is rejected only if more than Limit requests of its key were counted in
\* its own window by the counter that counted it: budgets never leak from one window,
\* key or life of the process into another.
RejectedOverBudgetOnly ==
  \A r \in Request : pc[r] = "rejected" =>
    Cardinality({c \in charged : /\ c.key = key[r] /\ c.window = window[r]
                                 /\ c.backend = backend[r]
                                 /\ c.backend = "local" => c.life = born[r]}) > Limit

\* A rejected client that waits until X-RateLimit-Reset comes back in a later window
\* than the one that was full, even when the minute turned while it was counted.
ResetOpensNewWindow ==
  \A r \in Request : pc[r] = "rejected" => reset[r] > window[r]

\* The map does not grow with clients that have gone: after a request is counted
\* locally it holds at most Capacity buckets or only buckets of the current minute.
LocalMapBounded ==
  [][local' # local =>
       \/ Cardinality(DOMAIN local') <= Capacity
       \/ \A k \in DOMAIN local' : local'[k].window = minute]_vars
=============================================================================
