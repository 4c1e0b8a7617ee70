------------------------- MODULE RateLimiter_proofs -------------------------
(***************************************************************************)
(* Proofs about the rate limiter, for any number of clients and requests,  *)
(* any limit and any capacity of the map.                                  *)
(*                                                                         *)
(* A budget is a key, a window, a counter, and for the map of the process  *)
(* the life of that process.  The argument is that the counts given out of *)
(* one budget are distinct (Distinct), because the counter is at least as  *)
(* high as every count it has given (Numbered), and that a counter is never*)
(* higher than the increments charged to its budget (Covered).             *)
(***************************************************************************)
EXTENDS RateLimiter, FiniteSetTheorems, TLAPS

Counted(r) == pc[r] \in {"counted", "admitted", "rejected"}

Timely ==
  /\ \A r \in Request : born[r] <= life /\ window[r] <= minute
  /\ \A r \in Request : InFlight(r) => born[r] = life
  /\ \A k \in DOMAIN local : local[k].window <= minute
  /\ IsFiniteSet(DOMAIN local)

Decided ==
  \A r \in Request :
    /\ pc[r] = "admitted" => count[r] <= Limit
    /\ pc[r] = "rejected" => count[r] > Limit /\ reset[r] > window[r]

Numbered ==
  \A r \in Request : Counted(r) =>
    /\ backend[r] \in {"redis", "local"} /\ count[r] >= 1
    /\ backend[r] = "redis" => count[r] <= redis[window[r]][key[r]]
    /\ (backend[r] = "local" /\ born[r] = life /\ window[r] = minute) =>
         /\ key[r] \in DOMAIN local /\ local[key[r]].window = minute
         /\ count[r] <= local[key[r]].count

Distinct ==
  \A r, s \in Request :
    (Counted(r) /\ Counted(s) /\ SameBudget(r, s) /\ r # s) => count[r] # count[s]

Once ==
  \A r \in Request : \A c \in charged :
    /\ pc[r] \in {"idle", "redis"} => c.request # r
    /\ pc[r] = "local" => c.request # r \/ c.backend # "local"

Paid(C, k, w, who, l) ==
  {c \in C : c.key = k /\ c.window = w /\ c.backend = who /\ (c.backend = "local" => c.life = l)}

Covered ==
  /\ IsFiniteSet(charged)
  /\ \A w \in Window, k \in Key : redis[w][k] <= Cardinality(Paid(charged, k, w, "redis", 0))
  /\ \A k \in DOMAIN local :
       local[k].count <= Cardinality(Paid(charged, k, local[k].window, "local", life))
  /\ \A r \in Request : Counted(r) =>
       count[r] <= Cardinality(Paid(charged, key[r], window[r], backend[r], born[r]))

LimiterInv == TypeOK /\ Timely /\ Decided /\ Numbered /\ Distinct /\ Once /\ Covered

-----------------------------------------------------------------------------
(* Types                                                                   *)

\* Every step keeps the type invariant.
LEMMA TypeStep == TypeOK /\ [Next]_vars => TypeOK'
<1> SUFFICES ASSUME TypeOK, [Next]_vars PROVE TypeOK'
  OBVIOUS
<1>a. CASE UNCHANGED vars
  BY <1>a DEF TypeOK, vars, Bucket
<1>b. CASE Tick
  BY <1>b, LimiterAssumption DEF TypeOK, Tick, requestVars, Window, Bucket
<1>c. CASE Restart
  BY <1>c, LimiterAssumption DEF TypeOK, Restart, Window, Bucket
<1>d. ASSUME NEW r \in Request, Arrive(r) PROVE TypeOK'
  BY <1>d, LimiterAssumption DEF TypeOK, Arrive, Window, Bucket
<1>e. ASSUME NEW r \in Request, RedisCounts(r) PROVE TypeOK'
  <2>1. window[r] \in Window /\ key[r] \in Key
    BY DEF TypeOK
  <2>2. redis' \in [Window -> [Key -> Nat]]
    BY <1>e, <2>1 DEF TypeOK, RedisCounts, Incremented
  <2>3. redis'[window[r]][key[r]] \in Nat
    BY <2>1, <2>2
  <2> QED
    BY <1>e, <2>2, <2>3 DEF TypeOK, RedisCounts, Bucket
<1>f. ASSUME NEW r \in Request, RedisFails(r) PROVE TypeOK'
  BY <1>f DEF TypeOK, RedisFails, Bucket
<1>g. ASSUME NEW r \in Request, IncrementLocal(r) PROVE TypeOK'
  <2> DEFINE kept == Cleaned(local, minute)
             before == Opened(kept, key[r], minute)
             bucket == [before EXCEPT !.count = @ + 1]
  <2>1. DOMAIN kept \subseteq Key /\ \A k \in DOMAIN kept : kept[k] \in Bucket
    BY DEF TypeOK, Cleaned, Restricted
  <2>2. before \in Bucket
    BY <2>1 DEF Opened, TypeOK, Bucket, Window
  <2>3. bucket \in Bucket /\ bucket.count \in Nat
    BY <2>2 DEF Bucket
  <2>4. key[r] \in Key
    BY DEF TypeOK
  <2>5. /\ local' = [k \in DOMAIN kept \cup {key[r]} |-> IF k = key[r] THEN bucket ELSE kept[k]]
        /\ count' = [count EXCEPT ![r] = bucket.count]
        /\ window' = [window EXCEPT ![r] = minute]
        /\ backend' = [backend EXCEPT ![r] = "local"]
        /\ pc' = [pc EXCEPT ![r] = "counted"]
        /\ UNCHANGED <<minute, life, redis, key, born, reset>>
    BY <1>g DEF IncrementLocal
  <2> HIDE DEF kept, before, bucket
  <2>6. DOMAIN local' \subseteq Key /\ \A k \in DOMAIN local' : local'[k] \in Bucket
    BY <2>1, <2>3, <2>4, <2>5
  <2> QED
    BY <2>3, <2>5, <2>6 DEF TypeOK, Bucket, Window
<1>h. ASSUME NEW r \in Request, Answer(r) PROVE TypeOK'
  BY <1>h, LimiterAssumption DEF TypeOK, Answer, ResetAt, Window, Bucket
<1> QED
  BY <1>a, <1>b, <1>c, <1>d, <1>e, <1>f, <1>g, <1>h DEF Next

\* What counting a request in the map does to the map: the bucket of its key moves by
\* one, or starts at one in a new window, and the other buckets of the current minute
\* stay as they were.
LEMMA LocalStep ==
  ASSUME TypeOK, NEW r \in Request, IncrementLocal(r)
  PROVE  /\ key[r] \in DOMAIN local' /\ local'[key[r]].window = minute
         /\ count'[r] = local'[key[r]].count
         /\ (key[r] \in DOMAIN local /\ local[key[r]].window = minute)
              => count'[r] = local[key[r]].count + 1
         /\ ~(key[r] \in DOMAIN local /\ local[key[r]].window = minute) => count'[r] = 1
         /\ DOMAIN local' \subseteq DOMAIN local \cup {key[r]}
         /\ \A k \in DOMAIN local' \ {key[r]} : local'[k] = local[k]
         /\ \A k \in DOMAIN local : local[k].window = minute => k \in DOMAIN local'
<1> DEFINE kept == Cleaned(local, minute)
           before == Opened(kept, key[r], minute)
           bucket == [before EXCEPT !.count = @ + 1]
<1>1. /\ DOMAIN kept \subseteq DOMAIN local
      /\ \A k \in DOMAIN kept : kept[k] = local[k]
      /\ \A k \in DOMAIN local : local[k].window = minute => k \in DOMAIN kept
  BY DEF Cleaned, Restricted, TypeOK, Window, Bucket
<1>2. /\ (key[r] \in DOMAIN local /\ local[key[r]].window = minute) => before = local[key[r]]
      /\ ~(key[r] \in DOMAIN local /\ local[key[r]].window = minute)
           => before = [window |-> minute, count |-> 0]
  BY <1>1 DEF Opened
<1>3. before \in Bucket /\ before.window = minute
  BY <1>2 DEF TypeOK, Bucket, Window
<1>4. bucket.window = minute /\ bucket.count = before.count + 1
  BY <1>3 DEF Bucket
<1>5. /\ local' = [k \in DOMAIN kept \cup {key[r]} |-> IF k = key[r] THEN bucket ELSE kept[k]]
      /\ count' = [count EXCEPT ![r] = bucket.count]
  BY DEF IncrementLocal
<1>6. count'[r] = bucket.count
  BY <1>5 DEF TypeOK
<1>7. (key[r] \in DOMAIN local /\ local[key[r]].window = minute)
        => count'[r] = local[key[r]].count + 1
  BY <1>2, <1>4, <1>6
<1>8. ~(key[r] \in DOMAIN local /\ local[key[r]].window = minute) => count'[r] = 1
  BY <1>2, <1>4, <1>6
<1> HIDE DEF kept, before, bucket
<1> QED
  BY <1>1, <1>4, <1>5, <1>6, <1>7, <1>8

\* What counting a request leaves alone.
LEMMA LocalFrame ==
  ASSUME TypeOK, NEW r \in Request, IncrementLocal(r)
  PROVE  /\ pc[r] = "local" /\ pc' = [pc EXCEPT ![r] = "counted"]
         /\ window' = [window EXCEPT ![r] = minute]
         /\ backend' = [backend EXCEPT ![r] = "local"]
         /\ \A s \in Request : s # r => count'[s] = count[s]
         /\ minute' = minute /\ life' = life /\ redis' = redis /\ key' = key
         /\ born' = born /\ reset' = reset
BY DEF IncrementLocal, TypeOK

-----------------------------------------------------------------------------
(* The clock and the verdicts                                              *)

\* No request is ahead of the clock or of the life of the process, and no bucket of
\* the map is ahead of the clock.
LEMMA TimelyStep == TypeOK /\ TypeOK' /\ Timely /\ [Next]_vars => Timely'
<1> SUFFICES ASSUME TypeOK, TypeOK', Timely, [Next]_vars PROVE Timely'
  OBVIOUS
<1>a. CASE UNCHANGED vars
  BY <1>a DEF Timely, InFlight, vars
<1>b. CASE Tick
  BY <1>b DEF TypeOK, Timely, InFlight, Tick, requestVars, Window, Bucket
<1>c. CASE Restart
  BY <1>c, FS_EmptySet DEF TypeOK, Timely, InFlight, Restart
<1>d. ASSUME NEW r \in Request, Arrive(r) PROVE Timely'
  BY <1>d DEF TypeOK, Timely, InFlight, Arrive, Window
<1>e. ASSUME NEW r \in Request, RedisCounts(r) PROVE Timely'
  BY <1>e DEF TypeOK, Timely, InFlight, RedisCounts
<1>f. ASSUME NEW r \in Request, RedisFails(r) PROVE Timely'
  BY <1>f DEF TypeOK, Timely, InFlight, RedisFails
<1>g. ASSUME NEW r \in Request, IncrementLocal(r) PROVE Timely'
  <2>1. /\ key[r] \in DOMAIN local' /\ local'[key[r]].window = minute
        /\ DOMAIN local' \subseteq DOMAIN local \cup {key[r]}
        /\ \A k \in DOMAIN local' \ {key[r]} : local'[k] = local[k]
    BY <1>g, LocalStep
  <2>2. /\ pc[r] = "local" /\ pc' = [pc EXCEPT ![r] = "counted"]
        /\ window' = [window EXCEPT ![r] = minute]
        /\ minute' = minute /\ life' = life /\ born' = born
    BY <1>g, LocalFrame
  <2>3. IsFiniteSet(DOMAIN local \cup {key[r]})
    BY FS_AddElement DEF Timely
  <2>4. IsFiniteSet(DOMAIN local')
    BY <2>1, <2>3, FS_Subset
  <2>m. minute \in Nat
    BY LimiterAssumption DEF TypeOK, Window
  <2>5. ASSUME NEW k \in DOMAIN local' PROVE local'[k].window <= minute
    <3>1. CASE k = key[r]
      BY <2>1, <2>m, <3>1
    <3>2. CASE k # key[r]
      BY <2>1, <3>2 DEF Timely
    <3> QED
      BY <3>1, <3>2
  <2>6. \A s \in Request : born[s] <= life /\ window'[s] <= minute
    BY <2>2, LimiterAssumption DEF Timely, TypeOK, Window
  <2>7. \A s \in Request : InFlight(s)' => born[s] = life
    BY <2>2 DEF Timely, TypeOK, InFlight
  <2> QED
    BY <2>2, <2>4, <2>5, <2>6, <2>7 DEF Timely
<1>h. ASSUME NEW r \in Request, Answer(r) PROVE Timely'
  BY <1>h DEF TypeOK, Timely, InFlight, Answer
<1> QED
  BY <1>a, <1>b, <1>c, <1>d, <1>e, <1>f, <1>g, <1>h DEF Next

\* The verdict on a request follows its count, and a rejected one is told a later window.
LEMMA DecidedStep == TypeOK /\ Timely /\ Decided /\ [Next]_vars => Decided'
<1> SUFFICES ASSUME TypeOK, Timely, Decided, [Next]_vars PROVE Decided'
  OBVIOUS
<1>a. CASE UNCHANGED vars
  BY <1>a DEF Decided, vars
<1>b. CASE Tick
  BY <1>b DEF Decided, Tick, requestVars
<1>c. CASE Restart
  BY <1>c DEF TypeOK, Decided, Restart, InFlight
<1>d. ASSUME NEW r \in Request, Arrive(r) PROVE Decided'
  BY <1>d DEF TypeOK, Decided, Arrive
<1>e. ASSUME NEW r \in Request, RedisCounts(r) PROVE Decided'
  BY <1>e DEF TypeOK, Decided, RedisCounts
<1>f. ASSUME NEW r \in Request, RedisFails(r) PROVE Decided'
  BY <1>f DEF TypeOK, Decided, RedisFails
<1>g. ASSUME NEW r \in Request, IncrementLocal(r) PROVE Decided'
  <2>1. /\ pc' = [pc EXCEPT ![r] = "counted"] /\ window' = [window EXCEPT ![r] = minute]
        /\ \A s \in Request : s # r => count'[s] = count[s]
        /\ reset' = reset
    BY <1>g, LocalFrame
  <2> QED
    BY <2>1 DEF TypeOK, Decided
<1>h. ASSUME NEW r \in Request, Answer(r) PROVE Decided'
  <2>1. /\ count[r] \in Nat /\ Limit \in Nat
        /\ minute \in Nat /\ window[r] \in Nat /\ window[r] <= minute
    BY LimiterAssumption DEF TypeOK, Timely, Window
  <2>2. /\ pc'[r] = IF count[r] > Limit THEN "rejected" ELSE "admitted"
        /\ reset'[r] = minute + 1
        /\ UNCHANGED <<count, window>>
    BY <1>h DEF TypeOK, Answer, OverLimit, ResetAt
  <2>3. \A s \in Request : s # r => pc'[s] = pc[s] /\ reset'[s] = reset[s]
    BY <1>h DEF TypeOK, Answer
  <2>4. /\ pc'[r] = "admitted" => count'[r] <= Limit
        /\ pc'[r] = "rejected" => count'[r] > Limit /\ reset'[r] > window'[r]
    BY <2>1, <2>2
  <2> QED
    BY <2>2, <2>3, <2>4 DEF Decided
<1> QED
  BY <1>a, <1>b, <1>c, <1>d, <1>e, <1>f, <1>g, <1>h DEF Next

-----------------------------------------------------------------------------
(* Counters and the counts they give                                       *)

\* What counting a request in Redis does: its counter moves by one and the others stay,
\* whether or not the count is heard.
LEMMA RedisStep ==
  ASSUME TypeOK, NEW r \in Request, RedisCounts(r)
  PROVE  /\ redis'[window[r]][key[r]] = redis[window[r]][key[r]] + 1
         /\ \A w \in Window, k \in Key :
              (w # window[r] \/ k # key[r]) => redis'[w][k] = redis[w][k]
         /\ \A s \in Request : s # r =>
              pc'[s] = pc[s] /\ count'[s] = count[s] /\ backend'[s] = backend[s]
         /\ \/ pc'[r] = "local"
            \/ /\ pc'[r] = "counted" /\ backend'[r] = "redis"
               /\ count'[r] = redis'[window[r]][key[r]]
         /\ pc[r] = "redis"
         /\ UNCHANGED <<minute, life, local, key, window, born, reset>>
<1>1. window[r] \in Window /\ key[r] \in Key
  BY DEF TypeOK
<1>2. redis' = [redis EXCEPT ![window[r]][key[r]] = @ + 1]
  BY DEF RedisCounts, Incremented
<1>3. /\ redis'[window[r]][key[r]] = redis[window[r]][key[r]] + 1
      /\ \A w \in Window, k \in Key :
           (w # window[r] \/ k # key[r]) => redis'[w][k] = redis[w][k]
  BY <1>1, <1>2 DEF TypeOK
<1>4. /\ \A s \in Request : s # r =>
           pc'[s] = pc[s] /\ count'[s] = count[s] /\ backend'[s] = backend[s]
      /\ \/ pc'[r] = "local"
         \/ /\ pc'[r] = "counted" /\ backend'[r] = "redis"
            /\ count'[r] = redis'[window[r]][key[r]]
  BY DEF TypeOK, RedisCounts
<1> QED
  BY <1>3, <1>4 DEF RedisCounts

\* A counter is never below a count it has given in the budget that is still open.
LEMMA NumberedStep == TypeOK /\ TypeOK' /\ Timely /\ Numbered /\ [Next]_vars => Numbered'
<1> SUFFICES ASSUME TypeOK, TypeOK', Timely, Numbered, [Next]_vars PROVE Numbered'
  OBVIOUS
<1>a. CASE UNCHANGED vars
  BY <1>a DEF Numbered, Counted, vars
<1>b. CASE Tick
  <2>1. \A s \in Request : window[s] < minute'
    BY <1>b, LimiterAssumption DEF Tick, Timely, TypeOK, Window
  <2>2. UNCHANGED <<life, redis, local, pc, key, window, count, backend, born>>
    BY <1>b DEF Tick, requestVars
  <2>3. \A s \in Request : window'[s] # minute'
    BY <2>1, <2>2, LimiterAssumption DEF TypeOK, Window
  <2> QED
    BY <2>2, <2>3 DEF Numbered, Counted
<1>c. CASE Restart
  <2>1. \A s \in Request : born[s] # life'
    BY <1>c, LimiterAssumption DEF Restart, Timely, TypeOK
  <2>2. \A s \in Request : Counted(s)' => Counted(s)
    BY <1>c DEF Restart, Counted, InFlight, TypeOK
  <2>3. UNCHANGED <<minute, redis, key, window, count, backend, born>>
    BY <1>c DEF Restart
  <2>4. \A s \in Request : born'[s] # life'
    BY <2>1, <2>3
  <2> QED
    BY <2>2, <2>3, <2>4 DEF Numbered
<1>d. ASSUME NEW r \in Request, Arrive(r) PROVE Numbered'
  BY <1>d DEF TypeOK, Numbered, Counted, Arrive
<1>e. ASSUME NEW r \in Request, RedisCounts(r) PROVE Numbered'
  <2> SUFFICES ASSUME NEW s \in Request, Counted(s)'
               PROVE  /\ backend'[s] \in {"redis", "local"} /\ count'[s] >= 1
                      /\ backend'[s] = "redis" => count'[s] <= redis'[window'[s]][key'[s]]
                      /\ (backend'[s] = "local" /\ born'[s] = life' /\ window'[s] = minute') =>
                           /\ key'[s] \in DOMAIN local' /\ local'[key'[s]].window = minute'
                           /\ count'[s] <= local'[key'[s]].count
    BY DEF Numbered
  <2>t. /\ window[s] \in Window /\ key[s] \in Key /\ window[r] \in Window /\ key[r] \in Key
        /\ redis[window[s]][key[s]] \in Nat /\ redis'[window[s]][key[s]] \in Nat
        /\ redis[window[r]][key[r]] \in Nat /\ count[s] \in Nat /\ count'[s] \in Nat
    BY DEF TypeOK
  <2>1. UNCHANGED <<minute, life, local, key, window, born>>
    BY <1>e, RedisStep
  <2>2. redis[window[s]][key[s]] <= redis'[window[s]][key[s]]
    BY <1>e, <2>t, RedisStep
  <2>3. CASE s = r
    <3>1. /\ backend'[r] = "redis" /\ count'[r] = redis'[window[r]][key[r]]
          /\ redis'[window[r]][key[r]] = redis[window[r]][key[r]] + 1
      BY <1>e, <2>3, RedisStep DEF Counted
    <3> QED
      BY <2>1, <2>3, <2>t, <3>1
  <2>4. CASE s # r
    <3>1. pc'[s] = pc[s] /\ count'[s] = count[s] /\ backend'[s] = backend[s]
      BY <1>e, <2>4, RedisStep
    <3>2. Counted(s)
      BY <3>1 DEF Counted
    <3> QED
      BY <2>1, <2>2, <2>t, <3>1, <3>2 DEF Numbered
  <2> QED
    BY <2>3, <2>4
<1>f. ASSUME NEW r \in Request, RedisFails(r) PROVE Numbered'
  BY <1>f DEF TypeOK, Numbered, Counted, RedisFails
<1>g. ASSUME NEW r \in Request, IncrementLocal(r) PROVE Numbered'
  <2> SUFFICES ASSUME NEW s \in Request, Counted(s)'
               PROVE  /\ backend'[s] \in {"redis", "local"} /\ count'[s] >= 1
                      /\ backend'[s] = "redis" => count'[s] <= redis'[window'[s]][key'[s]]
                      /\ (backend'[s] = "local" /\ born'[s] = life' /\ window'[s] = minute') =>
                           /\ key'[s] \in DOMAIN local' /\ local'[key'[s]].window = minute'
                           /\ count'[s] <= local'[key'[s]].count
    BY DEF Numbered
  <2>1. /\ key[r] \in DOMAIN local' /\ local'[key[r]].window = minute
        /\ count'[r] = local'[key[r]].count
        /\ (key[r] \in DOMAIN local /\ local[key[r]].window = minute)
             => count'[r] = local[key[r]].count + 1
        /\ ~(key[r] \in DOMAIN local /\ local[key[r]].window = minute) => count'[r] = 1
        /\ \A k \in DOMAIN local' \ {key[r]} : local'[k] = local[k]
        /\ \A k \in DOMAIN local : local[k].window = minute => k \in DOMAIN local'
    BY <1>g, LocalStep
  <2>2. /\ pc' = [pc EXCEPT ![r] = "counted"]
        /\ window' = [window EXCEPT ![r] = minute]
        /\ backend' = [backend EXCEPT ![r] = "local"]
        /\ \A q \in Request : q # r => count'[q] = count[q]
        /\ UNCHANGED <<minute, life, redis, key, born>>
    BY <1>g, LocalFrame
  <2>3. /\ \A k \in DOMAIN local : local[k].count \in Nat
        /\ count'[r] \in Nat
    BY DEF TypeOK, Bucket
  <2>4. CASE s = r
    <3>1. backend'[s] = "local"
      BY <2>2, <2>4 DEF TypeOK
    <3>2. count'[s] >= 1
      BY <2>1, <2>3, <2>4
    <3> QED
      BY <2>1, <2>2, <2>3, <2>4, <3>1, <3>2
  <2>5. CASE s # r
    <3>1. /\ pc'[s] = pc[s] /\ window'[s] = window[s] /\ backend'[s] = backend[s]
          /\ count'[s] = count[s]
      BY <2>2, <2>5 DEF TypeOK
    <3>2. Counted(s)
      BY <3>1 DEF Counted
    <3>3. /\ backend[s] \in {"redis", "local"} /\ count[s] >= 1
          /\ backend[s] = "redis" => count[s] <= redis[window[s]][key[s]]
      BY <3>2 DEF Numbered
    <3>4. ASSUME backend[s] = "local", born[s] = life, window[s] = minute
          PROVE  /\ key[s] \in DOMAIN local' /\ local'[key[s]].window = minute
                 /\ count[s] <= local'[key[s]].count
      <4>1. /\ key[s] \in DOMAIN local /\ local[key[s]].window = minute
            /\ count[s] <= local[key[s]].count
        BY <3>2, <3>4 DEF Numbered
      <4>2. CASE key[s] = key[r]
        <5>1. count'[r] = local[key[s]].count + 1
          BY <2>1, <4>1, <4>2
        <5>2. count[s] \in Nat /\ local[key[s]].count \in Nat
          BY <4>1, <2>3 DEF TypeOK
        <5> QED
          BY <2>1, <4>1, <4>2, <5>1, <5>2
      <4>3. CASE key[s] # key[r]
        BY <2>1, <4>1, <4>3
      <4> QED
        BY <4>2, <4>3
    <3> QED
      BY <2>2, <3>1, <3>3, <3>4
  <2> QED
    BY <2>4, <2>5
<1>h. ASSUME NEW r \in Request, Answer(r) PROVE Numbered'
  <2>1. \A s \in Request : Counted(s)' => Counted(s)
    BY <1>h DEF TypeOK, Counted, Answer
  <2>2. UNCHANGED <<minute, life, redis, local, key, window, count, backend, born>>
    BY <1>h DEF Answer
  <2> QED
    BY <2>1, <2>2 DEF Numbered
<1> QED
  BY <1>a, <1>b, <1>c, <1>d, <1>e, <1>f, <1>g, <1>h DEF Next

\* A budget that stays the same budget.
LEMMA BudgetFrame ==
  ASSUME NEW r \in Request, NEW s \in Request,
         key' = key, window'[r] = window[r], window'[s] = window[s],
         backend'[r] = backend[r], backend'[s] = backend[s],
         born'[r] = born[r], born'[s] = born[s]
  PROVE  SameBudget(r, s)' <=> SameBudget(r, s)
BY DEF SameBudget

\* A count that is given anew differs from every count of the same budget.
LEMMA NewCountDistinct ==
  ASSUME TypeOK, TypeOK', Timely, Numbered, NEW r \in Request, NEW s \in Request, s # r,
         RedisCounts(r) \/ IncrementLocal(r),
         Counted(r)', Counted(s)', SameBudget(r, s)'
  PROVE  count'[r] # count'[s]
<1>1. CASE RedisCounts(r)
  <2>1. /\ backend'[r] = "redis" /\ count'[r] = redis[window[r]][key[r]] + 1
        /\ pc'[s] = pc[s] /\ count'[s] = count[s] /\ backend'[s] = backend[s]
        /\ UNCHANGED <<key, window>>
    BY <1>1, RedisStep DEF Counted
  <2>2. Counted(s) /\ backend[s] = "redis" /\ key[s] = key[r] /\ window[s] = window[r]
    BY <2>1 DEF SameBudget, Counted
  <2>3. count[s] <= redis[window[r]][key[r]]
    BY <2>2 DEF Numbered
  <2>4. count[s] \in Nat /\ redis[window[r]][key[r]] \in Nat
    BY DEF TypeOK
  <2> QED
    BY <2>1, <2>3, <2>4
<1>2. CASE IncrementLocal(r)
  <2>1. /\ pc[r] = "local" /\ pc' = [pc EXCEPT ![r] = "counted"]
        /\ window' = [window EXCEPT ![r] = minute]
        /\ backend' = [backend EXCEPT ![r] = "local"]
        /\ count'[s] = count[s] /\ UNCHANGED <<key, born>>
    BY <1>2, LocalFrame
  <2>2. /\ backend'[r] = "local" /\ window'[r] = minute /\ born[r] = life
    BY <2>1 DEF TypeOK, Timely, InFlight
  <2>3. pc'[s] = pc[s] /\ window'[s] = window[s] /\ backend'[s] = backend[s]
    BY <2>1 DEF TypeOK
  <2>4. /\ Counted(s) /\ backend[s] = "local" /\ key[s] = key[r]
        /\ window[s] = minute /\ born[s] = life
    BY <2>1, <2>2, <2>3 DEF SameBudget, Counted
  <2>5. /\ key[r] \in DOMAIN local /\ local[key[r]].window = minute
        /\ count[s] <= local[key[r]].count
    BY <2>4 DEF Numbered
  <2>6. count'[r] = local[key[r]].count + 1
    BY <1>2, <2>5, LocalStep
  <2>7. count[s] \in Nat /\ local[key[r]].count \in Nat
    BY <2>5 DEF TypeOK, Bucket
  <2> QED
    BY <2>1, <2>5, <2>6, <2>7
<1> QED
  BY <1>1, <1>2

\* No two requests of one budget are given the same count.
LEMMA DistinctStep ==
  TypeOK /\ TypeOK' /\ Timely /\ Numbered /\ Distinct /\ [Next]_vars => Distinct'
<1> SUFFICES ASSUME TypeOK, TypeOK', Timely, Numbered, Distinct, [Next]_vars,
                    NEW q \in Request, NEW s \in Request,
                    Counted(q)', Counted(s)', SameBudget(q, s)', q # s
             PROVE  count'[q] # count'[s]
  BY DEF Distinct
<1> DEFINE Kept(r) == /\ Counted(r) /\ count'[r] = count[r] /\ window'[r] = window[r]
                      /\ backend'[r] = backend[r] /\ born'[r] = born[r]
<1>0. key' = key
  BY DEF Next, vars, Tick, requestVars, Restart, Arrive, RedisCounts, RedisFails,
         IncrementLocal, Answer
<1>k. ASSUME Kept(q), Kept(s) PROVE count'[q] # count'[s]
  <2>1. SameBudget(q, s)
    BY <1>0, <1>k, BudgetFrame
  <2> QED
    BY <1>k, <2>1 DEF Distinct
<1>a. CASE UNCHANGED vars
  BY <1>a, <1>k DEF vars, Counted
<1>b. CASE Tick
  BY <1>b, <1>k DEF Tick, requestVars, Counted
<1>c. CASE Restart
  BY <1>c, <1>k DEF Restart, InFlight, TypeOK, Counted
<1>d. ASSUME NEW r \in Request, Arrive(r) PROVE count'[q] # count'[s]
  <2>1. \A p \in Request : Counted(p)' => Kept(p)
    BY <1>d DEF Arrive, TypeOK, Counted
  <2> QED
    BY <1>k, <2>1
<1>e. ASSUME NEW r \in Request, RedisCounts(r) PROVE count'[q] # count'[s]
  <2>1. \A p \in Request : p # r /\ Counted(p)' => Kept(p)
    BY <1>e, RedisStep DEF Counted
  <2>2. CASE q = r
    BY <1>e, <2>2, NewCountDistinct
  <2>3. CASE s = r
    <3>1. SameBudget(s, q)'
      BY DEF SameBudget
    <3> QED
      BY <1>e, <2>3, <3>1, NewCountDistinct
  <2> QED
    BY <1>k, <2>1, <2>2, <2>3
<1>f. ASSUME NEW r \in Request, RedisFails(r) PROVE count'[q] # count'[s]
  <2>1. \A p \in Request : Counted(p)' => Kept(p)
    BY <1>f DEF RedisFails, TypeOK, Counted
  <2> QED
    BY <1>k, <2>1
<1>g. ASSUME NEW r \in Request, IncrementLocal(r) PROVE count'[q] # count'[s]
  <2>1. \A p \in Request : p # r /\ Counted(p)' => Kept(p)
    <3>1. /\ pc' = [pc EXCEPT ![r] = "counted"]
          /\ window' = [window EXCEPT ![r] = minute]
          /\ backend' = [backend EXCEPT ![r] = "local"]
          /\ \A p \in Request : p # r => count'[p] = count[p]
          /\ born' = born
      BY <1>g, LocalFrame
    <3> QED
      BY <3>1 DEF TypeOK, Counted
  <2>2. CASE q = r
    BY <1>g, <2>2, NewCountDistinct
  <2>3. CASE s = r
    <3>1. SameBudget(s, q)'
      BY DEF SameBudget
    <3> QED
      BY <1>g, <2>3, <3>1, NewCountDistinct
  <2> QED
    BY <1>k, <2>1, <2>2, <2>3
<1>h. ASSUME NEW r \in Request, Answer(r) PROVE count'[q] # count'[s]
  <2>1. \A p \in Request : Counted(p)' => Kept(p)
    BY <1>h DEF Answer, TypeOK, Counted
  <2> QED
    BY <1>k, <2>1
<1> QED
  BY <1>a, <1>b, <1>c, <1>d, <1>e, <1>f, <1>g, <1>h DEF Next

-----------------------------------------------------------------------------
(* Counters and the increments charged to them                             *)

\* A request is charged at most once in Redis and once in the map.
LEMMA OnceStep == TypeOK /\ Once /\ [Next]_vars => Once'
<1> SUFFICES ASSUME TypeOK, Once, [Next]_vars PROVE Once'
  OBVIOUS
<1>a. CASE UNCHANGED vars
  BY <1>a DEF Once, vars
<1>b. CASE Tick
  BY <1>b DEF Once, Tick, requestVars
<1>c. CASE Restart
  BY <1>c DEF TypeOK, Once, Restart, InFlight
<1>d. ASSUME NEW r \in Request, Arrive(r) PROVE Once'
  BY <1>d DEF TypeOK, Once, Arrive
<1>e. ASSUME NEW r \in Request, RedisCounts(r) PROVE Once'
  <2> DEFINE e == [request |-> r, key |-> key[r], window |-> window[r],
                   backend |-> "redis", life |-> life]
  <2>1. charged' = charged \cup {e}
    BY <1>e DEF RedisCounts, Charge
  <2>2. e.request = r /\ e.backend = "redis"
    OBVIOUS
  <2>3. /\ pc[r] = "redis" /\ pc'[r] \in {"counted", "local"}
        /\ \A s \in Request : s # r => pc'[s] = pc[s]
    BY <1>e DEF TypeOK, RedisCounts
  <2> HIDE DEF e
  <2> QED
    BY <2>1, <2>2, <2>3 DEF Once
<1>f. ASSUME NEW r \in Request, RedisFails(r) PROVE Once'
  BY <1>f DEF TypeOK, Once, RedisFails
<1>g. ASSUME NEW r \in Request, IncrementLocal(r) PROVE Once'
  <2> DEFINE e == [request |-> r, key |-> key[r], window |-> minute,
                   backend |-> "local", life |-> life]
  <2>1. charged' = charged \cup {e}
    BY <1>g DEF IncrementLocal, Charge
  <2>2. e.request = r /\ e.backend = "local"
    OBVIOUS
  <2>3. pc' = [pc EXCEPT ![r] = "counted"]
    BY <1>g, LocalFrame
  <2>4. pc'[r] = "counted" /\ \A s \in Request : s # r => pc'[s] = pc[s]
    BY <2>3 DEF TypeOK
  <2> HIDE DEF e
  <2> QED
    BY <2>1, <2>2, <2>4 DEF Once
<1>h. ASSUME NEW r \in Request, Answer(r) PROVE Once'
  BY <1>h DEF TypeOK, Once, Answer
<1> QED
  BY <1>a, <1>b, <1>c, <1>d, <1>e, <1>f, <1>g, <1>h DEF Next

\* One more charge adds at most one to what a budget has paid, and exactly one when it
\* is new and of that budget.
LEMMA PaidGrows ==
  ASSUME NEW C, IsFiniteSet(C), NEW e, NEW k, NEW w, NEW who, NEW l
  PROVE  /\ IsFiniteSet(C \cup {e})
         /\ Cardinality(Paid(C, k, w, who, l)) \in Nat
         /\ Cardinality(Paid(C \cup {e}, k, w, who, l)) \in Nat
         /\ Cardinality(Paid(C, k, w, who, l)) <= Cardinality(Paid(C \cup {e}, k, w, who, l))
         /\ (e \notin C /\ e \in Paid({e}, k, w, who, l)) =>
              Cardinality(Paid(C \cup {e}, k, w, who, l)) = Cardinality(Paid(C, k, w, who, l)) + 1
<1> DEFINE P == Paid(C, k, w, who, l)
           Q == Paid(C \cup {e}, k, w, who, l)
<1>1. P \subseteq C /\ Q \subseteq C \cup {e} /\ P \subseteq Q
  BY DEF Paid
<1>2. IsFiniteSet(C \cup {e})
  BY FS_AddElement
<1>3. IsFiniteSet(P) /\ IsFiniteSet(Q)
  BY <1>1, <1>2, FS_Subset
<1>4. Cardinality(P) \in Nat /\ Cardinality(Q) \in Nat
  BY <1>3, FS_CardinalityType
<1>5. Cardinality(P) <= Cardinality(Q)
  BY <1>1, <1>3, FS_Subset
<1>6. ASSUME e \notin C, e \in Paid({e}, k, w, who, l)
      PROVE  Cardinality(Q) = Cardinality(P) + 1
  <2>1. Q = P \cup {e} /\ e \notin P
    BY <1>6 DEF Paid
  <2> QED
    BY <1>3, <2>1, FS_AddElement
<1> QED
  BY <1>2, <1>4, <1>5, <1>6

\* Redis counters do not depend on the life of the process.
LEMMA RedisPaid ==
  ASSUME NEW C, NEW k, NEW w, NEW l, NEW m
  PROVE  Paid(C, k, w, "redis", l) = Paid(C, k, w, "redis", m)
BY DEF Paid

\* A step that charges nothing and moves no counter keeps counters covered.
LEMMA CoveredFrame ==
  ASSUME Covered, charged' = charged, redis' = redis,
         \/ local' = local /\ life' = life
         \/ DOMAIN local' = {},
         \A s \in Request : Counted(s)' =>
           /\ Counted(s) /\ key'[s] = key[s] /\ window'[s] = window[s]
           /\ backend'[s] = backend[s] /\ born'[s] = born[s] /\ count'[s] = count[s]
  PROVE  Covered'
<1>1. \A k \in DOMAIN local' :
        local'[k].count <= Cardinality(Paid(charged', k, local'[k].window, "local", life'))
  BY DEF Covered
<1>2. \A s \in Request : Counted(s)' =>
        count'[s] <= Cardinality(Paid(charged', key'[s], window'[s], backend'[s], born'[s]))
  BY DEF Covered
<1> QED
  BY <1>1, <1>2 DEF Covered

\* A counter never exceeds what has been charged to its budget.
LEMMA CoveredStep ==
  TypeOK /\ TypeOK' /\ Timely /\ Once /\ Covered /\ [Next]_vars => Covered'
<1> SUFFICES ASSUME TypeOK, TypeOK', Timely, Once, Covered, [Next]_vars PROVE Covered'
  OBVIOUS
<1>a. CASE UNCHANGED vars
  BY <1>a, CoveredFrame DEF vars, Counted
<1>b. CASE Tick
  BY <1>b, CoveredFrame DEF Tick, requestVars, Counted
<1>c. CASE Restart
  <2>1. charged' = charged /\ redis' = redis /\ DOMAIN local' = {}
    BY <1>c DEF Restart
  <2>2. \A s \in Request : Counted(s)' =>
           /\ Counted(s) /\ key'[s] = key[s] /\ window'[s] = window[s]
           /\ backend'[s] = backend[s] /\ born'[s] = born[s] /\ count'[s] = count[s]
    BY <1>c DEF Restart, InFlight, TypeOK, Counted
  <2> QED
    BY <2>1, <2>2, CoveredFrame
<1>d. ASSUME NEW r \in Request, Arrive(r) PROVE Covered'
  BY <1>d, CoveredFrame DEF Arrive, TypeOK, Counted
<1>e. ASSUME NEW r \in Request, RedisCounts(r) PROVE Covered'
  <2> DEFINE e == [request |-> r, key |-> key[r], window |-> window[r],
                   backend |-> "redis", life |-> life]
  <2>1. charged' = charged \cup {e}
    BY <1>e DEF RedisCounts, Charge
  <2>2. /\ redis'[window[r]][key[r]] = redis[window[r]][key[r]] + 1
        /\ \A w \in Window, k \in Key :
             (w # window[r] \/ k # key[r]) => redis'[w][k] = redis[w][k]
        /\ \A s \in Request : s # r =>
             pc'[s] = pc[s] /\ count'[s] = count[s] /\ backend'[s] = backend[s]
        /\ \/ pc'[r] = "local"
           \/ /\ pc'[r] = "counted" /\ backend'[r] = "redis"
              /\ count'[r] = redis'[window[r]][key[r]]
        /\ pc[r] = "redis"
        /\ UNCHANGED <<minute, life, local, key, window, born>>
    BY <1>e, RedisStep
  <2>3. \A c \in charged : c.request # r
    BY <2>2 DEF Once
  <2>4. e.request = r /\ e.key = key[r] /\ e.window = window[r] /\ e.backend = "redis"
    OBVIOUS
  <2> HIDE DEF e
  <2>5. e \notin charged
    BY <2>3, <2>4
  <2>6. \A l : e \in Paid({e}, key[r], window[r], "redis", l)
    BY <2>4 DEF Paid
  <2>7. IsFiniteSet(charged)
    BY DEF Covered
  <2>8. \A k, w, who, l :
          /\ Cardinality(Paid(charged, k, w, who, l)) \in Nat
          /\ Cardinality(Paid(charged', k, w, who, l)) \in Nat
          /\ Cardinality(Paid(charged, k, w, who, l)) <= Cardinality(Paid(charged', k, w, who, l))
    BY <2>1, <2>7, PaidGrows
  <2>9. \A l : Cardinality(Paid(charged', key[r], window[r], "redis", l))
               = Cardinality(Paid(charged, key[r], window[r], "redis", l)) + 1
    BY <2>1, <2>5, <2>6, <2>7, PaidGrows
  <2>10. IsFiniteSet(charged')
    BY <2>1, <2>7, FS_AddElement
  <2>11. ASSUME NEW w \in Window, NEW k \in Key
         PROVE  redis'[w][k] <= Cardinality(Paid(charged', k, w, "redis", 0))
    <3>1. redis[w][k] <= Cardinality(Paid(charged, k, w, "redis", 0)) /\ redis[w][k] \in Nat
      BY DEF Covered, TypeOK
    <3>2. CASE w = window[r] /\ k = key[r]
      <4>1. redis'[w][k] = redis[w][k] + 1
        BY <2>2, <3>2
      <4>2. Cardinality(Paid(charged', k, w, "redis", 0))
            = Cardinality(Paid(charged, k, w, "redis", 0)) + 1
        BY <2>9, <3>2
      <4>3. Cardinality(Paid(charged, k, w, "redis", 0)) \in Nat
        BY <2>8
      <4> QED
        BY <3>1, <4>1, <4>2, <4>3
    <3>3. CASE w # window[r] \/ k # key[r]
      <4>1. redis'[w][k] = redis[w][k]
        BY <2>2, <3>3
      <4> QED
        BY <2>8, <3>1, <4>1
    <3> QED
      BY <3>2, <3>3
  <2>12. ASSUME NEW k \in DOMAIN local'
         PROVE  local'[k].count <= Cardinality(Paid(charged', k, local'[k].window, "local", life'))
    <3>1. local' = local /\ life' = life
      BY <2>2
    <3>2. local[k].count <= Cardinality(Paid(charged, k, local[k].window, "local", life))
      BY <3>1 DEF Covered
    <3>3. local[k].count \in Nat
      BY <3>1 DEF TypeOK, Bucket
    <3>4. Cardinality(Paid(charged, k, local[k].window, "local", life))
          <= Cardinality(Paid(charged', k, local[k].window, "local", life))
      BY <2>8
    <3>5. /\ Cardinality(Paid(charged, k, local[k].window, "local", life)) \in Nat
          /\ Cardinality(Paid(charged', k, local[k].window, "local", life)) \in Nat
      BY <2>8
    <3> QED
      BY <3>1, <3>2, <3>3, <3>4, <3>5
  <2>13. ASSUME NEW s \in Request, Counted(s)'
         PROVE  count'[s] <= Cardinality(Paid(charged', key'[s], window'[s], backend'[s], born'[s]))
    <3>1. CASE s = r
      <4>1. /\ backend'[r] = "redis" /\ count'[r] = redis'[window[r]][key[r]]
            /\ key' = key /\ window' = window
        BY <2>2, <2>13, <3>1 DEF Counted
      <4>2. count'[r] <= Cardinality(Paid(charged', key[r], window[r], "redis", 0))
        BY <2>11, <4>1 DEF TypeOK
      <4>3. Paid(charged', key[r], window[r], "redis", 0)
            = Paid(charged', key[r], window[r], "redis", born'[r])
        BY RedisPaid
      <4> QED
        BY <3>1, <4>1, <4>2, <4>3
    <3>2. CASE s # r
      <4>1. /\ pc'[s] = pc[s] /\ count'[s] = count[s] /\ backend'[s] = backend[s]
            /\ key' = key /\ window' = window /\ born' = born
        BY <2>2, <3>2
      <4>2. count[s] <= Cardinality(Paid(charged, key[s], window[s], backend[s], born[s]))
        BY <2>13, <4>1 DEF Counted, Covered
      <4>3. /\ count[s] \in Nat
            /\ Cardinality(Paid(charged, key[s], window[s], backend[s], born[s])) \in Nat
            /\ Cardinality(Paid(charged', key[s], window[s], backend[s], born[s])) \in Nat
            /\ Cardinality(Paid(charged, key[s], window[s], backend[s], born[s]))
                <= Cardinality(Paid(charged', key[s], window[s], backend[s], born[s]))
        BY <2>8 DEF TypeOK
      <4> QED
        BY <4>1, <4>2, <4>3
    <3> QED
      BY <3>1, <3>2
  <2> QED
    BY <2>10, <2>11, <2>12, <2>13 DEF Covered
<1>f. ASSUME NEW r \in Request, RedisFails(r) PROVE Covered'
  BY <1>f, CoveredFrame DEF RedisFails, TypeOK, Counted
<1>g. ASSUME NEW r \in Request, IncrementLocal(r) PROVE Covered'
  <2> DEFINE e == [request |-> r, key |-> key[r], window |-> minute,
                   backend |-> "local", life |-> life]
  <2>1. charged' = charged \cup {e}
    BY <1>g DEF IncrementLocal, Charge
  <2>2. /\ pc[r] = "local" /\ pc' = [pc EXCEPT ![r] = "counted"]
        /\ window' = [window EXCEPT ![r] = minute]
        /\ backend' = [backend EXCEPT ![r] = "local"]
        /\ \A s \in Request : s # r => count'[s] = count[s]
        /\ UNCHANGED <<minute, life, redis, key, born>>
    BY <1>g, LocalFrame
  <2>3. \A c \in charged : c.request # r \/ c.backend # "local"
    BY <2>2 DEF Once
  <2>4. /\ e.request = r /\ e.key = key[r] /\ e.window = minute /\ e.backend = "local"
        /\ e.life = life
    OBVIOUS
  <2> HIDE DEF e
  <2>5. e \notin charged
    BY <2>3, <2>4
  <2>6. e \in Paid({e}, key[r], minute, "local", life)
    BY <2>4 DEF Paid
  <2>7. IsFiniteSet(charged)
    BY DEF Covered
  <2>8. \A k, w, who, l :
          /\ Cardinality(Paid(charged, k, w, who, l)) \in Nat
          /\ Cardinality(Paid(charged', k, w, who, l)) \in Nat
          /\ Cardinality(Paid(charged, k, w, who, l)) <= Cardinality(Paid(charged', k, w, who, l))
    BY <2>1, <2>7, PaidGrows
  <2>9. Cardinality(Paid(charged', key[r], minute, "local", life))
        = Cardinality(Paid(charged, key[r], minute, "local", life)) + 1
    BY <2>1, <2>5, <2>6, <2>7, PaidGrows
  <2>10. IsFiniteSet(charged')
    BY <2>1, <2>7, FS_AddElement
  <2>11. ASSUME NEW w \in Window, NEW k \in Key
         PROVE  redis'[w][k] <= Cardinality(Paid(charged', k, w, "redis", 0))
    <3>1. redis'[w][k] <= Cardinality(Paid(charged, k, w, "redis", 0)) /\ redis'[w][k] \in Nat
      BY <2>2 DEF Covered, TypeOK
    <3>2. /\ Cardinality(Paid(charged, k, w, "redis", 0)) \in Nat
          /\ Cardinality(Paid(charged', k, w, "redis", 0)) \in Nat
          /\ Cardinality(Paid(charged, k, w, "redis", 0))
              <= Cardinality(Paid(charged', k, w, "redis", 0))
      BY <2>8
    <3> QED
      BY <3>1, <3>2
  <2>c. count'[r] <= Cardinality(Paid(charged', key[r], minute, "local", life))
    <3>1. CASE key[r] \in DOMAIN local /\ local[key[r]].window = minute
      <4>1. count'[r] = local[key[r]].count + 1
        BY <1>g, <3>1, LocalStep
      <4>2. local[key[r]].count <= Cardinality(Paid(charged, key[r], minute, "local", life))
        BY <3>1 DEF Covered
      <4>3. local[key[r]].count \in Nat
        BY <3>1 DEF TypeOK, Bucket
      <4>4. Cardinality(Paid(charged, key[r], minute, "local", life)) \in Nat
        BY <2>8
      <4> QED
        BY <2>9, <4>1, <4>2, <4>3, <4>4
    <3>2. CASE ~(key[r] \in DOMAIN local /\ local[key[r]].window = minute)
      <4>1. count'[r] = 1
        BY <1>g, <3>2, LocalStep
      <4>2. Cardinality(Paid(charged, key[r], minute, "local", life)) \in Nat
        BY <2>8
      <4> QED
        BY <2>9, <4>1, <4>2
    <3> QED
      BY <3>1, <3>2
  <2>12. ASSUME NEW k \in DOMAIN local'
         PROVE  local'[k].count <= Cardinality(Paid(charged', k, local'[k].window, "local", life'))
    <3>1. CASE k = key[r]
      <4>1. local'[k].window = minute /\ local'[k].count = count'[r]
        BY <1>g, <3>1, LocalStep
      <4> QED
        BY <2>2, <2>c, <3>1, <4>1
    <3>2. CASE k # key[r]
      <4>1. k \in DOMAIN local /\ local'[k] = local[k]
        BY <1>g, <2>12, <3>2, LocalStep
      <4>2. local[k].count <= Cardinality(Paid(charged, k, local[k].window, "local", life))
        BY <4>1 DEF Covered
      <4>3. local[k].count \in Nat
        BY <4>1 DEF TypeOK, Bucket
      <4>4. /\ Cardinality(Paid(charged, k, local[k].window, "local", life)) \in Nat
            /\ Cardinality(Paid(charged', k, local[k].window, "local", life)) \in Nat
            /\ Cardinality(Paid(charged, k, local[k].window, "local", life))
                <= Cardinality(Paid(charged', k, local[k].window, "local", life))
        BY <2>8
      <4>5. life' = life
        BY <2>2
      <4> QED
        BY <4>1, <4>2, <4>3, <4>4, <4>5
    <3> QED
      BY <3>1, <3>2
  <2>13. ASSUME NEW s \in Request, Counted(s)'
         PROVE  count'[s] <= Cardinality(Paid(charged', key'[s], window'[s], backend'[s], born'[s]))
    <3>1. CASE s = r
      <4>1. backend'[r] = "local" /\ window'[r] = minute /\ key' = key
        BY <2>2 DEF TypeOK
      <4>2. born'[r] = life
        BY <2>2 DEF Timely, InFlight
      <4> QED
        BY <2>c, <3>1, <4>1, <4>2
    <3>2. CASE s # r
      <4>1. /\ pc'[s] = pc[s] /\ count'[s] = count[s] /\ backend'[s] = backend[s]
            /\ window'[s] = window[s] /\ key' = key /\ born' = born
        BY <2>2, <3>2 DEF TypeOK
      <4>2. count[s] <= Cardinality(Paid(charged, key[s], window[s], backend[s], born[s]))
        BY <2>13, <4>1 DEF Counted, Covered
      <4>3. /\ count[s] \in Nat
            /\ Cardinality(Paid(charged, key[s], window[s], backend[s], born[s])) \in Nat
            /\ Cardinality(Paid(charged', key[s], window[s], backend[s], born[s])) \in Nat
            /\ Cardinality(Paid(charged, key[s], window[s], backend[s], born[s]))
                <= Cardinality(Paid(charged', key[s], window[s], backend[s], born[s]))
        BY <2>8 DEF TypeOK
      <4> QED
        BY <4>1, <4>2, <4>3
    <3> QED
      BY <3>1, <3>2
  <2> QED
    BY <2>10, <2>11, <2>12, <2>13 DEF Covered
<1>h. ASSUME NEW r \in Request, Answer(r) PROVE Covered'
  BY <1>h, CoveredFrame DEF Answer, TypeOK, Counted
<1> QED
  BY <1>a, <1>b, <1>c, <1>d, <1>e, <1>f, <1>g, <1>h DEF Next

-----------------------------------------------------------------------------
(* Theorems                                                                *)

\* The empty counters and the idle requests satisfy the invariant.
LEMMA LimiterInit == Init => LimiterInv
<1> SUFFICES ASSUME Init PROVE LimiterInv
  OBVIOUS
<1>1. TypeOK
  BY LimiterAssumption DEF Init, TypeOK, Window, Bucket
<1>2. Timely
  BY LimiterAssumption, FS_EmptySet DEF Init, Timely, InFlight
<1>3. Decided /\ Numbered /\ Distinct /\ Once
  BY DEF Init, Decided, Numbered, Distinct, Once, Counted
<1>4. Covered
  <2>1. \A k, w, who, l : Paid(charged, k, w, who, l) = {}
    BY DEF Init, Paid
  <2>2. Cardinality({}) = 0 /\ IsFiniteSet({})
    BY FS_EmptySet
  <2>3. IsFiniteSet(charged) /\ DOMAIN local = {} /\ \A r \in Request : ~Counted(r)
    BY <2>2 DEF Init, Counted
  <2>4. ASSUME NEW w \in Window, NEW k \in Key
        PROVE  redis[w][k] <= Cardinality(Paid(charged, k, w, "redis", 0))
    <3>1. redis[w][k] = 0
      BY DEF Init
    <3> QED
      BY <2>1, <2>2, <3>1
  <2> QED
    BY <2>3, <2>4 DEF Covered
<1> QED
  BY <1>1, <1>2, <1>3, <1>4 DEF LimiterInv

\* The invariant holds throughout.
THEOREM LimiterInvariant == Spec => []LimiterInv
<1>1. Init => LimiterInv
  BY LimiterInit
<1>2. LimiterInv /\ [Next]_vars => LimiterInv'
  BY TypeStep, TimelyStep, DecidedStep, NumberedStep, DistinctStep, OnceStep, CoveredStep
     DEF LimiterInv
<1> QED
  BY <1>1, <1>2, PTL DEF Spec

\* Clock, counters and requests keep their shape.
THEOREM LimiterTypeCorrect == Spec => []TypeOK
<1>1. LimiterInv => TypeOK
  BY DEF LimiterInv
<1> QED
  BY <1>1, LimiterInvariant, PTL

\* The requests admitted from one budget have distinct counts between 1 and Limit, so
\* there are at most Limit of them.
LEMMA BudgetFromCounts == LimiterInv => BudgetKept
<1> SUFFICES ASSUME LimiterInv, NEW r \in Request, pc[r] = "admitted"
             PROVE  Cardinality({s \in Request : pc[s] = "admitted" /\ SameBudget(r, s)}) <= Limit
  BY DEF BudgetKept
<1> DEFINE S == {s \in Request : pc[s] = "admitted" /\ SameBudget(r, s)}
           f == [s \in S |-> count[s]]
<1>1. Limit \in Nat /\ Limit >= 1
  BY LimiterAssumption
<1>2. IsFiniteSet(1 .. Limit) /\ Cardinality(1 .. Limit) = Limit
  BY <1>1, FS_Interval
<1>3. \A s \in S : count[s] \in 1 .. Limit
  BY <1>1 DEF LimiterInv, TypeOK, Decided, Numbered, Counted
<1>4. \A s, q \in S : s # q => count[s] # count[q]
  <2>1. \A s, q \in S : SameBudget(s, q)
    BY DEF SameBudget
  <2> QED
    BY <2>1 DEF LimiterInv, Distinct, Counted
<1>5. f \in Injection(S, 1 .. Limit)
  BY <1>3, <1>4 DEF Injection, IsInjective
<1>6. Cardinality(S) <= Cardinality(1 .. Limit)
  BY <1>2, <1>5, FS_Injection
<1> QED
  BY <1>2, <1>6

\* No counter admits more than Limit requests of a key in a window.
THEOREM LimiterKeepsBudget == Spec => []BudgetKept
BY LimiterInvariant, BudgetFromCounts, PTL

\* A rejected request had a count above the limit, and its counter had been charged that
\* often in its own budget.
LEMMA RejectionFromCharges == LimiterInv => RejectedOverBudgetOnly
<1> SUFFICES ASSUME LimiterInv, NEW r \in Request, pc[r] = "rejected"
             PROVE  Cardinality({c \in charged :
                                  /\ c.key = key[r] /\ c.window = window[r]
                                  /\ c.backend = backend[r]
                                  /\ c.backend = "local" => c.life = born[r]}) > Limit
  BY DEF RejectedOverBudgetOnly
<1> DEFINE P == Paid(charged, key[r], window[r], backend[r], born[r])
           R == {c \in charged : /\ c.key = key[r] /\ c.window = window[r]
                                 /\ c.backend = backend[r]
                                 /\ c.backend = "local" => c.life = born[r]}
<1>1. P = R
  <2>1. \A c : c \in P <=> c \in R
    BY DEF Paid
  <2> HIDE DEF P, R
  <2> QED
    BY <2>1
<1>2. count[r] > Limit /\ count[r] <= Cardinality(P)
  BY DEF LimiterInv, Decided, Covered, Counted
<1>3. IsFiniteSet(P)
  BY FS_Subset DEF LimiterInv, Covered, Paid
<1>4. Cardinality(P) \in Nat /\ count[r] \in Nat /\ Limit \in Nat
  BY <1>3, FS_CardinalityType, LimiterAssumption DEF LimiterInv, TypeOK
<1>5. Cardinality(P) > Limit
  BY <1>2, <1>4
<1> QED
  BY <1>1, <1>5

\* Nobody is rejected on account of another window, key or life of the process.
THEOREM RejectionsEarned == Spec => []RejectedOverBudgetOnly
BY LimiterInvariant, RejectionFromCharges, PTL

\* Who is rejected and waits for the reset header comes back in a later window.
THEOREM ResetOpensWindow == Spec => []ResetOpensNewWindow
<1>1. LimiterInv => ResetOpensNewWindow
  BY DEF LimiterInv, Decided, ResetOpensNewWindow
<1> QED
  BY <1>1, LimiterInvariant, PTL

\* The only steps that change the map keep it within Capacity or to the current minute.
LEMMA MapStep ==
  ASSUME TypeOK, Timely, Next, local' # local
  PROVE  \/ Cardinality(DOMAIN local') <= Capacity
         \/ \A k \in DOMAIN local' : local'[k].window = minute
<1>0. Capacity \in Nat
  BY LimiterAssumption
<1>1. CASE Restart
  <2>1. DOMAIN local' = {}
    BY <1>1 DEF Restart
  <2> QED
    BY <1>0, <2>1, FS_EmptySet
<1>2. ASSUME NEW r \in Request, IncrementLocal(r)
      PROVE  \/ Cardinality(DOMAIN local') <= Capacity
             \/ \A k \in DOMAIN local' : local'[k].window = minute
  <2>1. /\ local'[key[r]].window = minute
        /\ DOMAIN local' \subseteq DOMAIN local \cup {key[r]}
        /\ \A k \in DOMAIN local' \ {key[r]} : local'[k] = local[k]
    BY <1>2, LocalStep
  <2>2. IsFiniteSet(DOMAIN local) /\ Cardinality(DOMAIN local) \in Nat
    BY FS_CardinalityType DEF Timely
  <2>3. CASE Cardinality(DOMAIN local) < Capacity
    <3> DEFINE D == DOMAIN local \cup {key[r]}
    <3>1. IsFiniteSet(D) /\ Cardinality(D) <= Cardinality(DOMAIN local) + 1
      BY <2>2, FS_AddElement
    <3>2. Cardinality(DOMAIN local') <= Cardinality(D) /\ IsFiniteSet(DOMAIN local')
      BY <2>1, <3>1, FS_Subset
    <3>3. Cardinality(D) \in Nat /\ Cardinality(DOMAIN local') \in Nat
      BY <3>1, <3>2, FS_CardinalityType
    <3> HIDE DEF D
    <3> QED
      BY <1>0, <2>2, <2>3, <3>1, <3>2, <3>3
  <2>4. CASE ~(Cardinality(DOMAIN local) < Capacity)
    <3> DEFINE kept == Cleaned(local, minute)
    <3>1. \A k \in DOMAIN kept : k \in DOMAIN local /\ local[k].window >= minute
      BY <2>4 DEF Cleaned, Restricted
    <3>2. DOMAIN local' \subseteq DOMAIN kept \cup {key[r]}
      BY <1>2 DEF IncrementLocal
    <3> HIDE DEF kept
    <3>3. \A k \in DOMAIN local : local[k].window <= minute /\ local[k].window \in Nat
      BY LimiterAssumption DEF Timely, TypeOK, Bucket, Window
    <3>4. minute \in Nat
      BY LimiterAssumption DEF TypeOK, Window
    <3>5. ASSUME NEW k \in DOMAIN local' \ {key[r]} PROVE local'[k].window = minute
      BY <2>1, <3>1, <3>2, <3>3, <3>4
    <3> QED
      BY <2>1, <3>5
  <2> QED
    BY <2>3, <2>4
<1> QED
  BY <1>1, <1>2 DEF Next, Tick, requestVars, Arrive, RedisCounts, RedisFails, Answer

\* The map of the process does not grow with clients that have gone.
THEOREM MapBounded == Spec => LocalMapBounded
<1>1. LimiterInv /\ [Next]_vars =>
        [local' # local =>
           \/ Cardinality(DOMAIN local') <= Capacity
           \/ \A k \in DOMAIN local' : local'[k].window = minute]_vars
  BY MapStep DEF LimiterInv
<1> QED
  BY <1>1, LimiterInvariant, PTL DEF Spec, LocalMapBounded
=============================================================================
