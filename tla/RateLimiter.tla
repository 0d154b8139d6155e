----------------------------- MODULE RateLimiter -----------------------------
(***************************************************************************)
(* The sliding-window rate limiter (security/rate_limit.py) as several API *)
(* workers use it.  With Redis the windows of all workers are one sorted   *)
(* set per identity; a call that cannot reach Redis, or whose answer is    *)
(* lost, falls back to a window in its worker's memory.  A call reads the  *)
(* clock first and awaits Redis afterwards, so calls take effect out of    *)
(* the order of their timestamps.                                          *)
(*                                                                         *)
(* Time is counted in ticks.  Second of them make the second that          *)
(* Retry-After is rounded up to, Hundredth of them the hundredth of a      *)
(* second that the wait is rounded to before.                              *)
(***************************************************************************)
EXTENDS Naturals, Sequences, FiniteSets

CONSTANTS
    Workers,     \* API processes, each with its RateLimiter
    Identities,  \* token subjects and client addresses
    Limit,       \* limit + burst
    Window,      \* _WINDOW_SECONDS, in ticks
    Second,      \* ticks in a second
    Hundredth,   \* ticks in a hundredth of a second
    Outages,     \* a Redis pipeline may fail, with or without effect
    MaxLag,      \* most ticks a call waits for Redis between clock and decision
    Horizon,     \* bound on the clock
    MaxCalls     \* bound on the number of calls

ASSUME LimiterAssumption ==
    /\ Limit \in Nat \ {0} /\ Second \in Nat \ {0}
    /\ Hundredth \in Nat \ {0} /\ Second % Hundredth = 0
    /\ Window \in Nat \ {0} /\ Window % Second = 0
    /\ MaxLag \in 0..Window /\ Horizon \in Nat /\ MaxCalls \in Nat
    /\ Outages \in BOOLEAN

VARIABLES
    redis,  \* a Redis client is configured
    now,    \* the clock, shifted by Window so that no window reaches below 0
    calls,  \* every call so far: a record of its stamp and its decision
    local,  \* local[w][id]: the deque of timestamps in worker w
    zset    \* zset[id]: the timestamps in the Redis sorted set

vars == <<redis, now, calls, local, zset>>

Times == 0..(Window + Horizon)

Verdicts == {"waiting", "admitted", "denied"}

TypeOK ==
    /\ redis \in BOOLEAN
    /\ now \in Times
    /\ calls \in Seq([worker : Workers, id : Identities, stamp : Times, done : Times,
                      verdict : Verdicts, via : {"none", "local", "redis"}])
    /\ Len(calls) <= MaxCalls
    /\ local \in [Workers -> [Identities -> Seq(Times)]]
    /\ \A w \in Workers, id \in Identities : Len(local[w][id]) <= Limit
    /\ zset \in [Identities -> SUBSET Times]

Init ==
    /\ redis \in BOOLEAN
    /\ now = Window
    /\ calls = <<>>
    /\ local = [w \in Workers |-> [id \in Identities |-> <<>>]]
    /\ zset = [id \in Identities |-> {}]

\* check() reads the clock.  On the way to Redis no two calls of an identity
\* read the same time: the set would hold them as one (a resolution below the
\* microsecond makes that rare, and the ticks here are coarse).
Arrive(w, id) ==
    /\ Len(calls) < MaxCalls
    /\ redis => \A i \in 1..Len(calls) : calls[i].id = id => calls[i].stamp # now
    /\ calls' = Append(calls, [worker |-> w, id |-> id, stamp |-> now, done |-> now,
                               verdict |-> "waiting", via |-> "none"])
    /\ UNCHANGED <<redis, now, local, zset>>

Decide(i, ok, via) ==
    calls' = [calls EXCEPT ![i].verdict = IF ok THEN "admitted" ELSE "denied",
                           ![i].via = via,
                           ![i].done = now]

\* Mutant of Fresh: every entry is dropped a second early.
FreshTooEarly(window, t) ==
    LET old == {n \in 0..Len(window) : \A k \in 1..n : window[k] + Window <= t + Second} IN
    SubSeq(window, 1 + CHOOSE n \in old : \A k \in old : k <= n, Len(window))

\* The deque after `while window and window[0] <= cutoff: popleft()`: the
\* entries from the first one that is young enough.
Fresh(window, t) ==
    LET old == {n \in 0..Len(window) : \A k \in 1..n : window[k] + Window <= t} IN
    SubSeq(window, 1 + CHOOSE n \in old : \A k \in old : k <= n, Len(window))

\* round(retry_after, 2): the nearest hundredth, of two equally near the even one.
Rounded(wait) ==
    LET down == wait \div Hundredth
        over == wait % Hundredth
        up == 2 * over > Hundredth \/ (2 * over = Hundredth /\ down % 2 = 1)
    IN  Hundredth * (IF up THEN down + 1 ELSE down)

\* Mutant of Header: the seconds are rounded down.
HeaderFloor(wait) == IF Rounded(wait) < Second THEN 1 ELSE Rounded(wait) \div Second

\* Retry-After: max(1, ceil(retry_after)) of the rounded wait.
Header(wait) ==
    IF Rounded(wait) = 0 THEN 1 ELSE (Rounded(wait) + Second - 1) \div Second

\* Mutant of LocalCheck: a denied call is remembered like an admitted one.
LocalCheckCountsDenied(i) ==
    LET c == calls[i]
        window == Fresh(local[c.worker][c.id], c.stamp)
    IN
    /\ local' = [local EXCEPT ![c.worker][c.id] = Append(window, c.stamp)]
    /\ Decide(i, Len(window) < Limit, "local")

\* _check_local: expire, then deny without a trace or admit and remember.
LocalCheck(i) ==
    LET c == calls[i]
        window == Fresh(local[c.worker][c.id], c.stamp)
        ok == Len(window) < Limit
    IN
    /\ local' = [local EXCEPT ![c.worker][c.id] = IF ok THEN Append(window, c.stamp) ELSE window]
    /\ Decide(i, ok, "local")

\* zremrangebyscore and zadd, one MULTI/EXEC.
Added(id, t) == {s \in zset[id] : s + Window > t} \cup {t}

CheckLocally(i) ==
    /\ ~redis
    /\ calls[i].verdict = "waiting"
    /\ LocalCheck(i)
    /\ UNCHANGED <<redis, now, zset>>

\* _check_redis: the call is counted whether or not it is admitted.
CheckInRedis(i) ==
    /\ redis
    /\ calls[i].verdict = "waiting"
    /\ LET c == calls[i] IN
          /\ zset' = [zset EXCEPT ![c.id] = Added(c.id, c.stamp)]
          /\ Decide(i, Cardinality(Added(c.id, c.stamp)) <= Limit, "redis")
    /\ UNCHANGED <<redis, now, local>>

\* The pipeline raises: it never reached Redis, or its answer was lost.
FallBack(i) ==
    /\ redis /\ Outages
    /\ calls[i].verdict = "waiting"
    /\ \/ UNCHANGED zset
       \/ zset' = [zset EXCEPT ![calls[i].id] = Added(calls[i].id, calls[i].stamp)]
    /\ LocalCheck(i)
    /\ UNCHANGED <<redis, now>>

\* Mutant of Expires: the key lives as long as the second it was last used in.
ExpiresAtOnce(id, t) == zset[id] # {} /\ \A s \in zset[id] : s + Second <= t

\* expire(key, 61): every call renews it and the key's youngest entry is that
\* of a call, so an idle key goes a second after its youngest entry is too old.
Expires(id, t) == zset[id] # {} /\ \A s \in zset[id] : s + Window + Second <= t

\* A call that need not ask Redis decides at once.
Lag == IF redis THEN MaxLag ELSE 0

\* Time passes; no call waits longer than its lag.
Tick ==
    /\ now < Window + Horizon
    /\ \A i \in 1..Len(calls) : calls[i].verdict = "waiting" => now < calls[i].stamp + Lag
    /\ now' = now + 1
    /\ zset' = [id \in Identities |-> IF Expires(id, now') THEN {} ELSE zset[id]]
    /\ UNCHANGED <<redis, calls, local>>

Next ==
    \/ \E w \in Workers, id \in Identities : Arrive(w, id)
    \/ \E i \in 1..Len(calls) : CheckLocally(i) \/ CheckInRedis(i) \/ FallBack(i)
    \/ Tick

Spec == Init /\ [][Next]_vars

-----------------------------------------------------------------------------
(* Properties *)

\* The calls admitted through `via` with call i's identity (and, locally, by
\* its worker) in the span of time that ends with call i's decision.
AdmittedIn(span, i, via) ==
    {k \in 1..Len(calls) :
        /\ calls[k].verdict = "admitted" /\ calls[k].via = via
        /\ calls[k].id = calls[i].id
        /\ via = "local" => calls[k].worker = calls[i].worker
        /\ calls[k].done <= calls[i].done /\ calls[k].done + span > calls[i].done}

\* In no window of 60s (short of the time a call may wait for its decision) does
\* Redis admit more than the limit, over all workers together, although calls
\* take effect out of the order of their timestamps.
SharedBudget ==
    \A i \in 1..Len(calls) : Cardinality(AdmittedIn(Window - Lag, i, "redis")) <= Limit

\* The same of one worker's own window, with and without Redis.
LocalBudget ==
    \A i \in 1..Len(calls) : Cardinality(AdmittedIn(Window - Lag, i, "local")) <= Limit

\* A worker turns a call away only when it admitted `limit` calls of the identity
\* itself in the window (lengthened by the wait): calls it denied, and calls of
\* other workers or identities, cost nothing.
DeniedOnlyWhenSpent ==
    \A i \in 1..Len(calls) : calls[i].verdict = "denied" /\ calls[i].via = "local" =>
        Cardinality(AdmittedIn(Window + Lag, i, "local")) >= Limit

\* A client whose call of time t a worker's own window turns away, and that
\* comes back Retry-After later, half a hundredth of a second allowed for the
\* rounding, finds room; a second earlier it would not.  The call may have been
\* decided after t, and calls with a later stamp may have gone before it.
RetryAfterIsClose ==
    \A w \in Workers, id \in Identities, t \in Times :
        LET window == Fresh(local[w][id], t)
            seconds == Header(window[1] + Window - t)
        IN  t <= now /\ now <= t + Lag /\ Len(window) = Limit =>
               /\ Len(Fresh(window, t + Second * seconds + Hundredth \div 2)) < Limit
               /\ seconds > 1 => Len(Fresh(window, t + Second * (seconds - 1))) = Limit

=============================================================================
