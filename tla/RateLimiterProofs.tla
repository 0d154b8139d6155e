------------------------- MODULE RateLimiterProofs -------------------------
(***************************************************************************)
(* What RateLimiter promises, for every limit, window, resolution of the   *)
(* clock, set of workers and delay of Redis: no window admits more than    *)
(* the limit, a denial has a reason, and Retry-After is right but for the  *)
(* rounding.                                                               *)
(*                                                                         *)
(* A deque holds stamps, the promises are about decisions.  Records ties   *)
(* the two together: it names the call behind every entry of a deque, in   *)
(* the order in which the calls were decided, which is not the order of    *)
(* their stamps.  Budgets follow because an entry expires by its stamp and *)
(* a decision lags behind its stamp by Lag at most.                        *)
(***************************************************************************)
EXTENDS RateLimiter, Functions, FiniteSetTheorems, SequenceTheorems, WellFoundedInduction,
        TLAPS

-----------------------------------------------------------------------------
(* The inductive invariant *)

Indices == 1..Len(calls)

\* A call is decided at most Lag after it has read the clock.
CallInv(k) ==
    /\ calls[k].stamp <= calls[k].done /\ calls[k].done <= now
    /\ calls[k].done <= calls[k].stamp + Lag
    /\ calls[k].verdict = "waiting" => calls[k].via = "none" /\ now <= calls[k].stamp + Lag
    /\ calls[k].via = "redis" => redis

\* The sorted set tells the calls of an identity apart by their stamps.
StampInv ==
    redis => \A j, k \in Indices :
        calls[j].id = calls[k].id /\ calls[j].stamp = calls[k].stamp => j = k

\* The calls of identity id admitted through `via` (and, locally, by worker w).
Admitted(w, id, via) ==
    {k \in Indices : /\ calls[k].verdict = "admitted" /\ calls[k].via = via
                     /\ calls[k].id = id
                     /\ via = "local" => calls[k].worker = w}

\* Those of the window that ends at time t.
Spent(t, w, id, via) ==
    {k \in Admitted(w, id, via) : calls[k].done <= t /\ calls[k].done + (Window - Lag) > t}

BudgetInv ==
    \A t \in 0..now, w \in Workers, id \in Identities, via \in {"local", "redis"} :
        Cardinality(Spent(t, w, id, via)) <= Limit

\* g names the calls whose stamps the deque holds, in the order of their
\* decisions, and leaves out no admitted call that is younger than a window.
Records(g, w, id) ==
    /\ \A p \in 1..Len(local[w][id]) :
          g[p] \in Admitted(w, id, "local") /\ calls[g[p]].stamp = local[w][id][p]
    /\ \A p, q \in 1..Len(local[w][id]) :
          p < q => g[p] # g[q] /\ calls[g[p]].done <= calls[g[q]].done
    /\ \A k \in Admitted(w, id, "local") : calls[k].stamp + Window > now =>
          \E p \in 1..Len(local[w][id]) : g[p] = k

DequeInv(w, id) == \E g \in [1..Len(local[w][id]) -> Indices] : Records(g, w, id)

\* So it is with the sorted set, whichever worker called.
SetInv(w, id) ==
    \A k \in Admitted(w, id, "redis") :
        calls[k].stamp + Window > now => calls[k].stamp \in zset[id]

LimiterInv ==
    /\ TypeOK
    /\ \A k \in Indices : CallInv(k)
    /\ StampInv
    /\ BudgetInv
    /\ \A w \in Workers, id \in Identities : DequeInv(w, id) /\ SetInv(w, id)
    /\ DeniedOnlyWhenSpent

-----------------------------------------------------------------------------
(* The operators *)

\* What the assumption gives.
LEMMA Constants ==
    /\ Limit \in Nat \ {0} /\ Second \in Nat \ {0} /\ Window \in Nat \ {0}
    /\ Hundredth \in Nat \ {0}
    /\ MaxLag \in 0..Window /\ Horizon \in Nat /\ MaxCalls \in Nat
    /\ Lag \in 0..Window
    /\ Times \subseteq Nat /\ Window \in Times
BY LimiterAssumption DEF Lag, Times

\* Every nonempty set of numbers has a least member.
LEMMA LeastExists ==
    ASSUME NEW T \in SUBSET Nat, T # {}
    PROVE  \E m \in T : \A n \in T : m <= n
<1> DEFINE R == {s \in Nat \X Nat : s[1] < s[2]}
<1>1. IsWellFoundedOn(R, Nat)
    BY NatLessThanWellFounded DEF OpToRel
<1>2. \E m \in T : \A n \in T : ~ (<<n, m>> \in R)
  <2> HIDE DEF R
  <2> QED  BY <1>1, WFMin
<1>3. PICK m \in T : \A n \in T : ~ (<<n, m>> \in R)
    BY <1>2
<1>4. ASSUME NEW n \in T PROVE m <= n
  <2>1. <<n, m>> \in Nat \X Nat /\ ~ (n < m)
    BY <1>3
  <2> QED  BY <2>1
<1> QED  BY <1>4

\* What is left of a deque: the entries behind the first m, which have expired;
\* the next one has not.
LEMMA FreshFacts ==
    ASSUME NEW T \in SUBSET Nat, NEW window \in Seq(T), NEW t \in Nat
    PROVE  \E m \in 0..Len(window) :
              /\ Fresh(window, t) \in Seq(T)
              /\ Len(Fresh(window, t)) = Len(window) - m
              /\ \A p \in 1..(Len(window) - m) : Fresh(window, t)[p] = window[m + p]
              /\ \A k \in 1..m : window[k] + Window <= t
              /\ m < Len(window) => window[m + 1] + Window > t
<1> DEFINE old == {n \in 0..Len(window) : \A k \in 1..n : window[k] + Window <= t}
           stop == {n \in 0..Len(window) : n < Len(window) => ~(window[n + 1] + Window <= t)}
<1>1. Len(window) \in Nat /\ \A k \in 1..Len(window) : window[k] \in T
    OBVIOUS
<1>2. Len(window) \in Nat /\ \A k \in 1..Len(window) : window[k] \in Nat /\ window[k] \in T
    BY <1>1
<1>3. PICK m \in stop : \A n \in stop : m <= n
  <2>1. Len(window) \in stop
    BY <1>2
  <2>2. stop \in SUBSET Nat /\ stop # {}
    BY <2>1
  <2> HIDE DEF stop
  <2> QED  BY <2>2, LeastExists
<1>4. m \in 0..Len(window)
    BY <1>3
<1>5. ASSUME NEW k \in 1..m PROVE window[k] + Window <= t
  <2>1. k - 1 \in 0..Len(window) /\ k - 1 < Len(window) /\ (k - 1) + 1 = k
    BY <1>2, <1>4
  <2>2. k - 1 \notin stop
    <3>1. ~(m <= k - 1)
      BY <1>4, <2>1
    <3> HIDE DEF stop
    <3> QED  BY <1>3, <3>1
  <2> QED  BY <2>1, <2>2
<1>6. m \in old
    BY <1>4, <1>5
<1>7. m < Len(window) => window[m + 1] + Window > t
    BY <1>2, <1>3, Constants
<1>8. ASSUME NEW n \in old PROVE n <= m
  <2> SUFFICES ASSUME n > m PROVE FALSE
    BY <1>2, <1>4
  <2>1. m + 1 \in 1..n /\ m < Len(window) /\ window[m + 1] \in Nat
    BY <1>2, <1>4
  <2> QED  BY <2>1, <1>7, Constants
<1>9. (CHOOSE n \in old : \A k \in old : k <= n) = m
  <2>1. \A n \in old : (\A k \in old : k <= n) => n = m
    BY <1>2, <1>4, <1>6, <1>8
  <2> QED  BY <1>6, <1>8, <2>1
<1>10. Fresh(window, t) = SubSeq(window, 1 + m, Len(window))
    BY <1>9 DEF Fresh
<1>11. /\ Fresh(window, t) \in Seq(T)
       /\ Len(Fresh(window, t)) = Len(window) - m
       /\ \A p \in 1..(Len(window) - m) : Fresh(window, t)[p] = window[m + p]
  <2>1. \A k \in (1 + m)..Len(window) : window[k] \in T
    BY <1>2, <1>4
  <2>2. 1 + m \in Int /\ Len(window) \in Int
    BY <1>2, <1>4
  <2>3. /\ SubSeq(window, 1 + m, Len(window)) \in Seq(T)
        /\ Len(SubSeq(window, 1 + m, Len(window))) =
              IF 1 + m <= Len(window) THEN Len(window) - (1 + m) + 1 ELSE 0
        /\ \A p \in 1..(Len(window) - (1 + m) + 1) :
              SubSeq(window, 1 + m, Len(window))[p] = window[(1 + m) + p - 1]
    BY <2>1, <2>2, SubSeqProperties
  <2>4. Len(SubSeq(window, 1 + m, Len(window))) = Len(window) - m
    BY <1>2, <1>4, <2>3
  <2>5. ASSUME NEW p \in 1..(Len(window) - m)
        PROVE  SubSeq(window, 1 + m, Len(window))[p] = window[m + p]
    <3>1. p \in 1..(Len(window) - (1 + m) + 1) /\ (1 + m) + p - 1 = m + p
      BY <1>2, <1>4
    <3> QED  BY <2>3, <3>1
  <2> QED  BY <1>10, <2>3, <2>4, <2>5
<1> QED  BY <1>4, <1>5, <1>7, <1>11

\* The rounded wait is a number of hundredths, off by half of one at most.
LEMMA RoundedFacts ==
    ASSUME NEW wait \in Nat
    PROVE  \E n \in Nat :
              /\ Rounded(wait) = Hundredth * n /\ Hundredth * n \in Nat
              /\ wait <= Hundredth * n + Hundredth \div 2
              /\ 2 * (Hundredth * n) <= 2 * wait + Hundredth
<1> DEFINE h == Hundredth
           down == wait \div h
           over == wait % h
           up == 2 * over > h \/ (2 * over = h /\ down % 2 = 1)
           n == IF up THEN down + 1 ELSE down
<1>1. h \in Nat \ {0}
    BY Constants
<1>2. /\ down \in Nat /\ over \in Nat /\ over < h
      /\ wait = h * down + over
    BY <1>1
<1>3. Rounded(wait) = h * n
    BY DEF Rounded
<1>4. h * down \in Nat /\ h * (down + 1) = h * down + h
    BY <1>1, <1>2
<1>5. n \in Nat
    BY <1>2
<1> DEFINE half == h \div 2
<1>6. half \in Nat /\ h <= 2 * half + 1 /\ 2 * half <= h
    BY <1>1
<1>7. CASE up
  <2>1. n = down + 1 /\ 2 * over >= h
    BY <1>1, <1>2, <1>7
  <2> HIDE DEF n, down, over, up, half, h
  <2>2. h * n = h * down + h
    BY <1>4, <2>1
  <2>3. wait <= h * n + half /\ 2 * (h * n) <= 2 * wait + h /\ h * n \in Nat
    BY <1>1, <1>2, <1>4, <1>6, <2>1, <2>2
  <2> QED  BY <1>3, <1>5, <2>3 DEF h, half
<1>8. CASE ~ up
  <2>1. n = down /\ 2 * over <= h
    BY <1>1, <1>2, <1>8
  <2> HIDE DEF n, down, over, up, half, h
  <2>2. wait <= h * n + half /\ 2 * (h * n) <= 2 * wait + h /\ h * n \in Nat
    BY <1>1, <1>2, <1>4, <1>6, <2>1
  <2> QED  BY <1>3, <1>5, <2>2 DEF h, half
<1> QED  BY <1>7, <1>8

\* The header is the wait rounded up to seconds, but for the rounding to
\* hundredths; a second is a number of hundredths, so that rounding never lifts
\* the header by one.
LEMMA HeaderFacts ==
    ASSUME NEW wait \in Nat \ {0}
    PROVE  /\ Header(wait) \in Nat \ {0}
           /\ Second * Header(wait) + Hundredth \div 2 >= wait
           /\ Header(wait) > 1 => Second * (Header(wait) - 1) < wait
<1>1. /\ Second \in Nat \ {0} /\ Hundredth \in Nat \ {0} /\ Second % Hundredth = 0
    BY Constants, LimiterAssumption
<1>2. PICK n \in Nat :
          /\ Rounded(wait) = Hundredth * n /\ Hundredth * n \in Nat
          /\ wait <= Hundredth * n + Hundredth \div 2
          /\ 2 * (Hundredth * n) <= 2 * wait + Hundredth
    BY RoundedFacts
<1> DEFINE r == Hundredth * n
           half == Hundredth \div 2
<1>3. half \in Nat /\ r \in Nat /\ wait <= r + half /\ 2 * r <= 2 * wait + Hundredth
    BY <1>1, <1>2
<1>4. Header(wait) = IF r = 0 THEN 1 ELSE (r + Second - 1) \div Second
    BY <1>2 DEF Header
<1>5. CASE r = 0
  <2>1. Header(wait) = 1
    BY <1>4, <1>5
  <2>2. wait <= half
    BY <1>3, <1>5
  <2> QED  BY <1>1, <1>3, <2>1, <2>2
<1>6. CASE r # 0
  <2> DEFINE m == r + Second - 1
             q == m \div Second
  <2>1. Header(wait) = q
    BY <1>4, <1>6
  <2>2. m \in Nat /\ m = r + Second - 1
    BY <1>1, <1>3
  <2>3. q \in Int /\ Second * q <= m /\ m < Second * q + Second
    BY <1>1, <2>2
  <2> HIDE DEF m, q
  <2>4. Second * q >= r /\ Second * q - Second < r
    BY <1>1, <1>3, <2>2, <2>3
  <2>5. Second * (q - 1) = Second * q - Second
    BY <1>1, <2>3
  <2>6. q > 0
    BY <1>1, <1>3, <1>6, <2>3, <2>4
  <2>7. Second * q + half >= wait
    BY <1>1, <1>3, <2>3, <2>4
  <2>8. Second * (q - 1) < wait
    <3> DEFINE s == Second \div Hundredth
    <3>1. s \in Nat /\ Second = Hundredth * s
      BY <1>1
    <3> HIDE DEF s
    <3> DEFINE l == s * (q - 1)
    <3>2. Second * (q - 1) = Hundredth * l /\ l \in Int
      BY <1>1, <2>3, <3>1
    <3> HIDE DEF l
    <3>3. Hundredth * l < Hundredth * n
      BY <2>3, <2>4, <2>5, <3>2 DEF r
    <3>4. l < n
      BY <1>1, <3>2, <3>3
    <3>5. Hundredth * (l + 1) <= Hundredth * n /\ Hundredth * (l + 1) = Hundredth * l + Hundredth
      BY <1>1, <3>2, <3>4
    <3>6. Hundredth * l \in Int /\ Hundredth * l + Hundredth <= r
      BY <1>1, <3>2, <3>5
    <3> HIDE DEF r
    <3> QED  BY <1>1, <1>3, <3>2, <3>6
  <2> HIDE DEF half
  <2> QED  BY <2>1, <2>3, <2>6, <2>7, <2>8 DEF half
<1> QED  BY <1>5, <1>6

\* The wait of Retry-After is enough, and a second less is not.
LEMMA RetryAfterHolds == TypeOK => RetryAfterIsClose
<1> SUFFICES ASSUME TypeOK, NEW w \in Workers, NEW id \in Identities, NEW t \in Times,
                    Len(Fresh(local[w][id], t)) = Limit
             PROVE  LET window == Fresh(local[w][id], t)
                        seconds == Header(window[1] + Window - t)
                    IN  /\ Len(Fresh(window, t + Second * seconds + Hundredth \div 2)) < Limit
                        /\ seconds > 1 =>
                              Len(Fresh(window, t + Second * (seconds - 1))) = Limit
    BY DEF RetryAfterIsClose
<1> DEFINE window == Fresh(local[w][id], t)
           wait == window[1] + Window - t
           seconds == Header(wait)
<1>1. local[w][id] \in Seq(Times) /\ t \in Nat /\ Times \in SUBSET Nat
    BY Constants DEF TypeOK
<1>2. PICK m \in 0..Len(local[w][id]) :
          /\ window \in Seq(Times)
          /\ Len(window) = Len(local[w][id]) - m
          /\ \A p \in 1..(Len(local[w][id]) - m) : window[p] = local[w][id][m + p]
          /\ m < Len(local[w][id]) => local[w][id][m + 1] + Window > t
    BY <1>1, FreshFacts
<1>3. Len(window) = Limit /\ Limit \in Nat \ {0} /\ Len(local[w][id]) \in Nat
    BY <1>1, Constants
<1>4. window[1] \in Nat /\ window[1] + Window > t
  <2>1. m < Len(local[w][id]) /\ 1 \in 1..(Len(local[w][id]) - m) /\ 1 \in 1..Len(window)
    BY <1>2, <1>3
  <2>2. window[1] = local[w][id][m + 1] /\ window[1] \in Times
    BY <1>2, <2>1
  <2> QED  BY <1>2, <2>1, <2>2, Constants
<1>5. wait \in Nat \ {0} /\ t + wait = window[1] + Window
    BY <1>1, <1>4, Constants
<1> HIDE DEF window, wait
<1>6. /\ seconds \in Nat \ {0}
      /\ Second * seconds + Hundredth \div 2 >= wait
      /\ seconds > 1 => Second * (seconds - 1) < wait
    BY <1>5, HeaderFacts
<1> HIDE DEF seconds
<1> DEFINE late == t + Second * seconds + Hundredth \div 2
           early == t + Second * (seconds - 1)
<1>7. late \in Nat /\ early \in Nat /\ t + wait <= late /\ (seconds > 1 => early < t + wait)
  <2> DEFINE a == Second * seconds
             b == Second * (seconds - 1)
             half == Hundredth \div 2
  <2>1. a \in Nat /\ b \in Nat /\ half \in Nat
    BY <1>6, Constants
  <2>2. a + half >= wait /\ (seconds > 1 => b < wait)
    BY <1>6
  <2> HIDE DEF a, b, half
  <2>3. t + a + half \in Nat /\ t + b \in Nat /\ t + wait <= t + a + half
    BY <1>1, <1>5, <2>1, <2>2
  <2>4. seconds > 1 => t + b < t + wait
    BY <1>1, <1>5, <2>1, <2>2
  <2> QED  BY <2>3, <2>4 DEF a, b, half
<1> HIDE DEF late, early
<1>8. Len(Fresh(window, late)) < Limit
  <2>1. PICK n \in 0..Len(window) :
            /\ Len(Fresh(window, late)) = Len(window) - n
            /\ n < Len(window) => window[n + 1] + Window > late
    BY <1>1, <1>2, <1>7, FreshFacts
  <2>2. n # 0
    BY <1>1, <1>3, <1>4, <1>5, <1>7, <2>1, Constants
  <2> QED  BY <1>3, <2>1, <2>2
<1>9. seconds > 1 => Len(Fresh(window, early)) = Limit
  <2> SUFFICES ASSUME seconds > 1 PROVE Len(Fresh(window, early)) = Limit
    OBVIOUS
  <2>1. PICK n \in 0..Len(window) :
            /\ Len(Fresh(window, early)) = Len(window) - n
            /\ \A k \in 1..n : window[k] + Window <= early
    BY <1>1, <1>2, <1>7, FreshFacts
  <2>2. n = 0
    BY <1>1, <1>3, <1>4, <1>5, <1>7, <2>1, Constants
  <2> QED  BY <1>3, <2>1, <2>2
<1> QED  BY <1>8, <1>9 DEF window, wait, seconds, late, early

-----------------------------------------------------------------------------
(* The calls *)

CallType == [worker : Workers, id : Identities, stamp : Times, done : Times,
             verdict : Verdicts, via : {"none", "local", "redis"}]

\* The types of the calls.
LEMMA CallFacts ==
    ASSUME TypeOK
    PROVE  /\ calls \in Seq(CallType) /\ Len(calls) \in Nat /\ now \in Nat
           /\ \A k \in Indices :
                 /\ calls[k] \in CallType
                 /\ calls[k].worker \in Workers /\ calls[k].id \in Identities
                 /\ calls[k].stamp \in Nat /\ calls[k].done \in Nat
                 /\ calls[k].stamp \in Times /\ calls[k].done \in Times
<1>1. calls \in Seq(CallType) /\ now \in Times
    BY DEF TypeOK, CallType
<1>2. Len(calls) \in Nat /\ \A k \in Indices : calls[k] \in CallType
    BY <1>1 DEF Indices
<1>3. ASSUME NEW c \in CallType
      PROVE  /\ c.worker \in Workers /\ c.id \in Identities
             /\ c.stamp \in Times /\ c.done \in Times
    BY DEF CallType
<1>4. Times \subseteq Nat
    BY Constants
<1> QED  BY <1>1, <1>2, <1>3, <1>4

\* Call i is decided now; v is its verdict.
Decided(i, v, via) ==
    /\ Len(calls') = Len(calls)
    /\ \A k \in Indices : k # i => calls'[k] = calls[k]
    /\ calls'[i].worker = calls[i].worker /\ calls'[i].id = calls[i].id
    /\ calls'[i].stamp = calls[i].stamp /\ calls'[i].done = now
    /\ calls'[i].verdict = v /\ calls'[i].via = via

\* Decide is a decision.
LEMMA DecideFacts ==
    ASSUME TypeOK, NEW i \in Indices, NEW ok \in BOOLEAN, NEW via \in {"local", "redis"},
           Decide(i, ok, via)
    PROVE  /\ calls' \in Seq(CallType)
           /\ Decided(i, IF ok THEN "admitted" ELSE "denied", via)
<1> DEFINE v == IF ok THEN "admitted" ELSE "denied"
           d == [calls[i] EXCEPT !.verdict = v, !.via = via, !.done = now]
<1>1. calls \in Seq(CallType) /\ i \in 1..Len(calls) /\ calls[i] \in CallType
    BY CallFacts DEF Indices
<1>2. calls' = [calls EXCEPT ![i] = d]
    BY <1>1 DEF Decide
<1>3. v \in Verdicts /\ now \in Times
    BY DEF Verdicts, TypeOK
<1>4. d \in CallType
    BY <1>1, <1>3 DEF CallType
<1>5. /\ d.worker = calls[i].worker /\ d.id = calls[i].id /\ d.stamp = calls[i].stamp
      /\ d.done = now /\ d.verdict = v /\ d.via = via
    BY <1>1, <1>3 DEF CallType
<1> HIDE DEF d, v
<1>6. calls' \in Seq(CallType) /\ Len(calls') = Len(calls)
    BY <1>1, <1>2, <1>4
<1>7. calls'[i] = d /\ \A k \in Indices : k # i => calls'[k] = calls[k]
    BY <1>1, <1>2 DEF Indices
<1> QED  BY <1>5, <1>6, <1>7 DEF Decided, v

\* What a decision adds to the admitted calls.
LEMMA AdmittedAfter ==
    ASSUME TypeOK, NEW i \in Indices, NEW v \in {"admitted", "denied"},
           NEW via \in {"local", "redis"},
           Decided(i, v, via), calls[i].verdict = "waiting",
           NEW w, NEW id, NEW x
    PROVE  /\ i \notin Admitted(w, id, x)
           /\ \A k \in Admitted(w, id, x) : k \in Indices /\ calls'[k] = calls[k]
           /\ Admitted(w, id, x)' =
                 IF /\ v = "admitted" /\ x = via /\ calls[i].id = id
                    /\ x = "local" => calls[i].worker = w
                 THEN Admitted(w, id, x) \cup {i} ELSE Admitted(w, id, x)
<1>1. Indices' = Indices
    BY DEF Decided, Indices
<1>2. /\ i \notin Admitted(w, id, x)
      /\ \A k \in Admitted(w, id, x) : k \in Indices /\ calls'[k] = calls[k]
    BY DEF Admitted, Decided
<1>3. ASSUME NEW k \in Indices, k # i
      PROVE  k \in Admitted(w, id, x)' <=> k \in Admitted(w, id, x)
    BY <1>1, <1>3 DEF Admitted, Decided
<1>4. i \in Admitted(w, id, x)' <=>
         /\ v = "admitted" /\ x = via /\ calls[i].id = id
         /\ x = "local" => calls[i].worker = w
    BY <1>1 DEF Admitted, Decided
<1>5. Admitted(w, id, x)' \subseteq Indices /\ Admitted(w, id, x) \subseteq Indices
    BY <1>1 DEF Admitted
<1> QED  BY <1>2, <1>3, <1>4, <1>5

\* Decisions change no window that ended before.
LEMMA SpentAfter ==
    ASSUME TypeOK, \A k \in Indices : CallInv(k), NEW i \in Indices,
           NEW v \in {"admitted", "denied"}, NEW via \in {"local", "redis"},
           Decided(i, v, via), calls[i].verdict = "waiting", UNCHANGED <<redis, now>>,
           NEW w, NEW id, NEW x, NEW t \in 0..now,
           \/ t < now
           \/ v = "denied" \/ x # via \/ calls[i].id # id
           \/ x = "local" /\ calls[i].worker # w
    PROVE  Spent(t, w, id, x)' = Spent(t, w, id, x)
<1>1. /\ i \notin Admitted(w, id, x)
      /\ \A k \in Admitted(w, id, x) : k \in Indices /\ calls'[k] = calls[k]
      /\ Admitted(w, id, x)' =
            IF /\ v = "admitted" /\ x = via /\ calls[i].id = id
               /\ x = "local" => calls[i].worker = w
            THEN Admitted(w, id, x) \cup {i} ELSE Admitted(w, id, x)
    BY AdmittedAfter
<1>2. Lag' = Lag /\ now \in Nat
    BY CallFacts DEF Lag
<1>3. calls'[i].done = now
    BY DEF Decided
<1>4. CASE t < now
    BY <1>1, <1>2, <1>3, <1>4 DEF Spent
<1>5. CASE ~(t < now)
    BY <1>1, <1>2, <1>5 DEF Spent
<1> QED  BY <1>4, <1>5

\* There are finitely many calls.
LEMMA FiniteIndices ==
    ASSUME TypeOK
    PROVE  IsFiniteSet(Indices)
<1>1. Len(calls) \in Nat
    BY CallFacts
<1> QED  BY <1>1, FS_Interval DEF Indices

\* So there are in every window.
LEMMA FiniteSpent ==
    ASSUME TypeOK, NEW t, NEW w, NEW id, NEW x
    PROVE  /\ IsFiniteSet(Spent(t, w, id, x)) /\ Cardinality(Spent(t, w, id, x)) \in Nat
           /\ Spent(t, w, id, x) \subseteq Indices /\ IsFiniteSet(Indices)
<1>1. IsFiniteSet(Indices)
    BY FiniteIndices
<1>2. Spent(t, w, id, x) \subseteq Indices
    BY DEF Spent, Admitted
<1> QED  BY <1>1, <1>2, FS_Subset, FS_CardinalityType

\* A call of the window that ends now is younger than a window by its stamp.
LEMMA SpentIsYoung ==
    ASSUME TypeOK, \A k \in Indices : CallInv(k), NEW w, NEW id, NEW x,
           NEW k \in Spent(now, w, id, x)
    PROVE  k \in Admitted(w, id, x) /\ calls[k].stamp + Window > now
<1>1. k \in Indices /\ k \in Admitted(w, id, x) /\ calls[k].done + (Window - Lag) > now
    BY DEF Spent, Admitted
<1>2. PICK a \in Nat, b \in Nat : a = calls[k].stamp /\ b = calls[k].done
    BY <1>1, CallFacts
<1>3. b <= a + Lag /\ b + (Window - Lag) > now
    BY <1>1, <1>2 DEF CallInv
<1>4. now \in Nat /\ Lag \in Nat /\ Window \in Nat
    BY CallFacts, Constants
<1>5. a + Window > now
    BY <1>3, <1>4
<1> QED  BY <1>1, <1>2, <1>5

\* The deque holds all of that window, and it is not longer than the limit.
LEMMA DequeBounds ==
    \A w \in Workers, id \in Identities :
        TypeOK /\ (\A k \in Indices : CallInv(k)) /\ DequeInv(w, id) =>
            Cardinality(Spent(now, w, id, "local")) <= Limit
<1> SUFFICES ASSUME NEW w \in Workers, NEW id \in Identities,
                    TypeOK, \A k \in Indices : CallInv(k), DequeInv(w, id)
             PROVE  Cardinality(Spent(now, w, id, "local")) <= Limit
    OBVIOUS
<1> DEFINE n == Len(local[w][id])
           S == Spent(now, w, id, "local")
<1>1. PICK g \in [1..n -> Indices] : Records(g, w, id)
    BY DEF DequeInv
<1> DEFINE R == {g[p] : p \in 1..n}
<1>2. n \in Nat /\ n <= Limit
    BY DEF TypeOK
<1>3. S \subseteq R
    BY <1>1, SpentIsYoung DEF Records
<1>4. g \in Surjection(1..n, R)
    BY <1>1 DEF Surjection
<1>5. IsFiniteSet(1..n) /\ Cardinality(1..n) = n
    BY <1>2, FS_Interval
<1> HIDE DEF R, S, n
<1>6. IsFiniteSet(R) /\ Cardinality(R) <= n
    BY <1>4, <1>5, FS_Surjection
<1>7. Cardinality(S) <= Cardinality(R) /\ Cardinality(S) \in Nat /\ Cardinality(R) \in Nat
    BY <1>3, <1>6, FS_Subset, FS_CardinalityType
<1> QED  BY <1>2, <1>6, <1>7, Constants DEF S

\* So does the sorted set, when the call that looks at it is admitted.
LEMMA SetBounds ==
    \A w \in Workers, id \in Identities :
        /\ TypeOK /\ (\A k \in Indices : CallInv(k)) /\ StampInv /\ SetInv(w, id)
        /\ redis /\ Cardinality(zset[id]) <= Limit
        => Cardinality(Spent(now, w, id, "redis")) <= Limit
<1> SUFFICES ASSUME NEW w \in Workers, NEW id \in Identities,
                    TypeOK, \A k \in Indices : CallInv(k), StampInv, SetInv(w, id),
                    redis, Cardinality(zset[id]) <= Limit
             PROVE  Cardinality(Spent(now, w, id, "redis")) <= Limit
    OBVIOUS
<1> DEFINE S == Spent(now, w, id, "redis")
           f == [k \in S |-> calls[k].stamp]
<1>1. ASSUME NEW k \in S PROVE k \in Indices /\ calls[k].id = id /\ calls[k].stamp \in zset[id]
    BY SpentIsYoung DEF Admitted, SetInv
<1>2. f \in Injection(S, zset[id])
    BY <1>1 DEF Injection, IsInjective, StampInv
<1>3. IsFiniteSet(zset[id])
  <2>1. IsFiniteSet(Times)
    BY Constants, FS_Interval DEF Times
  <2> QED  BY <2>1, FS_Subset DEF TypeOK
<1> HIDE DEF S
<1>4. Cardinality(S) <= Cardinality(zset[id]) /\ IsFiniteSet(S)
    BY <1>2, <1>3, FS_Injection
<1>5. Cardinality(S) \in Nat /\ Cardinality(zset[id]) \in Nat
    BY <1>3, <1>4, FS_CardinalityType
<1> QED  BY <1>4, <1>5, Constants DEF S

-----------------------------------------------------------------------------
(* A decision *)

\* What holds of the calls after any decision.
LEMMA CallsAfter ==
    ASSUME LimiterInv, NEW i \in Indices, NEW v \in {"admitted", "denied"},
           NEW via \in {"local", "redis"}, Decided(i, v, via), calls' \in Seq(CallType),
           calls[i].verdict = "waiting", via = "redis" => redis, UNCHANGED <<redis, now>>
    PROVE  (\A k \in Indices : CallInv(k))' /\ StampInv' /\ Len(calls') <= MaxCalls
<1>1. TypeOK /\ Indices' = Indices /\ Lag' = Lag /\ Len(calls) <= MaxCalls
    BY DEF LimiterInv, Decided, Indices, Lag, TypeOK
<1>2. ASSUME NEW k \in Indices PROVE CallInv(k)'
  <2>1. CallInv(k) /\ calls[k].stamp \in Nat /\ now \in Nat /\ Lag \in Nat
    BY <1>1, CallFacts, Constants DEF LimiterInv
  <2>2. CASE k = i
    <3>1. calls[i].via = "none" /\ now <= calls[i].stamp + Lag /\ calls[i].stamp <= now
      BY <2>1, <2>2, CallFacts, <1>1 DEF CallInv
    <3>2. /\ calls'[k].stamp = calls[i].stamp /\ calls'[k].done = now
          /\ calls'[k].verdict # "waiting" /\ calls'[k].via = via
      BY <2>2 DEF Decided
    <3> QED  BY <1>1, <2>1, <3>1, <3>2 DEF CallInv
  <2>3. CASE k # i
    BY <1>1, <2>1, <2>3 DEF CallInv, Decided
  <2> QED  BY <2>2, <2>3
<1>3. StampInv'
    BY <1>1 DEF LimiterInv, StampInv, Decided
<1> QED  BY <1>1, <1>2, <1>3 DEF Decided

\* Those that were turned away before stay justified.
LEMMA DenialsAfter ==
    ASSUME LimiterInv, NEW i \in Indices, NEW v \in {"admitted", "denied"},
           NEW via \in {"local", "redis"}, Decided(i, v, via), calls' \in Seq(CallType),
           calls[i].verdict = "waiting", UNCHANGED <<redis, now>>,
           v = "denied" /\ via = "local" =>
               (Cardinality(AdmittedIn(Window + Lag, i, "local")) >= Limit)'
    PROVE  DeniedOnlyWhenSpent'
<1>1. TypeOK /\ Indices' = Indices /\ Lag' = Lag /\ Len(calls) \in Nat
    BY CallFacts DEF LimiterInv, Decided, Indices, Lag
<1> SUFFICES ASSUME NEW j \in Indices, j # i,
                    calls'[j].verdict = "denied", calls'[j].via = "local"
             PROVE  (Cardinality(AdmittedIn(Window + Lag, j, "local")) >= Limit)'
    BY <1>1 DEF DeniedOnlyWhenSpent, Indices, Decided
<1>2. calls'[j] = calls[j]
    BY DEF Decided
<1>3. Cardinality(AdmittedIn(Window + Lag, j, "local")) >= Limit
    BY <1>2 DEF LimiterInv, DeniedOnlyWhenSpent, Indices
<1>4. AdmittedIn(Window + Lag, j, "local") \subseteq AdmittedIn(Window + Lag, j, "local")'
    BY <1>1, <1>2 DEF AdmittedIn, Decided, Indices
<1>5. IsFiniteSet(AdmittedIn(Window + Lag, j, "local")')
  <2>1. AdmittedIn(Window + Lag, j, "local")' \subseteq Indices
    BY <1>1 DEF AdmittedIn, Indices
  <2>2. IsFiniteSet(Indices)
    BY <1>1, FiniteIndices
  <2> QED  BY <2>1, <2>2, FS_Subset
<1>6. /\ Cardinality(AdmittedIn(Window + Lag, j, "local")) <=
             Cardinality(AdmittedIn(Window + Lag, j, "local")')
      /\ Cardinality(AdmittedIn(Window + Lag, j, "local")) \in Nat
      /\ Cardinality(AdmittedIn(Window + Lag, j, "local")') \in Nat
    BY <1>4, <1>5, FS_Subset, FS_CardinalityType
<1> QED  BY <1>3, <1>6, Constants

\* The budgets hold on, if that of the window that ends now and counts the call does.
LEMMA BudgetAfter ==
    ASSUME LimiterInv, NEW i \in Indices, NEW v \in {"admitted", "denied"},
           NEW via \in {"local", "redis"}, Decided(i, v, via),
           calls[i].verdict = "waiting", UNCHANGED <<redis, now>>,
           \A w \in Workers, id \in Identities :
               v = "admitted" /\ id = calls[i].id /\ (via = "local" => w = calls[i].worker) =>
                   (Cardinality(Spent(now, w, id, via)) <= Limit)'
    PROVE  BudgetInv'
<1>1. TypeOK /\ now \in Nat /\ \A k \in Indices : CallInv(k)
    BY CallFacts DEF LimiterInv
<1> SUFFICES ASSUME NEW t \in 0..now, NEW w \in Workers, NEW id \in Identities,
                    NEW x \in {"local", "redis"}
             PROVE  (Cardinality(Spent(t, w, id, x)) <= Limit)'
    BY DEF BudgetInv
<1>2. Cardinality(Spent(t, w, id, x)) <= Limit
    BY DEF LimiterInv, BudgetInv
<1>3. CASE \/ t < now
           \/ v = "denied" \/ x # via \/ calls[i].id # id
           \/ x = "local" /\ calls[i].worker # w
  <2>1. Spent(t, w, id, x)' = Spent(t, w, id, x)
    BY <1>1, <1>3, SpentAfter
  <2> QED  BY <1>2, <2>1
<1>4. CASE /\ t = now /\ v = "admitted" /\ x = via /\ calls[i].id = id
           /\ x = "local" => calls[i].worker = w
  <2>1. (Cardinality(Spent(now, w, id, x)) <= Limit)'
    BY <1>4
  <2>2. Spent(t, w, id, x)' = Spent(now, w, id, x)'
    BY <1>4 DEF Spent
  <2> QED  BY <2>1, <2>2
<1> QED  BY <1>1, <1>3, <1>4

\* Nothing of deque or sorted set that the decision does not concern.
LEMMA OtherDeques ==
    ASSUME LimiterInv, NEW i \in Indices, NEW v \in {"admitted", "denied"},
           NEW via \in {"local", "redis"}, Decided(i, v, via),
           calls[i].verdict = "waiting", UNCHANGED <<redis, now>>,
           NEW w \in Workers, NEW id \in Identities, local'[w][id] = local[w][id],
           v = "denied" \/ via # "local" \/ calls[i].id # id \/ calls[i].worker # w
    PROVE  DequeInv(w, id)'
<1>1. TypeOK /\ Indices' = Indices
    BY DEF LimiterInv, Decided, Indices
<1>2. /\ Admitted(w, id, "local")' = Admitted(w, id, "local")
      /\ \A k \in Admitted(w, id, "local") : calls'[k] = calls[k]
  <2>1. /\ \A k \in Admitted(w, id, "local") : calls'[k] = calls[k]
        /\ Admitted(w, id, "local")' =
              IF /\ v = "admitted" /\ "local" = via /\ calls[i].id = id
                 /\ "local" = "local" => calls[i].worker = w
              THEN Admitted(w, id, "local") \cup {i} ELSE Admitted(w, id, "local")
    BY <1>1, AdmittedAfter
  <2> QED  BY <2>1
<1>3. PICK g \in [1..Len(local[w][id]) -> Indices] : Records(g, w, id)
    BY DEF LimiterInv, DequeInv
<1>4. Records(g, w, id)'
    BY <1>2, <1>3 DEF Records
<1> QED  BY <1>1, <1>3, <1>4 DEF DequeInv

\* What a sorted set records after a decision, whether it ran on Redis or not.
LEMMA SetsAfter ==
    ASSUME LimiterInv, NEW i \in Indices, NEW v \in {"admitted", "denied"},
           NEW via \in {"local", "redis"}, Decided(i, v, via),
           calls[i].verdict = "waiting", UNCHANGED <<redis, now>>,
           NEW w \in Workers, NEW id \in Identities,
           \/ zset'[id] = zset[id] /\ (via = "local" \/ calls[i].id # id)
           \/ zset'[id] = Added(id, calls[i].stamp)
    PROVE  SetInv(w, id)'
<1>1. TypeOK /\ calls[i].stamp <= now /\ calls[i].stamp \in Nat /\ now \in Nat
  <2>1. TypeOK /\ calls[i].stamp <= calls[i].done /\ calls[i].done <= now
    BY DEF LimiterInv, CallInv
  <2> QED  BY <2>1, CallFacts
<1> SUFFICES ASSUME NEW k \in Admitted(w, id, "redis")', calls'[k].stamp + Window > now
             PROVE  calls'[k].stamp \in zset'[id]
    BY DEF SetInv
<1>2. /\ \A j \in Admitted(w, id, "redis") : j \in Indices /\ calls'[j] = calls[j]
      /\ Admitted(w, id, "redis")' =
            IF /\ v = "admitted" /\ "redis" = via /\ calls[i].id = id
               /\ "redis" = "local" => calls[i].worker = w
            THEN Admitted(w, id, "redis") \cup {i} ELSE Admitted(w, id, "redis")
    BY <1>1, AdmittedAfter
<1>3. CASE k = i /\ k \notin Admitted(w, id, "redis")
    BY <1>2, <1>3 DEF Added, Decided
<1>4. CASE k \in Admitted(w, id, "redis")
  <2>1. calls'[k] = calls[k] /\ calls[k].stamp \in zset[id] /\ calls[k].stamp \in Nat
    BY <1>1, <1>2, <1>4, CallFacts DEF LimiterInv, SetInv
  <2> QED  BY <1>1, <2>1, Constants DEF Added
<1> QED  BY <1>2, <1>3, <1>4

\* What a worker's own check does to its deque: the first m entries have
\* expired, and the call is appended if it is admitted.
LocalStep(i, W, I, c, ok, m) ==
    /\ Decided(i, IF ok THEN "admitted" ELSE "denied", "local") /\ calls' \in Seq(CallType)
    /\ ok <=> Len(local[W][I]) - m < Limit
    /\ \A k \in 1..m : local[W][I][k] + Window <= c
    /\ m < Len(local[W][I]) => local[W][I][m + 1] + Window > c
    /\ Len(local'[W][I]) = Len(local[W][I]) - m + (IF ok THEN 1 ELSE 0)
    /\ \A p \in 1..(Len(local[W][I]) - m) : local'[W][I][p] = local[W][I][m + p]
    /\ ok => local'[W][I][Len(local[W][I]) - m + 1] = c
    /\ \A w \in Workers, id \in Identities : w # W \/ id # I => local'[w][id] = local[w][id]
    /\ local' \in [Workers -> [Identities -> Seq(Times)]]

\* A sequence that grows by one entry, or not at all.
LEMMA AppendFacts ==
    ASSUME NEW T, NEW s \in Seq(T), NEW e \in T, NEW ok \in BOOLEAN,
           NEW new, new = IF ok THEN Append(s, e) ELSE s
    PROVE  /\ new \in Seq(T) /\ Len(new) = Len(s) + (IF ok THEN 1 ELSE 0)
           /\ \A p \in 1..Len(s) : new[p] = s[p]
           /\ ok => new[Len(s) + 1] = e
<1>1. Len(s) \in Nat
    OBVIOUS
<1>2. CASE ok
    BY <1>1, <1>2, AppendProperties
<1>3. CASE ~ok
    BY <1>1, <1>3
<1> QED  BY <1>2, <1>3

\* LocalCheck is such a step.
LEMMA LocalCheckFacts ==
    ASSUME TypeOK, NEW i \in Indices, LocalCheck(i),
           NEW W, NEW I, NEW c, W = calls[i].worker, I = calls[i].id, c = calls[i].stamp
    PROVE  \E ok \in BOOLEAN, m \in 0..Len(local[W][I]) : LocalStep(i, W, I, c, ok, m)
<1>1. W \in Workers /\ I \in Identities /\ c \in Times /\ c \in Nat /\ Times \in SUBSET Nat
    BY CallFacts, Constants
<1>2. PICK D : D = local[W][I]
    OBVIOUS
<1>3. D \in Seq(Times)
    BY <1>1, <1>2 DEF TypeOK
<1>4. Len(D) \in Nat
    BY <1>3
<1>5. PICK T : T = Times
    OBVIOUS
<1>6. \E m \in 0..Len(D) :
         /\ Fresh(D, c) \in Seq(T) /\ Len(Fresh(D, c)) = Len(D) - m
         /\ \A p \in 1..(Len(D) - m) : Fresh(D, c)[p] = D[m + p]
         /\ \A k \in 1..m : D[k] + Window <= c
         /\ m < Len(D) => D[m + 1] + Window > c
  <2>1. T \in SUBSET Nat /\ D \in Seq(T) /\ c \in Nat
    BY <1>1, <1>3, <1>5
  <2> QED  BY ONLY <2>1, FreshFacts
<1>7. PICK window : window = Fresh(D, c)
    OBVIOUS
<1>8. PICK m \in 0..Len(D) :
         /\ window \in Seq(T) /\ Len(window) = Len(D) - m
         /\ \A p \in 1..(Len(D) - m) : window[p] = D[m + p]
         /\ \A k \in 1..m : D[k] + Window <= c
         /\ m < Len(D) => D[m + 1] + Window > c
    BY <1>6, <1>7
<1>9. PICK ok \in BOOLEAN : ok <=> Len(window) < Limit
    OBVIOUS
<1>10. PICK new : new = IF ok THEN Append(window, c) ELSE window
    OBVIOUS
<1>11. window = Fresh(local[calls[i].worker][calls[i].id], calls[i].stamp)
    BY <1>2, <1>7
<1>12. local' = [local EXCEPT ![W][I] = new]
    BY <1>9, <1>10, <1>11 DEF LocalCheck
<1>13. Decide(i, ok, "local")
    BY <1>9, <1>11 DEF LocalCheck, Decide
<1>14. calls' \in Seq(CallType) /\ Decided(i, IF ok THEN "admitted" ELSE "denied", "local")
    BY <1>13, DecideFacts
<1>15. /\ new \in Seq(T) /\ Len(new) = Len(window) + (IF ok THEN 1 ELSE 0)
       /\ \A p \in 1..Len(window) : new[p] = window[p]
       /\ ok => new[Len(window) + 1] = c
  <2>1. window \in Seq(T) /\ c \in T
    BY <1>1, <1>5, <1>8
  <2> QED  BY ONLY <2>1, <1>10, ok \in BOOLEAN, AppendFacts
<1>16. /\ local'[W][I] = new
       /\ \A w \in Workers, id \in Identities : w # W \/ id # I => local'[w][id] = local[w][id]
       /\ local' \in [Workers -> [Identities -> Seq(Times)]]
    BY <1>1, <1>5, <1>12, <1>15 DEF TypeOK
<1>17. Len(window) = Len(D) - m /\ Len(D) - m \in Nat
    BY <1>4, <1>8
<1>18. \A p \in 1..(Len(D) - m) : new[p] = D[m + p]
    BY <1>8, <1>15, <1>17
<1>19. LocalStep(i, W, I, c, ok, m)
    BY <1>2, <1>8, <1>9, <1>14, <1>15, <1>16, <1>17, <1>18 DEF LocalStep
<1> QED  BY <1>2, <1>8, <1>19

\* A decision that a worker takes by itself, without Redis or after it failed.
LEMMA LocalCheckHolds ==
    ASSUME LimiterInv, NEW i \in Indices, LocalCheck(i), calls[i].verdict = "waiting",
           UNCHANGED <<redis, now>>, zset' \in [Identities -> SUBSET Times],
           \A id \in Identities :
               zset'[id] = zset[id] \/ zset'[id] = Added(id, calls[i].stamp)
    PROVE  LimiterInv'
<1>1. TypeOK /\ \A k \in Indices : CallInv(k)
    BY DEF LimiterInv
<1>2. PICK W \in Workers, I \in Identities, c \in Nat :
         W = calls[i].worker /\ I = calls[i].id /\ c = calls[i].stamp
    BY <1>1, CallFacts
<1>3. c <= now /\ now <= c + Lag /\ now \in Nat
    BY <1>1, <1>2, CallFacts DEF CallInv
<1>4. PICK ok \in BOOLEAN, m \in 0..Len(local[W][I]) : LocalStep(i, W, I, c, ok, m)
    BY <1>1, <1>2, LocalCheckFacts
<1>5. PICK D, E, n : D = local[W][I] /\ E = local'[W][I] /\ n = Len(D) - m
    OBVIOUS
<1>6. /\ Decided(i, IF ok THEN "admitted" ELSE "denied", "local") /\ calls' \in Seq(CallType)
      /\ ok <=> n < Limit
      /\ \A k \in 1..m : D[k] + Window <= c
      /\ m < Len(D) => D[m + 1] + Window > c
      /\ Len(E) = n + (IF ok THEN 1 ELSE 0)
      /\ \A p \in 1..n : E[p] = D[m + p]
      /\ ok => E[n + 1] = c
      /\ \A w \in Workers, id \in Identities : w # W \/ id # I => local'[w][id] = local[w][id]
      /\ local' \in [Workers -> [Identities -> Seq(Times)]]
    BY <1>4, <1>5 DEF LocalStep
<1>7. PICK v \in {"admitted", "denied"} : v = IF ok THEN "admitted" ELSE "denied"
    OBVIOUS
<1>8. Decided(i, v, "local")
    BY <1>6, <1>7
<1>9. D \in Seq(Times) /\ Len(D) <= Limit /\ Limit \in Nat \ {0}
    BY <1>5, Constants, <1>1 DEF TypeOK
<1>10. Len(D) \in Nat /\ n \in 0..Limit /\ m \in 0..Len(D) /\ n = Len(D) - m
  <2>1. Len(D) \in Nat
    BY <1>9
  <2> QED  BY <2>1, <1>4, <1>5, <1>9
<1>11. (\A k \in Indices : CallInv(k))' /\ StampInv' /\ Len(calls') <= MaxCalls
    BY <1>6, <1>8, CallsAfter
<1>12. TypeOK'
  <2>1. Len(E) <= Limit
    BY <1>6, <1>10, <1>9
  <2>2. ASSUME NEW w \in Workers, NEW id \in Identities PROVE Len(local'[w][id]) <= Limit
    <3>1. CASE w = W /\ id = I
      BY <2>1, <3>1, <1>5
    <3>2. CASE w # W \/ id # I
      BY <1>1, <1>6, <3>2 DEF TypeOK
    <3> QED  BY <3>1, <3>2
  <2> QED  BY <1>1, <1>6, <1>11, <2>2 DEF TypeOK, CallType
<1>13. /\ Indices' = Indices
       /\ i \notin Admitted(W, I, "local")
       /\ \A k \in Admitted(W, I, "local") : k \in Indices /\ calls'[k] = calls[k]
       /\ Admitted(W, I, "local")' =
             IF ok THEN Admitted(W, I, "local") \cup {i} ELSE Admitted(W, I, "local")
  <2>1. /\ i \notin Admitted(W, I, "local")
        /\ \A k \in Admitted(W, I, "local") : k \in Indices /\ calls'[k] = calls[k]
        /\ Admitted(W, I, "local")' =
              IF /\ v = "admitted" /\ "local" = "local" /\ calls[i].id = I
                 /\ "local" = "local" => calls[i].worker = W
              THEN Admitted(W, I, "local") \cup {i} ELSE Admitted(W, I, "local")
    BY <1>1, <1>8, AdmittedAfter
  <2>2. Indices' = Indices
    BY <1>8 DEF Decided, Indices
  <2> QED  BY <1>2, <1>7, <2>1, <2>2
<1>14. PICK g \in [1..Len(D) -> Indices] : Records(g, W, I)
    BY <1>5 DEF LimiterInv, DequeInv
<1>15. /\ \A p \in 1..Len(D) : g[p] \in Admitted(W, I, "local") /\ calls[g[p]].stamp = D[p]
      /\ \A p, q \in 1..Len(D) : p < q => g[p] # g[q] /\ calls[g[p]].done <= calls[g[q]].done
    BY <1>14, <1>5 DEF Records
<1>16. \A k \in Admitted(W, I, "local") : calls[k].stamp + Window > now =>
            \E p \in 1..Len(D) : g[p] = k
    BY <1>14, <1>5 DEF Records
<1>17. /\ \A p \in 1..n : m + p \in 1..Len(D)
       /\ \A p \in 1..Len(E) : p \in 1..n \/ (ok /\ p = n + 1)
       /\ 1..n \subseteq 1..Len(E) /\ (ok => n + 1 \in 1..Len(E))
  <2>1. n \in Nat /\ Len(E) \in Nat /\ Len(E) = n + (IF ok THEN 1 ELSE 0)
    BY <1>6, <1>10
  <2>2. \A p \in 1..n : m + p \in 1..Len(D)
    BY <1>10
  <2>3. \A p \in 1..Len(E) : p \in 1..n \/ (ok /\ p = n + 1)
    BY <2>1
  <2>4. 1..n \subseteq 1..Len(E) /\ (ok => n + 1 \in 1..Len(E))
    BY <2>1
  <2> QED  BY <2>2, <2>3, <2>4
<1>18. PICK h : h = [p \in 1..Len(E) |-> IF p <= n THEN g[m + p] ELSE i]
    OBVIOUS
<1>19. ASSUME NEW p \in 1..n
       PROVE  /\ h[p] = g[m + p] /\ h[p] \in Admitted(W, I, "local")
              /\ calls'[h[p]] = calls[g[m + p]] /\ calls'[h[p]].stamp = E[p]
              /\ h[p] \in Admitted(W, I, "local")' /\ h[p] \in Indices /\ h[p] # i
  <2>1. h[p] = g[m + p] /\ m + p \in 1..Len(D)
    BY <1>17, <1>18
  <2>2. g[m + p] \in Admitted(W, I, "local") /\ calls[g[m + p]].stamp = D[m + p]
    BY <2>1, <1>15
  <2> QED  BY <2>1, <2>2, <1>6, <1>13
<1>20. ASSUME ok
       PROVE  /\ h[n + 1] = i /\ i \in Admitted(W, I, "local")' /\ calls'[i].done = now
              /\ calls'[i].stamp = E[n + 1]
  <2>1. n + 1 \in 1..Len(E) /\ ~(n + 1 <= n)
    BY <1>17, <1>10, <1>20
  <2>2. calls'[i].stamp = c /\ calls'[i].done = now
    BY <1>2, <1>8 DEF Decided
  <2>3. h[n + 1] = i
    BY <2>1, <1>18
  <2> QED  BY <2>2, <2>3, <1>20, <1>6, <1>13
<1>21. h \in [1..Len(E) -> Indices]
  <2>1. ASSUME NEW p \in 1..Len(E) PROVE h[p] \in Indices
    <3>1. CASE p \in 1..n
      BY <3>1, <1>19
    <3>2. CASE ok /\ p = n + 1
      BY <3>2, <1>20
    <3> QED  BY <3>1, <3>2, <1>17
  <2> QED  BY <2>1, <1>18
<1>22. ASSUME NEW p \in 1..Len(E)
       PROVE  h[p] \in Admitted(W, I, "local")' /\ calls'[h[p]].stamp = E[p]
  <2>1. CASE p \in 1..n
    BY <2>1, <1>19
  <2>2. CASE ok /\ p = n + 1
    BY <2>2, <1>20
  <2> QED  BY <2>1, <2>2, <1>17
<1>23. ASSUME NEW p \in 1..Len(E), NEW q \in 1..Len(E), p < q
       PROVE  h[p] # h[q] /\ calls'[h[p]].done <= calls'[h[q]].done
  <2>1. p \in 1..n
    <3>1. n \in Nat /\ Len(E) \in Nat /\ Len(E) <= n + 1
      BY <1>6, <1>10
    <3> QED  BY <3>1, <1>23
  <2>2. m + p \in 1..Len(D)
    BY <1>17, <2>1
  <2>3. CASE q \in 1..n
    <3>1. m + q \in 1..Len(D) /\ m + p < m + q
      BY <2>1, <2>3, <1>23, <1>17, <1>10
    <3>2. g[m + p] # g[m + q] /\ calls[g[m + p]].done <= calls[g[m + q]].done
      BY <2>2, <3>1, <1>15
    <3> QED  BY <1>19, <2>1, <2>3, <3>2
  <2>4. CASE ok /\ q = n + 1
    <3>1. h[p] # i /\ calls'[h[p]] = calls[g[m + p]] /\ g[m + p] \in Indices
      BY <1>19, <2>1
    <3>2. calls[g[m + p]].done <= now
      BY <3>1, <1>1 DEF CallInv
    <3> QED  BY <1>20, <2>4, <3>1, <3>2
  <2> QED  BY <1>17, <2>3, <2>4
<1>24. ASSUME NEW k \in Admitted(W, I, "local")', calls'[k].stamp + Window > now
       PROVE  \E p \in 1..Len(E) : h[p] = k
  <2>1. CASE ok /\ k = i
    BY <2>1, <1>17, <1>20
  <2>2. CASE k \in Admitted(W, I, "local")
    <3>1. calls[k].stamp + Window > now
      BY <2>2, <1>24, <1>13
    <3>2. PICK p \in 1..Len(D) : g[p] = k
      BY <2>2, <3>1, <1>16
    <3>3. calls[k].stamp = D[p] /\ D[p] \in Nat
      <4>1. calls[g[p]].stamp = D[p]
        BY <1>15
      <4>2. k \in Indices
        BY <1>13, <2>2
      <4> QED  BY <1>1, <3>2, <4>1, <4>2, CallFacts
    <3>4. ~(p <= m)
      <4>1. D[p] + Window > c
        BY <1>2, <1>3, <3>1, <3>3, Constants
      <4>2. \A j \in 1..m : D[j] + Window <= c
        BY <1>6
      <4>3. ASSUME p <= m PROVE p \in 1..m
        BY <1>10, <4>3
      <4> QED  BY <1>2, <3>3, <4>1, <4>2, <4>3, Constants
    <3>5. p - m \in 1..n /\ m + (p - m) = p
      BY <3>4, <1>10
    <3> QED  BY <1>17, <1>19, <3>2, <3>5
  <2> QED  BY <1>13, <2>1, <2>2
<1>25. DequeInv(W, I)'
  <2>1. Records(h, W, I)'
    BY <1>5, <1>3, <1>22, <1>23, <1>24 DEF Records
  <2> QED  BY <2>1, <1>5, <1>13, <1>21 DEF DequeInv
<1>26. ASSUME NEW w \in Workers, NEW id \in Identities PROVE DequeInv(w, id)' /\ SetInv(w, id)'
  <2>1. CASE w = W /\ id = I
    BY <2>1, <1>25, <1>8, SetsAfter
  <2>2. CASE w # W \/ id # I
    BY <2>2, <1>2, <1>8, <1>6, OtherDeques, SetsAfter
  <2> QED  BY <2>1, <2>2
<1>27. BudgetInv'
  <2>1. \A w \in Workers, id \in Identities :
           (Cardinality(Spent(now, w, id, "local")) <= Limit)'
    <3>1. (\A w \in Workers, id \in Identities :
              TypeOK /\ (\A k \in Indices : CallInv(k)) /\ DequeInv(w, id) =>
                  Cardinality(Spent(now, w, id, "local")) <= Limit)'
      BY DequeBounds, PTL
    <3> QED  BY <3>1, <1>11, <1>12, <1>26
  <2> QED  BY <2>1, <1>1, <1>8, BudgetAfter
<1>28. ASSUME ~ok PROVE (Cardinality(AdmittedIn(Window + Lag, i, "local")) >= Limit)'
  <2>1. n = Limit /\ Len(E) = n /\ m + 1 \in 1..Len(D) /\ m < Len(D)
    BY <1>28, <1>6, <1>10, <1>9
  <2>2. /\ g[m + 1] \in Indices /\ calls[g[m + 1]].stamp = D[m + 1]
        /\ calls[g[m + 1]].stamp + Window > c
    BY <2>1, <1>6, <1>15 DEF Admitted
  <2>3. calls[g[m + 1]].done \in Nat /\ calls[g[m + 1]].done + Window > c /\ c + Lag >= now
    <3>1. g[m + 1] \in Indices /\ CallInv(g[m + 1])
      BY <2>2, <1>1
    <3>2. calls[g[m + 1]].stamp \in Nat /\ calls[g[m + 1]].done \in Nat
      BY <3>1, <1>1, CallFacts
    <3>3. calls[g[m + 1]].stamp <= calls[g[m + 1]].done
      BY <3>1 DEF CallInv
    <3>4. PICK a, b : a = calls[g[m + 1]].done /\ b = calls[g[m + 1]].stamp
      OBVIOUS
    <3>5. a \in Nat /\ b \in Nat /\ b <= a /\ b + Window > c
      BY <2>2, <3>2, <3>3, <3>4
    <3>6. a + Window > c
      BY <1>2, <3>5, Constants
    <3> QED  BY <1>3, <3>4, <3>5, <3>6
  <2>4. ASSUME NEW p \in 1..n
        PROVE  /\ h[p] \in Indices /\ h[p] \in Admitted(W, I, "local")'
               /\ calls'[h[p]].done <= now /\ calls'[h[p]].done + (Window + Lag) > now
    <3>1. /\ h[p] \in Indices /\ h[p] \in Admitted(W, I, "local")'
          /\ calls'[h[p]] = calls[g[m + p]]
          /\ m + p \in 1..Len(D) /\ g[m + p] \in Indices
      BY <1>17, <1>19
    <3>2. calls[g[m + p]].done \in Nat /\ calls[g[m + p]].done <= now
      BY <3>1, <1>1, CallFacts DEF CallInv
    <3>3. calls[g[m + 1]].done <= calls[g[m + p]].done
      <4>1. CASE p = 1
        BY <4>1, <2>3
      <4>2. CASE p # 1
        <5>1. m + 1 < m + p
          BY <4>2, <1>10
        <5> QED  BY <5>1, <2>1, <3>1, <1>15
      <4> QED  BY <4>1, <4>2
    <3>4. calls[g[m + p]].done + (Window + Lag) > now
      <4>1. Lag \in Nat /\ Window \in Nat /\ now \in Nat /\ c \in Nat
        BY <1>2, <1>3, Constants
      <4>2. PICK a, b : a = calls[g[m + 1]].done /\ b = calls[g[m + p]].done
        OBVIOUS
      <4>3. a \in Nat /\ b \in Nat /\ a <= b /\ a + Window > c /\ c + Lag >= now
        BY <2>3, <3>2, <3>3, <4>2
      <4>4. b + (Window + Lag) > now
        BY <4>1, <4>3
      <4> QED  BY <4>2, <4>4
    <3> QED  BY <3>1, <3>2, <3>4
  <2>5. Lag' = Lag /\ calls'[i].done = now /\ calls'[i].worker = W /\ calls'[i].id = I
    BY <1>2, <1>8 DEF Lag, Decided
  <2>6. \A p \in 1..n : h[p] \in AdmittedIn(Window + Lag, i, "local")'
    BY <2>4, <2>5 DEF AdmittedIn, Admitted, Indices
  <2>7. PICK A : A = AdmittedIn(Window + Lag, i, "local")'
    OBVIOUS
  <2>8. [p \in 1..n |-> h[p]] \in Injection(1..n, A)
    <3>1. ASSUME NEW p \in 1..n, NEW q \in 1..n, h[p] = h[q] PROVE p = q
      <4>1. p \in 1..Len(E) /\ q \in 1..Len(E) /\ p \in Int /\ q \in Int
        BY <1>17
      <4>2. ~(p < q) /\ ~(q < p)
        BY <4>1, <3>1, <1>23
      <4> QED  BY <4>1, <4>2
    <3> QED  BY <2>6, <2>7, <3>1 DEF Injection, IsInjective
  <2>9. IsFiniteSet(A)
    <3>1. A \subseteq Indices
      BY <2>7, <1>13 DEF AdmittedIn, Indices
    <3> QED  BY <3>1, <1>1, FiniteIndices, FS_Subset
  <2>10. IsFiniteSet(1..n) /\ Cardinality(1..n) = n
    <3>1. n \in Nat /\ 1 \in Int /\ n \in Int
      BY <1>10
    <3> QED  BY <3>1, FS_Interval
  <2>11. Cardinality(1..n) <= Cardinality(A)
    BY <2>8, <2>9, FS_Injection
  <2> QED  BY <2>1, <2>7, <2>9, <2>10, <2>11, <1>9, FS_CardinalityType
<1>29. DeniedOnlyWhenSpent'
    BY <1>6, <1>7, <1>8, <1>28, DenialsAfter
<1> QED  BY <1>11, <1>12, <1>13, <1>26, <1>27, <1>29 DEF LimiterInv

\* A decision that Redis takes.
LEMMA CheckInRedisHolds ==
    ASSUME LimiterInv, NEW i \in Indices, CheckInRedis(i)
    PROVE  LimiterInv'
<1>1. TypeOK /\ \A k \in Indices : CallInv(k)
    BY DEF LimiterInv
<1>2. PICK I \in Identities, c \in Times : I = calls[i].id /\ c = calls[i].stamp
    BY <1>1, CallFacts
<1>3. PICK ok \in BOOLEAN : ok <=> Cardinality(Added(I, c)) <= Limit
    OBVIOUS
<1>4. PICK v \in {"admitted", "denied"} : v = IF ok THEN "admitted" ELSE "denied"
    OBVIOUS
<1>5. /\ redis /\ calls[i].verdict = "waiting" /\ UNCHANGED <<redis, now, local>>
      /\ zset' = [zset EXCEPT ![I] = Added(I, c)]
      /\ Decide(i, ok, "redis")
    BY <1>2, <1>3 DEF CheckInRedis, Decide
<1>6. calls' \in Seq(CallType) /\ Decided(i, v, "redis")
  <2>1. calls' \in Seq(CallType) /\ Decided(i, IF ok THEN "admitted" ELSE "denied", "redis")
    BY <1>1, <1>5, DecideFacts
  <2> QED  BY <1>4, <2>1
<1>7. Added(I, c) \subseteq Times
    BY <1>1, <1>2 DEF Added, TypeOK
<1>8. /\ zset' \in [Identities -> SUBSET Times] /\ zset'[I] = Added(I, c)
      /\ \A id \in Identities : id # I => zset'[id] = zset[id]
    BY <1>1, <1>2, <1>5, <1>7 DEF TypeOK
<1>9. (\A k \in Indices : CallInv(k))' /\ StampInv' /\ Len(calls') <= MaxCalls
    BY <1>5, <1>6, CallsAfter
<1>10. TypeOK'
    BY <1>1, <1>5, <1>6, <1>8, <1>9 DEF TypeOK, CallType
<1>11. ASSUME NEW w \in Workers, NEW id \in Identities PROVE DequeInv(w, id)' /\ SetInv(w, id)'
  <2>1. DequeInv(w, id)'
    BY <1>5, <1>6, OtherDeques
  <2>2. \/ zset'[id] = zset[id] /\ calls[i].id # id
        \/ zset'[id] = Added(id, calls[i].stamp)
    BY <1>2, <1>8
  <2> QED  BY <1>5, <1>6, <2>1, <2>2, SetsAfter
<1>12. (\A w \in Workers, id \in Identities :
          /\ TypeOK /\ (\A k \in Indices : CallInv(k)) /\ StampInv /\ SetInv(w, id)
          /\ redis /\ Cardinality(zset[id]) <= Limit
          => Cardinality(Spent(now, w, id, "redis")) <= Limit)'
    BY SetBounds, PTL
<1>13. BudgetInv'
  <2>1. ASSUME NEW x \in Workers, ok PROVE (Cardinality(Spent(now, x, I, "redis")) <= Limit)'
    <3>1. redis' /\ Cardinality(zset'[I]) <= Limit
      BY <1>3, <1>5, <1>8, <2>1
    <3> QED  BY <1>9, <1>10, <1>11, <1>12, <3>1
  <2>2. \A w \in Workers, id \in Identities :
           v = "admitted" /\ id = calls[i].id /\ ("redis" = "local" => w = calls[i].worker) =>
               (Cardinality(Spent(now, w, id, "redis")) <= Limit)'
    BY <1>2, <1>4, <2>1
  <2> QED  BY <1>5, <1>6, <2>2, BudgetAfter
<1>14. DeniedOnlyWhenSpent'
    BY <1>5, <1>6, DenialsAfter
<1> QED  BY <1>9, <1>10, <1>11, <1>13, <1>14 DEF LimiterInv

-----------------------------------------------------------------------------
(* The other steps *)

\* What a step leaves of the calls that it does not decide.
LEMMA AdmittedKept ==
    ASSUME TypeOK, Len(calls) <= Len(calls'),
           \A k \in Indices : calls'[k] = calls[k],
           \A k \in Indices' : k \notin Indices => calls'[k].verdict = "waiting",
           NEW w, NEW id, NEW x
    PROVE  /\ Admitted(w, id, x)' = Admitted(w, id, x)
           /\ \A k \in Admitted(w, id, x) : k \in Indices /\ calls'[k] = calls[k]
<1>1. Admitted(w, id, x) \subseteq Indices /\ Admitted(w, id, x)' \subseteq Indices'
    BY DEF Admitted
<1>2. Indices \subseteq Indices'
  <2>1. Len(calls) \in Nat
    BY CallFacts
  <2> QED  BY <2>1 DEF Indices
<1>3. ASSUME NEW k \in Indices PROVE k \in Admitted(w, id, x)' <=> k \in Admitted(w, id, x)
    BY <1>2 DEF Admitted
<1>4. ASSUME NEW k \in Indices', k \notin Indices PROVE k \notin Admitted(w, id, x)'
    BY <1>4 DEF Admitted
<1> QED  BY <1>1, <1>2, <1>3, <1>4

\* A call reads the clock.
LEMMA ArriveHolds ==
    ASSUME LimiterInv, NEW W \in Workers, NEW I \in Identities, Arrive(W, I)
    PROVE  LimiterInv'
<1>1. TypeOK /\ calls \in Seq(CallType) /\ Len(calls) \in Nat /\ now \in Nat /\ now \in Times
    BY CallFacts DEF LimiterInv, TypeOK
<1>2. PICK e : e = [worker |-> W, id |-> I, stamp |-> now, done |-> now,
                    verdict |-> "waiting", via |-> "none"]
    OBVIOUS
<1>3. /\ e \in CallType /\ e.stamp = now /\ e.done = now /\ e.verdict = "waiting"
      /\ e.via = "none" /\ e.id = I
    BY <1>1, <1>2 DEF CallType, Verdicts
<1>4. calls' = Append(calls, e) /\ UNCHANGED <<redis, now, local, zset>>
    BY <1>2 DEF Arrive
<1>5. PICK n \in Nat : n = Len(calls)
    BY <1>1
<1>6. /\ calls' \in Seq(CallType) /\ Len(calls') = n + 1 /\ calls'[n + 1] = e
      /\ \A k \in 1..n : calls'[k] = calls[k]
    BY <1>1, <1>3, <1>4, <1>5, AppendProperties
<1>7. /\ Indices = 1..n /\ Indices' = 1..(n + 1) /\ Lag' = Lag
      /\ \A k \in Indices' : k \in Indices \/ k = n + 1
    BY <1>4, <1>5, <1>6 DEF Indices, Lag
<1>8. ASSUME NEW k \in Indices'
      PROVE  CallInv(k)'
  <2>1. CASE k = n + 1
    BY <2>1, <1>1, <1>3, <1>4, <1>6, <1>7, Constants DEF CallInv
  <2>2. CASE k \in Indices
    BY <2>2, <1>4, <1>6, <1>7 DEF CallInv, LimiterInv
  <2> QED  BY <1>7, <2>1, <2>2
<1>9. StampInv'
  <2> SUFFICES ASSUME redis, NEW j \in Indices', NEW k \in Indices',
                      calls'[j].id = calls'[k].id, calls'[j].stamp = calls'[k].stamp
               PROVE  j = k
    BY <1>4 DEF StampInv
  <2>1. \A l \in Indices : calls[l].id = I => calls[l].stamp # now
    BY DEF Arrive, Indices
  <2>2. CASE j \in Indices /\ k \in Indices
    BY <2>2, <1>6, <1>7 DEF LimiterInv, StampInv
  <2>3. CASE j = n + 1 /\ k \in Indices
    BY <2>1, <2>3, <1>3, <1>6, <1>7
  <2>4. CASE k = n + 1 /\ j \in Indices
    BY <2>1, <2>4, <1>3, <1>6, <1>7
  <2> QED  BY <1>7, <2>2, <2>3, <2>4
<1>10. TypeOK'
  <2>1. Len(calls') <= MaxCalls
    BY <1>5, <1>6, Constants DEF Arrive
  <2> QED  BY <1>1, <1>4, <1>6, <2>1 DEF TypeOK, CallType
<1>11. ASSUME NEW w, NEW id, NEW x
       PROVE  /\ Admitted(w, id, x)' = Admitted(w, id, x)
              /\ \A k \in Admitted(w, id, x) : k \in Indices /\ calls'[k] = calls[k]
  <2>1. /\ Len(calls) <= Len(calls') /\ \A k \in Indices : calls'[k] = calls[k]
        /\ \A k \in Indices' : k \notin Indices => calls'[k].verdict = "waiting"
    BY <1>3, <1>5, <1>6, <1>7
  <2> QED  BY <1>1, <2>1, AdmittedKept
<1>12. BudgetInv'
  <2>1. ASSUME NEW t, NEW w, NEW id, NEW x PROVE Spent(t, w, id, x)' = Spent(t, w, id, x)
    BY <1>7, <1>11 DEF Spent
  <2> QED  BY <1>4, <2>1 DEF LimiterInv, BudgetInv
<1>13. ASSUME NEW w \in Workers, NEW id \in Identities PROVE DequeInv(w, id)' /\ SetInv(w, id)'
  <2>1. SetInv(w, id)'
    <3>1. SetInv(w, id)
      BY DEF LimiterInv
    <3>2. /\ Admitted(w, id, "redis")' = Admitted(w, id, "redis")
          /\ \A k \in Admitted(w, id, "redis") : calls'[k] = calls[k]
      BY <1>11
    <3> QED  BY <1>4, <3>1, <3>2 DEF SetInv
  <2>2. PICK g \in [1..Len(local[w][id]) -> Indices] : Records(g, w, id)
    BY DEF LimiterInv, DequeInv
  <2>3. Records(g, w, id)'
    <3>1. /\ Admitted(w, id, "local")' = Admitted(w, id, "local")
          /\ \A k \in Admitted(w, id, "local") : calls'[k] = calls[k]
          /\ local' = local /\ now' = now
      BY <1>4, <1>11
    <3>2. \A p \in 1..Len(local[w][id]) :
             g[p] \in Admitted(w, id, "local") /\ calls[g[p]].stamp = local[w][id][p]
      BY <2>2 DEF Records
    <3>3. \A p, q \in 1..Len(local[w][id]) :
             p < q => g[p] # g[q] /\ calls'[g[p]].done <= calls'[g[q]].done
      BY <2>2, <3>1, <3>2 DEF Records
    <3>4. \A k \in Admitted(w, id, "local") : calls'[k].stamp + Window > now =>
             \E p \in 1..Len(local[w][id]) : g[p] = k
      BY <2>2, <3>1 DEF Records
    <3> QED  BY <3>1, <3>2, <3>3, <3>4 DEF Records
  <2>4. g \in [1..Len(local[w][id]) -> Indices'] /\ local' = local
    BY <1>4, <1>7, <2>2
  <2> QED  BY <2>1, <2>3, <2>4 DEF DequeInv
<1>14. DeniedOnlyWhenSpent'
  <2> SUFFICES ASSUME NEW j \in Indices', calls'[j].verdict = "denied", calls'[j].via = "local"
               PROVE  (Cardinality(AdmittedIn(Window + Lag, j, "local")) >= Limit)'
    BY DEF DeniedOnlyWhenSpent, Indices
  <2>1. j \in Indices /\ calls'[j] = calls[j]
    BY <1>3, <1>6, <1>7
  <2>2. Cardinality(AdmittedIn(Window + Lag, j, "local")) >= Limit
    BY <2>1 DEF LimiterInv, DeniedOnlyWhenSpent, Indices
  <2>3. AdmittedIn(Window + Lag, j, "local")' = AdmittedIn(Window + Lag, j, "local")
    <3>1. ASSUME NEW k \in Indices
          PROVE  k \in AdmittedIn(Window + Lag, j, "local")' <=>
                     k \in AdmittedIn(Window + Lag, j, "local")
      BY <2>1, <1>6, <1>7 DEF AdmittedIn, Indices
    <3>2. n + 1 \notin AdmittedIn(Window + Lag, j, "local")'
      BY <1>3, <1>6 DEF AdmittedIn
    <3>3. /\ AdmittedIn(Window + Lag, j, "local") \subseteq Indices
          /\ AdmittedIn(Window + Lag, j, "local")' \subseteq Indices'
      BY DEF AdmittedIn, Indices
    <3> QED  BY <1>7, <3>1, <3>2, <3>3
  <2> QED  BY <2>2, <2>3
<1> QED  BY <1>8, <1>9, <1>10, <1>12, <1>13, <1>14 DEF LimiterInv

\* Time passes, and idle keys of Redis expire.
LEMMA TickHolds ==
    ASSUME LimiterInv, Tick
    PROVE  LimiterInv'
<1>1. TypeOK /\ now \in Nat /\ Len(calls) \in Nat
    BY CallFacts DEF LimiterInv
<1>2. /\ now' = now + 1 /\ UNCHANGED <<redis, calls, local>>
      /\ Indices' = Indices /\ Lag' = Lag
      /\ now' \in Times
    BY <1>1, Constants DEF Tick, Indices, Lag, Times, TypeOK
<1>3. ASSUME NEW id \in Identities
      PROVE  /\ zset'[id] = zset[id] \/ zset'[id] = {}
             /\ zset'[id] = {} => \A s \in zset[id] : s + Window + Second <= now'
    BY DEF Tick, Expires
<1>4. zset' \in [Identities -> SUBSET Times]
  <2>1. zset' = [id \in Identities |-> zset'[id]]
    BY DEF Tick
  <2>2. \A id \in Identities : zset'[id] \in SUBSET Times
    BY <1>1, <1>3 DEF TypeOK
  <2> QED  BY <2>1, <2>2
<1>5. TypeOK'
    BY <1>1, <1>2, <1>4 DEF TypeOK
<1>6. ASSUME NEW k \in Indices PROVE CallInv(k)'
  <2>1. CallInv(k) /\ calls[k].stamp \in Nat /\ calls[k].done \in Nat /\ Lag \in Nat
    BY <1>1, CallFacts, Constants DEF LimiterInv
  <2>2. calls[k].verdict = "waiting" => now < calls[k].stamp + Lag
    BY DEF Tick, Indices
  <2> QED  BY <1>1, <1>2, <2>1, <2>2 DEF CallInv
<1>7. StampInv'
    BY <1>2 DEF LimiterInv, StampInv
<1>8. ASSUME NEW w, NEW id, NEW x
      PROVE  /\ Admitted(w, id, x)' = Admitted(w, id, x)
             /\ Admitted(w, id, x) \subseteq Indices
    BY <1>2 DEF Admitted
<1>9. BudgetInv'
  <2> SUFFICES ASSUME NEW t \in 0..(now + 1), NEW w \in Workers, NEW id \in Identities,
                      NEW x \in {"local", "redis"}
               PROVE  Cardinality(Spent(t, w, id, x)') <= Limit
    BY <1>2 DEF BudgetInv
  <2>1. Spent(t, w, id, x)' = Spent(t, w, id, x)
    BY <1>2, <1>8 DEF Spent
  <2>2. CASE t <= now
    BY <1>1, <2>1, <2>2 DEF LimiterInv, BudgetInv
  <2>3. CASE t = now + 1
    <3>1. Cardinality(Spent(now, w, id, x)) <= Limit
      BY <1>1 DEF LimiterInv, BudgetInv
    <3>2. Spent(t, w, id, x) \subseteq Spent(now, w, id, x)
      <4> SUFFICES ASSUME NEW k \in Spent(t, w, id, x) PROVE k \in Spent(now, w, id, x)
        OBVIOUS
      <4>1. k \in Admitted(w, id, x) /\ k \in Indices /\ calls[k].done + (Window - Lag) > t
        BY <1>8 DEF Spent
      <4>2. calls[k].done <= now /\ calls[k].done \in Nat
        BY <4>1, <1>1, CallFacts DEF LimiterInv, CallInv
      <4> QED  BY <4>1, <4>2, <2>3, <1>1, Constants DEF Spent
    <3>3. /\ IsFiniteSet(Spent(now, w, id, x)) /\ Cardinality(Spent(now, w, id, x)) \in Nat
          /\ Cardinality(Spent(t, w, id, x)) \in Nat
      BY <1>1, FiniteSpent
    <3>4. Cardinality(Spent(t, w, id, x)) <= Cardinality(Spent(now, w, id, x))
      BY <3>2, <3>3, FS_Subset
    <3> QED  BY <2>1, <3>1, <3>3, <3>4, Constants
  <2> QED  BY <1>1, <2>2, <2>3
<1>10. ASSUME NEW w \in Workers, NEW id \in Identities PROVE DequeInv(w, id)' /\ SetInv(w, id)'
  <2>1. SetInv(w, id)'
    <3> SUFFICES ASSUME NEW k \in Admitted(w, id, "redis"), calls[k].stamp + Window > now + 1
                 PROVE  calls[k].stamp \in zset'[id]
      BY <1>2, <1>8 DEF SetInv
    <3>1. calls[k].stamp \in Nat
      BY <1>1, <1>8, CallFacts
    <3>2. calls[k].stamp \in zset[id]
      BY <1>1, <3>1, Constants DEF LimiterInv, SetInv
    <3>3. zset'[id] # {}
      BY <1>1, <1>2, <1>3, <3>1, <3>2, Constants
    <3> QED  BY <1>3, <3>2, <3>3
  <2>2. PICK g \in [1..Len(local[w][id]) -> Indices] : Records(g, w, id)
    BY DEF LimiterInv, DequeInv
  <2>3. Records(g, w, id)'
    <3>1. ASSUME NEW k \in Admitted(w, id, "local"), calls[k].stamp + Window > now + 1
          PROVE  calls[k].stamp + Window > now
      <4>1. calls[k].stamp \in Nat
        BY <1>1, <1>8, CallFacts
      <4> QED  BY <1>1, <3>1, <4>1, Constants
    <3> QED  BY <1>2, <1>8, <2>2, <3>1 DEF Records
  <2> QED  BY <2>1, <2>2, <2>3, <1>2 DEF DequeInv
<1>11. DeniedOnlyWhenSpent'
    BY <1>2 DEF LimiterInv, DeniedOnlyWhenSpent, AdmittedIn
<1> QED  BY <1>2, <1>5, <1>6, <1>7, <1>9, <1>10, <1>11 DEF LimiterInv

-----------------------------------------------------------------------------
(* The theorems *)

\* No call yet.
LEMMA LimiterInit == Init => LimiterInv
<1> SUFFICES ASSUME Init PROVE LimiterInv
    OBVIOUS
<1>1. /\ calls = <<>> /\ now = Window /\ redis \in BOOLEAN /\ Indices = {}
      /\ local = [w \in Workers |-> [id \in Identities |-> <<>>]]
      /\ zset = [id \in Identities |-> {}]
    BY DEF Init, Indices
<1>2. TypeOK
  <2>1. /\ <<>> \in Seq(CallType) /\ Len(<<>>) = 0 /\ <<>> \in Seq(Times)
        /\ 0 <= MaxCalls /\ 0 <= Limit
    BY Constants
  <2> QED  BY <1>1, <2>1, Constants DEF TypeOK, CallType
<1>3. \A w, id, x : Admitted(w, id, x) = {}
    BY <1>1 DEF Admitted
<1>4. BudgetInv
  <2>1. \A t, w, id, x : Spent(t, w, id, x) = {}
    BY <1>3 DEF Spent
  <2>2. Cardinality({}) = 0
    BY FS_EmptySet
  <2> QED  BY <2>1, <2>2, Constants DEF BudgetInv
<1>5. ASSUME NEW w \in Workers, NEW id \in Identities PROVE DequeInv(w, id) /\ SetInv(w, id)
  <2>1. local[w][id] = <<>> /\ Len(local[w][id]) = 0
    BY <1>1
  <2>2. PICK g : g = [p \in 1..0 |-> p]
    OBVIOUS
  <2>3. g \in [1..Len(local[w][id]) -> Indices]
    BY <2>1, <2>2
  <2>4. Records(g, w, id)
    BY <1>3, <2>1 DEF Records
  <2> QED  BY <1>3, <2>3, <2>4 DEF DequeInv, SetInv
<1>6. DeniedOnlyWhenSpent /\ StampInv /\ \A k \in Indices : CallInv(k)
    BY <1>1 DEF DeniedOnlyWhenSpent, StampInv, Indices
<1> QED  BY <1>2, <1>4, <1>5, <1>6 DEF LimiterInv

\* The inductive step.
LEMMA LimiterNext == LimiterInv /\ [Next]_vars => LimiterInv'
<1> SUFFICES ASSUME LimiterInv, [Next]_vars PROVE LimiterInv'
    OBVIOUS
<1>1. TypeOK
    BY DEF LimiterInv
<1>2. ASSUME NEW w \in Workers, NEW id \in Identities, Arrive(w, id) PROVE LimiterInv'
    BY <1>2, ArriveHolds
<1>3. ASSUME NEW i \in Indices, CheckLocally(i) PROVE LimiterInv'
  <2>1. LocalCheck(i) /\ calls[i].verdict = "waiting" /\ UNCHANGED <<redis, now, zset>>
    BY <1>3 DEF CheckLocally
  <2>2. /\ zset' \in [Identities -> SUBSET Times]
        /\ \A id \in Identities : zset'[id] = zset[id] \/ zset'[id] = Added(id, calls[i].stamp)
    BY <1>1, <2>1 DEF TypeOK
  <2> QED  BY <2>1, <2>2, LocalCheckHolds
<1>4. ASSUME NEW i \in Indices, CheckInRedis(i) PROVE LimiterInv'
    BY <1>4, CheckInRedisHolds
<1>5. ASSUME NEW i \in Indices, FallBack(i) PROVE LimiterInv'
  <2>1. /\ LocalCheck(i) /\ calls[i].verdict = "waiting" /\ UNCHANGED <<redis, now>>
        /\ \/ zset' = zset
           \/ zset' = [zset EXCEPT ![calls[i].id] = Added(calls[i].id, calls[i].stamp)]
    BY <1>5 DEF FallBack
  <2>2. /\ calls[i].id \in Identities /\ calls[i].stamp \in Times
        /\ zset \in [Identities -> SUBSET Times]
    BY <1>1, CallFacts DEF TypeOK
  <2>3. Added(calls[i].id, calls[i].stamp) \subseteq Times
    BY <2>2 DEF Added
  <2>4. zset' \in [Identities -> SUBSET Times]
    BY <2>1, <2>2, <2>3
  <2>5. \A id \in Identities : zset'[id] = zset[id] \/ zset'[id] = Added(id, calls[i].stamp)
    BY <2>1, <2>2
  <2> QED  BY <2>1, <2>4, <2>5, LocalCheckHolds
<1>6. CASE Tick
    BY <1>6, TickHolds
<1>7. CASE UNCHANGED vars
  <2>1. UNCHANGED <<redis, now, calls, local, zset>> /\ Lag' = Lag /\ Indices' = Indices
    BY <1>7 DEF vars, Lag, Indices
  <2>2. TypeOK' /\ StampInv' /\ DeniedOnlyWhenSpent'
    <3>1. TypeOK'
      BY <2>1 DEF LimiterInv, TypeOK
    <3>2. StampInv'
      BY <2>1 DEF LimiterInv, StampInv
    <3>3. \A j, x : AdmittedIn(Window + Lag, j, x)' = AdmittedIn(Window + Lag, j, x)
      BY <2>1 DEF AdmittedIn
    <3>4. DeniedOnlyWhenSpent'
      BY <2>1, <3>3 DEF LimiterInv, DeniedOnlyWhenSpent
    <3> QED  BY <3>1, <3>2, <3>4
  <2>3. \A k \in Indices : CallInv(k)'
    BY <2>1 DEF LimiterInv, CallInv
  <2>4. \A w, id, x : Admitted(w, id, x)' = Admitted(w, id, x)
    BY <2>1 DEF Admitted
  <2>5. BudgetInv'
    <3>1. \A t, w, id, x : Spent(t, w, id, x)' = Spent(t, w, id, x)
      BY <2>1, <2>4 DEF Spent
    <3> QED  BY <2>1, <3>1 DEF LimiterInv, BudgetInv
  <2>6. \A w \in Workers, id \in Identities : DequeInv(w, id)' /\ SetInv(w, id)'
    <3>1. ASSUME NEW w, NEW id, NEW g, Records(g, w, id) PROVE Records(g, w, id)'
      BY <2>1, <2>4, <3>1 DEF Records
    <3>2. ASSUME NEW w, NEW id, DequeInv(w, id) PROVE DequeInv(w, id)'
      BY <2>1, <3>1, <3>2 DEF DequeInv
    <3>3. ASSUME NEW w, NEW id, SetInv(w, id) PROVE SetInv(w, id)'
      BY <2>1, <2>4, <3>3 DEF SetInv
    <3> QED  BY <3>2, <3>3 DEF LimiterInv
  <2> QED  BY <2>1, <2>2, <2>3, <2>5, <2>6 DEF LimiterInv
<1> QED  BY <1>2, <1>3, <1>4, <1>5, <1>6, <1>7 DEF Next, Indices

\* Every reachable state satisfies the inductive invariant.
THEOREM LimiterInvariant == Spec => []LimiterInv
<1> QED  BY LimiterInit, LimiterNext, PTL DEF Spec

\* The budgets of the properties are those of BudgetInv.
LEMMA BudgetsHold == LimiterInv => SharedBudget /\ LocalBudget
<1> SUFFICES ASSUME LimiterInv, NEW i \in Indices, NEW x \in {"local", "redis"}
             PROVE  Cardinality(AdmittedIn(Window - Lag, i, x)) <= Limit
    BY DEF SharedBudget, LocalBudget, Indices
<1>1. /\ calls[i].done \in Nat /\ calls[i].worker \in Workers /\ calls[i].id \in Identities
      /\ calls[i].done <= now /\ now \in Nat
    BY CallFacts DEF LimiterInv, CallInv
<1>2. PICK t \in 0..now, w \in Workers, id \in Identities :
          t = calls[i].done /\ w = calls[i].worker /\ id = calls[i].id
    BY <1>1
<1>3. AdmittedIn(Window - Lag, i, x) = Spent(t, w, id, x)
    BY <1>2 DEF AdmittedIn, Spent, Admitted, Indices
<1> QED  BY <1>3 DEF LimiterInv, BudgetInv

\* The variables keep their types; in particular no deque outgrows the limit.
THEOREM LimiterStateIsTyped == Spec => []TypeOK
<1>1. LimiterInv => TypeOK
    BY DEF LimiterInv
<1> QED  BY <1>1, LimiterInvariant, PTL

\* Over all workers together Redis admits no more than the limit in any window,
\* although calls reach it out of the order of their timestamps (_check_redis).
THEOREM RedisAdmitsNoMoreThanTheLimit == Spec => []SharedBudget
<1>1. LimiterInv => SharedBudget
    BY BudgetsHold
<1> QED  BY <1>1, LimiterInvariant, PTL

\* No worker admits more than the limit by itself in any window, with Redis or
\* without (_check_local).
THEOREM WorkersAdmitNoMoreThanTheLimit == Spec => []LocalBudget
<1>1. LimiterInv => LocalBudget
    BY BudgetsHold
<1> QED  BY <1>1, LimiterInvariant, PTL

\* A worker turns a call away only if it admitted `limit` calls of the identity
\* itself within the window.
THEOREM DenialsAreJustified == Spec => []DeniedOnlyWhenSpent
<1>1. LimiterInv => DeniedOnlyWhenSpent
    BY DEF LimiterInv
<1> QED  BY <1>1, LimiterInvariant, PTL

\* A client that a worker's own window turned away finds room Retry-After later,
\* half a hundredth of a second allowed for the rounding, and not a second earlier.
THEOREM RetryAfterIsRight == Spec => []RetryAfterIsClose
<1>1. LimiterInv => RetryAfterIsClose
    BY RetryAfterHolds DEF LimiterInv
<1> QED  BY <1>1, LimiterInvariant, PTL
=============================================================================
