-------------------------- MODULE RateLimiterProofs --------------------------
(***************************************************************************)
(* Theorems about the fixed-window limiters, for any number of threads and *)
(* keys, any budgets and windows, and readings of the clock however stale. *)
(***************************************************************************)
EXTENDS RateLimiter, FiniteSetTheorems, TLAPS

LEMMA WindowType ==
    ASSUME NEW l \in Limiters
    PROVE  /\ Window(l) \in Nat
           /\ PruneAge(l) \in Nat
           /\ PruneAge(l) >= Window(l)
<1>1. Window(l) \in Nat
  <2>1. TicksPerSecond \in Nat /\ IpWindow \in Nat /\ WidgetWindow \in Nat
    BY SettingsAssumption
  <2>2. TicksPerSecond * IpWindow \in Nat /\ TicksPerSecond * WidgetWindow \in Nat
    BY <2>1
  <2> QED
    BY <2>2 DEF Window
<1>2. PruneFloor * TicksPerSecond \in Nat
  BY SettingsAssumption
<1> QED
  BY <1>1, <1>2 DEF PruneAge

\* A thread serves a call of a key that exists.
LEMMA KeyType ==
    ASSUME TypeOK, NEW t \in Threads
    PROVE  limiter[t] \in Limiters /\ key(t) \in Keys /\ now[t] \in Times
BY DEF TypeOK, key, Keys, Calls, Limiters

LEMMA WindowStartType ==
    ASSUME TypeOK, NEW l \in Limiters, NEW k \in Keys, NEW n \in Times
    PROVE  /\ WindowStart(l, k, n) \in Times
           /\ WindowCount(l, k, n) \in Nat
BY DEF TypeOK, WindowStart, WindowCount

LEMMA RetryType ==
    ASSUME TypeOK, NEW l \in Limiters, NEW k \in Keys, NEW n \in Times
    PROVE  /\ n + TicksPerSecond * retry_after(l, k, n) \in Int
           /\ WindowStart(l, k, n) + Window(l) \in Int
<1>1. /\ WindowStart(l, k, n) \in Int
      /\ Window(l) \in Int
      /\ n \in Int
      /\ TicksPerSecond \in Nat \ {0}
  BY WindowType, WindowStartType, SettingsAssumption DEF Times
<1>2. WindowStart(l, k, n) + Window(l) - n \in Int
  BY <1>1
<1>3. (WindowStart(l, k, n) + Window(l) - n) \div TicksPerSecond \in Int
  BY <1>1, <1>2
<1>4. retry_after(l, k, n) \in Int
  BY <1>3 DEF retry_after
<1>5. TicksPerSecond * retry_after(l, k, n) \in Int
  BY <1>1, <1>4
<1> QED
  BY <1>1, <1>5

\* Writing one entry of a table of two keys, read there and elsewhere.
LEMMA Entry ==
    ASSUME NEW S, NEW T, NEW V, NEW f \in [S -> [T -> V]], NEW v,
           NEW a \in S, NEW b \in T, NEW c \in S, NEW d \in T
    PROVE  [f EXCEPT ![a][b] = v][c][d] =
              IF c = a /\ d = b THEN v ELSE f[c][d]
<1>1. CASE c = a
  BY <1>1
<1>2. CASE c # a
  BY <1>2
<1> QED
  BY <1>1, <1>2

\* What a call let through makes of the buckets of its key and of the others.
LEMMA AllowWrites ==
    ASSUME TypeOK, NEW t \in Threads, Allow(t),
           NEW l \in Limiters, NEW k \in Keys
    PROVE  LET n == now[t] IN
           /\ l = limiter[t] /\ k = key(t) =>
                /\ start'[l][k] = WindowStart(l, k, n)
                /\ count'[l][k] = WindowCount(l, k, n) + 1
                /\ passed'[l][k] = Append(passed[l][k], n)
                /\ WindowCount(l, k, n) < max_requests(l)
           /\ ~(l = limiter[t] /\ k = key(t)) =>
                /\ start'[l][k] = start[l][k]
                /\ count'[l][k] = count[l][k]
                /\ passed'[l][k] = passed[l][k]
                /\ k \in held'[l] => k \in held[l]
<1> DEFINE m == limiter[t]
           h == key(t)
           n == now[t]
<1>1. m \in Limiters /\ h \in Keys
  BY KeyType
<1>2. /\ start \in [Limiters -> [Keys -> Times]]
      /\ count \in [Limiters -> [Keys -> Nat]]
      /\ passed \in [Limiters -> [Keys -> Seq(Times)]]
      /\ held \in [Limiters -> SUBSET Keys]
  BY DEF TypeOK
<1>3. /\ start' = [start EXCEPT ![m][h] = WindowStart(m, h, n)]
      /\ count' = [count EXCEPT ![m][h] = WindowCount(m, h, n) + 1]
      /\ passed' = [passed EXCEPT ![m][h] = Append(passed[m][h], n)]
      /\ held' = [held EXCEPT ![m] = Kept(m, n) \union {h}]
      /\ WindowCount(m, h, n) < max_requests(m)
  BY <1>1, <1>2 DEF Allow
<1>4. start'[l][k] = IF l = m /\ k = h THEN WindowStart(m, h, n) ELSE start[l][k]
  <2> HIDE DEF m, h, n
  <2> QED
    BY <1>1, <1>2, <1>3, Entry
<1>5. count'[l][k] = IF l = m /\ k = h THEN WindowCount(m, h, n) + 1
                                      ELSE count[l][k]
  <2> HIDE DEF m, h, n
  <2> QED
    BY <1>1, <1>2, <1>3, Entry
<1>6. passed'[l][k] = IF l = m /\ k = h THEN Append(passed[m][h], n)
                                       ELSE passed[l][k]
  <2> HIDE DEF m, h, n
  <2> QED
    BY <1>1, <1>2, <1>3, Entry
<1>7. ~(l = m /\ k = h) /\ k \in held'[l] => k \in held[l]
  <2> HIDE DEF m, h, n
  <2>1. Kept(m, n) \subseteq held[m]
    BY DEF Kept
  <2> QED
    BY <1>1, <1>2, <1>3, <2>1
<1> QED
  BY <1>3, <1>4, <1>5, <1>6, <1>7

LEMMA InitType == Init => TypeOK
BY SettingsAssumption DEF Init, TypeOK, Times, NoAnswer, Limiters

LEMMA NextType == TypeOK /\ [Next]_vars => TypeOK'
<1> SUFFICES ASSUME TypeOK, [Next]_vars PROVE TypeOK'
  OBVIOUS
<1>1. ASSUME NEW t \in Threads, Begin(t) PROVE TypeOK'
  BY <1>1 DEF TypeOK, Begin, buckets, NoAnswer, Limiters
<1>2. ASSUME NEW t \in Threads, ReadClock(t) PROVE TypeOK'
  BY <1>2 DEF TypeOK, ReadClock, buckets
<1>3. ASSUME NEW t \in Threads, Allow(t) PROVE TypeOK'
  <2> DEFINE l == limiter[t]
             k == key(t)
             n == now[t]
  <2>1. l \in Limiters /\ k \in Keys /\ n \in Times
    BY KeyType
  <2>2. WindowStart(l, k, n) \in Times /\ WindowCount(l, k, n) + 1 \in Nat
    BY <2>1, WindowStartType
  <2>3. Kept(l, n) \subseteq Keys
    BY <2>1 DEF Kept, TypeOK
  <2>4. held' \in [Limiters -> SUBSET Keys]
    BY <1>3, <2>1, <2>3 DEF Allow, TypeOK
  <2>5. start' \in [Limiters -> [Keys -> Times]]
    BY <1>3, <2>1, <2>2 DEF Allow, TypeOK
  <2>6. count' \in [Limiters -> [Keys -> Nat]]
    BY <1>3, <2>1, <2>2 DEF Allow, TypeOK
  <2>7. passed' \in [Limiters -> [Keys -> Seq(Times)]]
    BY <1>3, <2>1 DEF Allow, TypeOK
  <2>8. answer' \in [Threads -> [outcome : {"none", "passed", "refused"},
                                 retryAt : Int, opensAt : Int]]
    <3> DEFINE Answers == [outcome : {"none", "passed", "refused"},
                           retryAt : Int, opensAt : Int]
    <3>1. answer \in [Threads -> Answers]
      BY DEF TypeOK
    <3>2. CASE l = "ip"
      BY <1>3, <3>1, <3>2 DEF Allow
    <3>3. CASE l # "ip"
      <4>1. answer' = [answer EXCEPT ![t].outcome = "passed"]
        BY <1>3, <3>3 DEF Allow
      <4>2. answer[t] \in Answers
        BY <3>1
      <4>3. [answer[t] EXCEPT !.outcome = "passed"] \in Answers
        BY <4>2
      <4> QED
        BY <3>1, <4>1, <4>3
    <3> QED
      BY <3>2, <3>3
  <2>9. /\ pc' \in [Threads -> {"idle", "clock", "lock"}]
        /\ limiter' \in [Threads -> Limiters]
    BY <1>3 DEF Allow, TypeOK, Limiters
  <2> QED
    BY <1>3, <2>4, <2>5, <2>6, <2>7, <2>8, <2>9 DEF Allow, TypeOK
<1>4. ASSUME NEW t \in Threads, Deny(t) PROVE TypeOK'
  <2> DEFINE l == limiter[t]
             k == key(t)
             n == now[t]
  <2>1. l \in Limiters /\ k \in Keys /\ n \in Times
    BY KeyType
  <2>2. Kept(l, n) \subseteq Keys
    BY <2>1 DEF Kept, TypeOK
  <2>3. held' \in [Limiters -> SUBSET Keys]
    BY <1>4, <2>1, <2>2 DEF Deny, TypeOK
  <2>4. answer' \in [Threads -> [outcome : {"none", "passed", "refused"},
                                 retryAt : Int, opensAt : Int]]
    BY <1>4, <2>1, RetryType DEF Deny, TypeOK
  <2> QED
    BY <1>4, <2>3, <2>4 DEF Deny, TypeOK
<1>5. CASE Tick
  BY <1>5, SettingsAssumption DEF TypeOK, Tick, Times, buckets
<1>6. CASE UNCHANGED vars
  BY <1>6 DEF TypeOK, vars, buckets
<1> QED
  BY <1>1, <1>2, <1>3, <1>4, <1>5, <1>6 DEF Next

\* The limiters' and the threads' state keep their types.
THEOREM TypeCorrect == Spec => []TypeOK
BY InitType, NextType, PTL DEF Spec

-----------------------------------------------------------------------------
(* Readings of the clock may be stale but never from the future.           *)

ReadingsPast == \A t \in Threads : now[t] <= clock

LEMMA NextReadings ==
    TypeOK /\ ReadingsPast /\ [Next]_vars => ReadingsPast'
<1> SUFFICES ASSUME TypeOK, ReadingsPast, [Next]_vars PROVE ReadingsPast'
  OBVIOUS
<1> USE DEF TypeOK, ReadingsPast, Times
<1>1. ASSUME NEW t \in Threads, Begin(t) PROVE ReadingsPast'
  BY <1>1 DEF Begin
<1>2. ASSUME NEW t \in Threads, ReadClock(t) PROVE ReadingsPast'
  BY <1>2, SettingsAssumption DEF ReadClock
<1>3. ASSUME NEW t \in Threads, Allow(t) PROVE ReadingsPast'
  BY <1>3 DEF Allow
<1>4. ASSUME NEW t \in Threads, Deny(t) PROVE ReadingsPast'
  BY <1>4 DEF Deny
<1>5. CASE Tick
  BY <1>5, SettingsAssumption DEF Tick
<1>6. CASE UNCHANGED vars
  BY <1>6 DEF vars
<1> HIDE DEF TypeOK, ReadingsPast
<1> QED
  BY <1>1, <1>2, <1>3, <1>4, <1>5, <1>6 DEF Next

LEMMA Readings == Spec => [](TypeOK /\ ReadingsPast)
<1>1. Init => TypeOK /\ ReadingsPast
  BY InitType DEF Init, ReadingsPast
<1>2. TypeOK /\ ReadingsPast /\ [Next]_vars => (TypeOK /\ ReadingsPast)'
  BY NextType, NextReadings
<1> QED
  BY <1>1, <1>2, PTL DEF Spec

\* Only Allow and Deny touch the buckets.
LEMMA BucketsStill ==
    ASSUME TypeOK, [Next]_vars
    PROVE  \/ UNCHANGED buckets
           \/ \E t \in Threads : Allow(t)
           \/ \E t \in Threads : Deny(t)
BY DEF Next, vars, Begin, ReadClock, Tick

\* However late a thread takes the lock, a key that keeps its bucket has its
\* window moved only forward, by a window's length at least.
THEOREM Advance == Spec => WindowsAdvance
<1>1. TypeOK /\ [Next]_vars =>
        \A l \in Limiters : \A k \in held[l] \intersect held'[l] :
            \/ start'[l][k] = start[l][k]
            \/ start'[l][k] >= start[l][k] + Window(l)
  <2> SUFFICES ASSUME TypeOK, [Next]_vars,
                      NEW l \in Limiters, NEW k \in held[l], k \in held'[l]
               PROVE  \/ start'[l][k] = start[l][k]
                      \/ start'[l][k] >= start[l][k] + Window(l)
    OBVIOUS
  <2>0. k \in Keys
    BY DEF TypeOK
  <2>1. CASE UNCHANGED buckets
    BY <2>1 DEF buckets
  <2>2. ASSUME NEW t \in Threads, Allow(t)
        PROVE  \/ start'[l][k] = start[l][k]
               \/ start'[l][k] >= start[l][k] + Window(l)
    <3>1. limiter[t] \in Limiters /\ key(t) \in Keys /\ now[t] \in Times
      BY KeyType
    <3>2. CASE l = limiter[t] /\ k = key(t)
      <4>1. start'[l][k] = WindowStart(l, k, now[t])
        BY <2>0, <2>2, <3>2, AllowWrites
      <4>2. start[l][k] \in Int /\ now[t] \in Int /\ Window(l) \in Int
        BY <3>1, <3>2, WindowType DEF TypeOK, Times
      <4>3. CASE k \in Kept(l, now[t])
        BY <4>1, <4>2, <4>3 DEF WindowStart, InWindow
      <4>4. CASE k \notin Kept(l, now[t])
        <5>1. start[l][k] <= now[t] - PruneAge(l)
          BY <4>2, <4>4, WindowType DEF Kept
        <5> QED
          BY <4>1, <4>2, <4>4, <5>1, WindowType DEF WindowStart, InWindow
      <4> QED
        BY <4>3, <4>4
    <3>3. CASE ~(l = limiter[t] /\ k = key(t))
      BY <2>0, <2>2, <3>3, AllowWrites
    <3> QED
      BY <3>2, <3>3
  <2>3. ASSUME NEW t \in Threads, Deny(t) PROVE start'[l][k] = start[l][k]
    BY <2>3 DEF Deny
  <2> QED
    BY <2>1, <2>2, <2>3, BucketsStill
<1> QED
  BY <1>1, Readings, PTL DEF Spec, WindowsAdvance

\* A prune at any reading of the clock drops only buckets that are over.
THEOREM PruneIsSafe == Spec => PruneDropsExpired
<1>1. TypeOK /\ ReadingsPast /\ [Next]_vars =>
        \A l \in Limiters : \A k \in held[l] \ held'[l] :
            clock >= start[l][k] + Window(l)
  <2> SUFFICES ASSUME TypeOK, ReadingsPast, [Next]_vars,
                      NEW l \in Limiters, NEW k \in held[l], k \notin held'[l]
               PROVE  clock >= start[l][k] + Window(l)
    OBVIOUS
  <2>1. PICK t \in Threads : Allow(t) \/ Deny(t)
    BY BucketsStill DEF buckets
  <2>2. limiter[t] \in Limiters /\ key(t) \in Keys /\ now[t] \in Times
    BY KeyType
  <2>3. l = limiter[t] /\ k \notin Kept(l, now[t])
    BY <2>1, <2>2 DEF Allow, Deny, TypeOK
  <2>4. /\ start[l][k] \in Int /\ clock \in Int
        /\ now[t] \in Int /\ now[t] <= clock
    BY <2>2 DEF TypeOK, Times, ReadingsPast
  <2>5. start[l][k] <= now[t] - PruneAge(l)
    BY <2>3, <2>4, WindowType DEF Kept
  <2> QED
    BY <2>4, <2>5, WindowType
<1> QED
  BY <1>1, Readings, PTL DEF Spec, PruneDropsExpired

\* Whole seconds, truncated.
LEMMA DivBounds ==
    ASSUME NEW a \in Int, NEW d \in Nat \ {0}
    PROVE  /\ a \div d \in Int
           /\ d * (a \div d) <= a
           /\ a < d * (a \div d) + d
OBVIOUS

\* A window the call falls into, or opens, is not over at its reading.
LEMMA WindowIsOpen ==
    ASSUME TypeOK, NEW l \in Limiters, NEW k \in Keys, NEW n \in Times
    PROVE  WindowStart(l, k, n) + Window(l) - n > 0
<1>1. Window(l) > 0
  <2>1. TicksPerSecond \in Nat \ {0} /\ IpWindow \in Nat \ {0}
        /\ WidgetWindow \in Nat \ {0}
    BY SettingsAssumption
  <2>2. TicksPerSecond * IpWindow > 0 /\ TicksPerSecond * WidgetWindow > 0
    BY <2>1
  <2> QED
    BY <2>2 DEF Window
<1>2. start[l][k] \in Int /\ n \in Int /\ Window(l) \in Int
  BY WindowType DEF TypeOK, Times
<1> QED
  BY <1>1, <1>2 DEF WindowStart, InWindow

\* The wait that is told ends within a second of the window's end.
LEMMA RetryIsClose ==
    ASSUME TypeOK, NEW l \in Limiters, NEW k \in Keys, NEW n \in Times
    PROVE  LET early == (WindowStart(l, k, n) + Window(l))
                          - (n + TicksPerSecond * retry_after(l, k, n))
           IN  -TicksPerSecond < early /\ early < TicksPerSecond
<1> DEFINE left == WindowStart(l, k, n) + Window(l) - n
<1>1. /\ WindowStart(l, k, n) \in Int
      /\ Window(l) \in Int
      /\ n \in Int
      /\ TicksPerSecond \in Nat \ {0}
      /\ left \in Int
      /\ left > 0
  BY WindowType, WindowStartType, WindowIsOpen, SettingsAssumption DEF Times
<1>2. CASE left < TicksPerSecond
  <2>1. retry_after(l, k, n) = 1
    BY <1>2 DEF retry_after
  <2> QED
    BY <1>1, <1>2, <2>1
<1>3. CASE ~(left < TicksPerSecond)
  <2>1. retry_after(l, k, n) = left \div TicksPerSecond
    BY <1>3 DEF retry_after
  <2>2. /\ TicksPerSecond * retry_after(l, k, n) \in Int
        /\ TicksPerSecond * retry_after(l, k, n) <= left
        /\ left < TicksPerSecond * retry_after(l, k, n) + TicksPerSecond
    <3> HIDE DEF left
    <3> QED
      BY <1>1, <2>1, DivBounds
  <2> QED
    BY <1>1, <2>2
<1> QED
  BY <1>2, <1>3

\* A refused client is told to come back within a second of the end of its
\* window, however old the reading of the clock its refusal was computed from.
THEOREM RetryAfter == Spec => []RetryAfterIsClose
<1>1. Init => RetryAfterIsClose
  BY DEF Init, RetryAfterIsClose, NoAnswer
<1>2. TypeOK /\ RetryAfterIsClose /\ [Next]_vars => RetryAfterIsClose'
  <2> SUFFICES ASSUME TypeOK, RetryAfterIsClose, [Next]_vars,
                      NEW u \in Threads, answer'[u].outcome = "refused"
               PROVE  LET early == answer'[u].opensAt - answer'[u].retryAt
                      IN  -TicksPerSecond < early /\ early < TicksPerSecond
    BY DEF RetryAfterIsClose
  <2>1. CASE answer'[u] = answer[u]
    BY <2>1 DEF RetryAfterIsClose
  <2>2. ASSUME NEW t \in Threads, Begin(t) PROVE answer'[u] = answer[u]
    BY <2>2 DEF Begin, NoAnswer, TypeOK
  <2>3. ASSUME NEW t \in Threads, ReadClock(t) PROVE answer'[u] = answer[u]
    BY <2>3 DEF ReadClock
  <2>4. ASSUME NEW t \in Threads, Allow(t) PROVE answer'[u] = answer[u]
    <3>1. CASE u = t /\ limiter[t] # "ip"
      <4>1. answer' = [answer EXCEPT ![t].outcome = "passed"]
        BY <2>4, <3>1 DEF Allow
      <4>2. answer'[u].outcome = "passed"
        BY <3>1, <4>1 DEF TypeOK
      <4> QED
        BY <4>2
    <3>2. CASE ~(u = t /\ limiter[t] # "ip")
      BY <2>4, <3>2 DEF Allow, TypeOK
    <3> QED
      BY <3>1, <3>2
  <2>5. ASSUME NEW t \in Threads, Deny(t), u = t
        PROVE  LET early == answer'[u].opensAt - answer'[u].retryAt
               IN  -TicksPerSecond < early /\ early < TicksPerSecond
    <3>1. limiter[t] \in Limiters /\ key(t) \in Keys /\ now[t] \in Times
      BY KeyType
    <3>2. /\ answer'[u].retryAt = now[t] + TicksPerSecond *
                 retry_after(limiter[t], key(t), now[t])
          /\ answer'[u].opensAt =
                 WindowStart(limiter[t], key(t), now[t]) + Window(limiter[t])
      BY <2>5 DEF Deny, TypeOK
    <3> QED
      BY <3>1, <3>2, RetryIsClose
  <2>6. ASSUME NEW t \in Threads, Deny(t), u # t PROVE answer'[u] = answer[u]
    BY <2>6 DEF Deny, TypeOK
  <2>7. CASE Tick \/ UNCHANGED vars
    BY <2>1, <2>7 DEF Tick, vars
  <2> QED
    BY <2>1, <2>2, <2>3, <2>4, <2>5, <2>6, <2>7 DEF Next
<1> QED
  BY <1>1, <1>2, TypeCorrect, PTL DEF Spec

-----------------------------------------------------------------------------
(* A bucket counts the latest calls let through, those of its window.       *)

\* The last c of the readings s begin with b, and all come before e.
Latest(s, c, b, e) ==
    /\ c \in 1..Len(s)
    /\ s[Len(s) - c + 1] = b
    /\ \A i \in (Len(s) - c + 1)..Len(s) : s[i] < e

Counted ==
    \A l \in Limiters, k \in Keys : k \in held[l] =>
        /\ count[l][k] <= max_requests(l)
        /\ Latest(passed[l][k], count[l][k], start[l][k],
                  start[l][k] + Window(l))

\* One more call, the first of a window or within it.
LEMMA LatestAppend ==
    ASSUME NEW s \in Seq(Times), NEW n \in Times, NEW c \in Nat,
           NEW b \in Times, NEW e \in Int, n < e,
           (c = 0 /\ b = n) \/ Latest(s, c, b, e)
    PROVE  Latest(Append(s, n), c + 1, b, e)
<1> DEFINE z == Append(s, n)
           m == Len(s)
<1>1. /\ m \in Nat
      /\ Len(z) = m + 1
      /\ \A i \in 1..m : z[i] = s[i]
      /\ z[m + 1] = n
  OBVIOUS
<1> HIDE DEF z, m
<1>2. CASE c = 0 /\ b = n
  BY <1>1, <1>2 DEF Latest
<1>3. CASE Latest(s, c, b, e)
  <2>1. /\ c \in 1..m
        /\ s[m - c + 1] = b
        /\ \A i \in (m - c + 1)..m : s[i] < e
    BY <1>3 DEF Latest, m
  <2>2. c + 1 \in 1..Len(z)
    BY <1>1, <2>1
  <2>3. Len(z) - (c + 1) + 1 = m - c + 1
    BY <1>1
  <2>4. z[m - c + 1] = b
    BY <1>1, <2>1
  <2>5. ASSUME NEW i \in (m - c + 1)..(m + 1) PROVE z[i] < e
    <3>1. CASE i = m + 1
      BY <1>1, <3>1
    <3>2. CASE i # m + 1
      BY <1>1, <2>1, <3>2
    <3> QED
      BY <3>1, <3>2
  <2> QED
    BY <1>1, <2>2, <2>3, <2>4, <2>5 DEF Latest, z
<1> QED
  BY <1>2, <1>3

LEMMA BudgetType ==
    ASSUME NEW l \in Limiters
    PROVE  max_requests(l) \in Nat \ {0}
BY SettingsAssumption DEF max_requests

LEMMA NextCounted == TypeOK /\ Counted /\ [Next]_vars => Counted'
<1> SUFFICES ASSUME TypeOK, Counted, [Next]_vars PROVE Counted'
  OBVIOUS
<1>1. CASE UNCHANGED <<buckets, passed>>
  BY <1>1 DEF Counted, buckets
<1>2. ASSUME NEW t \in Threads, Allow(t) PROVE Counted'
  <2> SUFFICES ASSUME NEW l \in Limiters, NEW k \in Keys, k \in held'[l]
               PROVE  /\ count'[l][k] <= max_requests(l)
                      /\ Latest(passed'[l][k], count'[l][k], start'[l][k],
                                start'[l][k] + Window(l))
    BY DEF Counted
  <2>1. limiter[t] \in Limiters /\ key(t) \in Keys /\ now[t] \in Times
    BY KeyType
  <2>2. CASE l = limiter[t] /\ k = key(t)
    <3> DEFINE n == now[t]
               b == WindowStart(l, k, n)
               c == WindowCount(l, k, n)
               e == b + Window(l)
    <3>1. /\ passed'[l][k] = Append(passed[l][k], n)
          /\ start'[l][k] = b
          /\ count'[l][k] = c + 1
          /\ c < max_requests(l)
      BY <1>2, <2>2, AllowWrites
    <3>2. n \in Times /\ b \in Times /\ c \in Nat /\ passed[l][k] \in Seq(Times)
      BY <2>1, <2>2, WindowStartType DEF TypeOK
    <3>3. n \in Int /\ b \in Int /\ Window(l) \in Int
      BY <3>2, WindowType DEF Times
    <3>4. e \in Int /\ n < e
      <4>1. b + Window(l) - n > 0
        BY <3>2, WindowIsOpen
      <4> HIDE DEF b
      <4> QED
        BY <3>3, <4>1
    <3>5. (c = 0 /\ b = n) \/ Latest(passed[l][k], c, b, e)
      <4>1. CASE InWindow(l, k, n)
        <5>1. k \in held[l]
          BY <4>1 DEF InWindow, Kept
        <5> QED
          BY <4>1, <5>1 DEF Counted, WindowStart, WindowCount
      <4>2. CASE ~InWindow(l, k, n)
        BY <4>2 DEF WindowStart, WindowCount
      <4> QED
        BY <4>1, <4>2
    <3>6. Latest(Append(passed[l][k], n), c + 1, b, e)
      <4> HIDE DEF n, b, c, e
      <4> QED
        BY <3>2, <3>4, <3>5, LatestAppend
    <3>7. c + 1 <= max_requests(l)
      <4> HIDE DEF c
      <4> QED
        BY <3>1, <3>2, BudgetType
    <3> QED
      BY <3>1, <3>6, <3>7
  <2>3. CASE ~(l = limiter[t] /\ k = key(t))
    <3>1. /\ k \in held[l]
          /\ passed'[l][k] = passed[l][k]
          /\ start'[l][k] = start[l][k]
          /\ count'[l][k] = count[l][k]
      BY <1>2, <2>3, AllowWrites
    <3> QED
      BY <3>1 DEF Counted
  <2> QED
    BY <2>2, <2>3
<1>3. ASSUME NEW t \in Threads, Deny(t) PROVE Counted'
  <2>1. \A l \in Limiters : held'[l] \subseteq held[l]
    BY <1>3, KeyType DEF Deny, TypeOK, Kept
  <2>2. UNCHANGED <<start, count, passed>>
    BY <1>3 DEF Deny
  <2> QED
    BY <2>1, <2>2 DEF Counted
<1> QED
  BY <1>1, <1>2, <1>3 DEF Next, vars, Begin, ReadClock, Tick

LEMMA Counts == Spec => [](TypeOK /\ Counted)
<1>1. Init => TypeOK /\ Counted
  BY InitType DEF Init, Counted
<1>2. TypeOK /\ Counted /\ [Next]_vars => (TypeOK /\ Counted)'
  BY NextType, NextCounted
<1> QED
  BY <1>1, <1>2, PTL DEF Spec

\* A call is refused only when as many calls of its key as the budget allows
\* have got through since its window began, all of them in it.
THEOREM Refusals == Spec => RefusedMeansSpent
<1> DEFINE Refused(t) == answer'[t] # answer[t] /\ answer'[t].outcome = "refused"
<1>1. ASSUME TypeOK, Counted, [Next]_vars, NEW t \in Threads, Refused(t)
      PROVE  LET l == limiter[t]
                 p == passed[l][key(t)]
                 first == Len(p) - max_requests(l) + 1
                 ends == answer'[t].opensAt
             IN  /\ first >= 1
                 /\ p[first] = ends - Window(l)
                 /\ \A i \in first..Len(p) : p[i] < ends
                 /\ now[t] < ends
  <2>1. Deny(t)
    <3>1. ASSUME NEW u \in Threads, Begin(u) PROVE ~Refused(t)
      BY <1>1, <3>1 DEF Begin, TypeOK, NoAnswer
    <3>2. ASSUME NEW u \in Threads, ReadClock(u) PROVE ~Refused(t)
      BY <3>2 DEF ReadClock
    <3>3. ASSUME NEW u \in Threads, Allow(u) PROVE ~Refused(t)
      <4>1. CASE UNCHANGED answer
        BY <4>1
      <4>2. CASE answer' = [answer EXCEPT ![u].outcome = "passed"]
        BY <1>1, <4>2 DEF TypeOK
      <4> QED
        BY <3>3, <4>1, <4>2 DEF Allow
    <3>4. ASSUME NEW u \in Threads, Deny(u), u # t PROVE ~Refused(t)
      BY <1>1, <3>4 DEF Deny, TypeOK
    <3>5. CASE Tick \/ UNCHANGED vars
      BY <1>1, <3>5 DEF Tick, vars
    <3> HIDE DEF Refused
    <3> QED
      BY <1>1, <3>1, <3>2, <3>3, <3>4, <3>5 DEF Next
  <2> DEFINE l == limiter[t]
             k == key(t)
             n == now[t]
             p == passed[l][k]
             w == Window(l)
             m == max_requests(l)
  <2>2. l \in Limiters /\ k \in Keys /\ n \in Times
    BY <1>1, KeyType
  <2>3. /\ WindowCount(l, k, n) >= m
        /\ answer'[t].opensAt = WindowStart(l, k, n) + w
    BY <1>1, <2>1, <2>2 DEF Deny, TypeOK
  <2>4. InWindow(l, k, n)
    BY <2>2, <2>3, BudgetType DEF WindowCount
  <2>5. /\ k \in held[l]
        /\ WindowStart(l, k, n) = start[l][k]
        /\ WindowCount(l, k, n) = count[l][k]
    BY <2>4 DEF InWindow, Kept, WindowStart, WindowCount
  <2>6. count[l][k] = m /\ Latest(p, count[l][k], start[l][k], start[l][k] + w)
    <3>1. /\ count[l][k] <= m
          /\ Latest(p, count[l][k], start[l][k], start[l][k] + w)
      BY <1>1, <2>2, <2>5 DEF Counted
    <3>2. count[l][k] \in Nat /\ m \in Nat
      BY <1>1, <2>2, BudgetType DEF TypeOK
    <3> QED
      BY <2>3, <2>5, <3>1, <3>2
  <2>7. /\ start[l][k] \in Int /\ w \in Int /\ n \in Int
        /\ n - start[l][k] < w
    BY <1>1, <2>2, <2>4, WindowType DEF TypeOK, Times, InWindow
  <2>8. Len(p) \in Nat /\ m \in Nat
    BY <1>1, <2>2, BudgetType DEF TypeOK
  <2>9. answer'[t].opensAt = start[l][k] + w
    BY <2>3, <2>5
  <2> HIDE DEF l, k, n, p, w, m
  <2>10. /\ m \in 1..Len(p)
         /\ p[Len(p) - m + 1] = start[l][k]
         /\ \A i \in (Len(p) - m + 1)..Len(p) : p[i] < start[l][k] + w
    BY <2>6 DEF Latest
  <2>11. /\ Len(p) - m + 1 >= 1
         /\ start[l][k] = (start[l][k] + w) - w
         /\ n < start[l][k] + w
    BY <2>7, <2>8, <2>10
  <2> QED
    BY <2>9, <2>10, <2>11 DEF l, k, n, p, w, m
<1>2. TypeOK /\ Counted /\ [Next]_vars =>
        \A t \in Threads :
          answer'[t] # answer[t] /\ answer'[t].outcome = "refused" =>
             LET l == limiter[t]
                 p == passed[l][key(t)]
                 first == Len(p) - max_requests(l) + 1
                 ends == answer'[t].opensAt
             IN  /\ first >= 1
                 /\ p[first] = ends - Window(l)
                 /\ \A i \in first..Len(p) : p[i] < ends
                 /\ now[t] < ends
  BY <1>1
<1> QED
  BY <1>2, Counts, PTL DEF Spec, RefusedMeansSpent

-----------------------------------------------------------------------------
(* How much a flooding key gets through.                                   *)

\* Some thread has read the clock at x or later.
Reached(x) == \E t \in Threads : now[t] >= x

\* The threads before the lock with a reading older than x, and those with a
\* reading from x on and before y.
Behind(x) == {t \in Threads : pc[t] = "lock" /\ now[t] < x}
Inside(x, y) == {t \in Threads : pc[t] = "lock" /\ x <= now[t] /\ now[t] < y}

\* A prune may drop a bucket within the stretch that its window reaches into.
Drops(l) == ~(PruneAbove >= Cardinality(Keys) \/ PruneAge(l) >= 2 * Window(l))

\* Key k has no window that reaches beyond x.
Over(l, k, x) == k \notin held[l] \/ start[l][k] + Window(l) <= x

\* The windows that can still be opened with a reading older than x, once x
\* is reached.
Unopened(l, k, x) ==
    IF Drops(l) THEN Cardinality(Behind(x))
    ELSE IF Over(l, k, x) THEN 1 ELSE 0

\* What the windows opened so far can have let through with readings from x
\* on, as long as no thread has a reading beyond the stretch that x begins.
Allowance(l, k, x) ==
    LET left == max_requests(l) - 1
        opened == EarlierWindows(l) - Unopened(l, k, x)
    IN  IF Over(l, k, x) THEN opened * left
        ELSE IF start[l][k] < x THEN (opened - 1) * left + count[l][k] - 1
        ELSE EarlierWindows(l) * left + count[l][k]

\* The calls of the stretch that x begins.
Got(l, k, x) == PassedBetween(l, k, x, x + Window(l) - 1)

\* They are what the windows allow; once a thread reads the end of the
\* stretch, only the calls already before the lock are still to come.
Charged(l, k, x) ==
    /\ Reached(x) /\ ~Reached(x + Window(l)) =>
         Got(l, k, x) <= Allowance(l, k, x)
    /\ Reached(x + Window(l)) =>
         Got(l, k, x) + Cardinality(Inside(x, x + Window(l)))
             <= max_requests(l) + EarlierWindows(l) * (max_requests(l) - 1)
                  + Cardinality(Threads) - 1

\* Buckets and calls let through carry readings that some thread has reached,
\* and a bucket holds at least one call and at most the budget.
Met ==
    /\ \A l \in Limiters : \A k \in held[l] :
         /\ Reached(start[l][k])
         /\ 1 <= count[l][k] /\ count[l][k] <= max_requests(l)
    /\ \A l \in Limiters, k \in Keys : \A i \in DOMAIN passed[l][k] :
         Reached(passed[l][k][i])

FloodInv ==
    /\ TypeOK /\ ReadingsPast /\ Met
    /\ \A l \in Limiters, k \in Keys, x \in Times : Charged(l, k, x)

LEMMA LimiterNumbers ==
    ASSUME NEW l \in Limiters
    PROVE  /\ max_requests(l) \in Nat /\ max_requests(l) >= 1
           /\ Window(l) \in Nat /\ Window(l) >= 1
           /\ IsFiniteSet(Threads) /\ Cardinality(Threads) \in Nat
           /\ Drops(l) => EarlierWindows(l) = Cardinality(Threads)
           /\ ~Drops(l) => EarlierWindows(l) = 1
           /\ EarlierWindows(l) \in Nat
<1>1. max_requests(l) \in Nat /\ max_requests(l) >= 1
  BY SettingsAssumption DEF max_requests
<1>2. Window(l) \in Nat /\ Window(l) >= 1
  <2>1. TicksPerSecond \in Nat \ {0} /\ IpWindow \in Nat \ {0}
        /\ WidgetWindow \in Nat \ {0}
    BY SettingsAssumption
  <2>2. TicksPerSecond * IpWindow >= 1 /\ TicksPerSecond * WidgetWindow >= 1
    BY <2>1
  <2> QED
    BY <2>1, <2>2, WindowType DEF Window
<1>3. IsFiniteSet(Threads) /\ Cardinality(Threads) \in Nat
  BY FiniteAssumption, FS_CardinalityType
<1>4. /\ Drops(l) => EarlierWindows(l) = Cardinality(Threads)
      /\ ~Drops(l) => EarlierWindows(l) = 1
  BY DEF Drops, EarlierWindows
<1> QED
  BY <1>1, <1>2, <1>3, <1>4

\* With buckets for all keys the table is not pruned.
LEMMA NoPrune ==
    ASSUME TypeOK, NEW l \in Limiters, NEW n,
           PruneAbove >= Cardinality(Keys)
    PROVE  Kept(l, n) = held[l]
<1>1. IsFiniteSet(Keys)
  BY FiniteAssumption, FS_Union DEF Keys
<1>2. held[l] \in SUBSET Keys
  BY DEF TypeOK
<1>3. /\ Cardinality(held[l]) \in Nat /\ Cardinality(Keys) \in Nat
      /\ Cardinality(held[l]) <= Cardinality(Keys)
  BY <1>1, <1>2, FS_Subset, FS_CardinalityType
<1> QED
  BY <1>3, SettingsAssumption DEF Kept

\* The places in a sequence of readings that fall into from..to.
Hits(s, from, to) == {i \in DOMAIN s : from <= s[i] /\ s[i] <= to}

LEMMA HitsType ==
    ASSUME NEW s \in Seq(Times), NEW from, NEW to
    PROVE  /\ IsFiniteSet(Hits(s, from, to))
           /\ Cardinality(Hits(s, from, to)) \in Nat
<1>1. DOMAIN s = 1..Len(s) /\ Len(s) \in Nat
  OBVIOUS
<1>2. Hits(s, from, to) \in SUBSET (1..Len(s)) /\ IsFiniteSet(1..Len(s))
  BY <1>1, FS_Interval DEF Hits
<1> QED
  BY <1>2, FS_Subset, FS_CardinalityType

\* One more reading counts once in the stretches it falls into.
LEMMA HitsAppend ==
    ASSUME NEW s \in Seq(Times), NEW n \in Times, NEW from, NEW to
    PROVE  Cardinality(Hits(Append(s, n), from, to)) =
             IF from <= n /\ n <= to
             THEN Cardinality(Hits(s, from, to)) + 1
             ELSE Cardinality(Hits(s, from, to))
<1> DEFINE next == Len(s) + 1
<1>1. /\ Len(s) \in Nat /\ DOMAIN s = 1..Len(s)
      /\ DOMAIN Append(s, n) = 1..next
      /\ \A i \in 1..Len(s) : Append(s, n)[i] = s[i]
      /\ Append(s, n)[next] = n
  OBVIOUS
<1>2. next \notin Hits(s, from, to)
  BY <1>1 DEF Hits
<1>3. CASE from <= n /\ n <= to
  <2>1. Hits(Append(s, n), from, to) = Hits(s, from, to) \union {next}
    BY <1>1, <1>3 DEF Hits
  <2> QED
    BY <1>2, <1>3, <2>1, HitsType, FS_AddElement
<1>4. CASE ~(from <= n /\ n <= to)
  <2>1. Hits(Append(s, n), from, to) = Hits(s, from, to)
    BY <1>1, <1>4 DEF Hits
  <2> QED
    BY <1>4, <2>1
<1> QED
  BY <1>3, <1>4

LEMMA GotIs ==
    ASSUME NEW l, NEW k, NEW x
    PROVE  /\ Got(l, k, x) =
                Cardinality(Hits(passed[l][k], x, x + Window(l) - 1))
           /\ Got(l, k, x)' =
                Cardinality(Hits(passed'[l][k], x, x + Window(l) - 1))
BY DEF Got, PassedBetween, Hits

LEMMA GotType ==
    ASSUME TypeOK, NEW l \in Limiters, NEW k \in Keys, NEW x \in Times
    PROVE  Got(l, k, x) \in Nat
<1>1. passed[l][k] \in Seq(Times)
  BY DEF TypeOK
<1> QED
  BY <1>1, GotIs, HitsType

\* No call of the stretch gets through before a thread has read its begin.
LEMMA NothingYet ==
    ASSUME TypeOK, Met, NEW l \in Limiters, NEW k \in Keys, NEW x \in Times,
           ~Reached(x)
    PROVE  Got(l, k, x) = 0
<1> DEFINE s == passed[l][k]
           hits == {i \in DOMAIN s : x <= s[i] /\ s[i] <= x + Window(l) - 1}
<1>1. ASSUME NEW i \in hits PROVE FALSE
  <2>1. Reached(s[i])
    BY <1>1 DEF Met
  <2>2. s[i] \in Int /\ x \in Int
    <3>1. s \in Seq(Times)
      BY DEF TypeOK
    <3>2. i \in DOMAIN s
      BY <1>1
    <3>3. s[i] \in Times
      <4> HIDE DEF s
      <4> QED
        BY <3>1, <3>2
    <3> QED
      BY <3>3 DEF Times
  <2>3. PICK t \in Threads : now[t] >= s[i]
    BY <2>1 DEF Reached
  <2>4. now[t] \in Int
    BY DEF TypeOK, Times
  <2>5. now[t] >= x
    BY <1>1, <2>2, <2>3, <2>4
  <2> QED
    BY <2>5 DEF Reached
<1>2. hits = {}
  BY <1>1
<1> QED
  BY <1>2, FS_EmptySet DEF Got, PassedBetween

LEMMA LateThreads ==
    ASSUME NEW x, NEW y
    PROVE  /\ IsFiniteSet(Behind(x)) /\ IsFiniteSet(Inside(x, y))
           /\ Cardinality(Behind(x)) \in Nat
           /\ Cardinality(Inside(x, y)) \in Nat
<1>1. IsFiniteSet(Threads)
  BY FiniteAssumption
<1>2. Behind(x) \in SUBSET Threads /\ Inside(x, y) \in SUBSET Threads
  BY DEF Behind, Inside
<1>3. IsFiniteSet(Behind(x)) /\ IsFiniteSet(Inside(x, y))
  BY <1>1, <1>2, FS_Subset
<1> QED
  BY <1>3, FS_CardinalityType

\* A thread's reading only gets newer.
LEMMA ReadingsAdvance ==
    ASSUME TypeOK, ReadingsPast, [Next]_vars
    PROVE  \A t \in Threads : now'[t] >= now[t]
<1> SUFFICES ASSUME NEW u \in Threads PROVE now'[u] >= now[u]
  OBVIOUS
<1>1. now \in [Threads -> Times] /\ \A t \in Threads : now[t] \in Int
  BY DEF TypeOK, Times
<1>2. ASSUME NEW t \in Threads, Begin(t) \/ Allow(t) \/ Deny(t)
      PROVE  now'[u] >= now[u]
  BY <1>1, <1>2 DEF Begin, Allow, Deny
<1>3. ASSUME NEW t \in Threads, ReadClock(t) PROVE now'[u] >= now[u]
  BY <1>1, <1>3 DEF ReadClock, ReadingsPast, TypeOK, Times
<1>4. CASE Tick \/ UNCHANGED vars
  BY <1>1, <1>4 DEF Tick, vars
<1> QED
  BY <1>2, <1>3, <1>4 DEF Next

LEMMA ReachedStays ==
    ASSUME TypeOK, TypeOK', ReadingsPast, [Next]_vars, NEW x \in Int, Reached(x)
    PROVE  Reached(x)'
<1>1. PICK t \in Threads : now[t] >= x
  BY DEF Reached
<1>2. now[t] \in Int /\ now'[t] \in Int /\ now'[t] >= now[t]
  BY ReadingsAdvance DEF TypeOK, Times
<1>3. now'[t] >= x
  BY <1>1, <1>2
<1> QED
  BY <1>3 DEF Reached

\* What a step does to the threads before the lock, to the buckets and to the
\* calls let through: only Allow lets a call through, and a bucket goes only
\* by a prune at the reading of the thread that holds the lock.
LEMMA StepKinds ==
    ASSUME TypeOK, [Next]_vars
    PROVE  \/ UNCHANGED <<buckets, passed, pc, now>>
           \/ \E t \in Threads : Begin(t)
           \/ \E t \in Threads : ReadClock(t)
           \/ \E t \in Threads : Allow(t)
           \/ \E t \in Threads : Deny(t)
BY DEF Next, vars, Tick

\* Once x is reached no thread comes to wait with an older reading, and the
\* one that goes in to the lock is no longer waiting.
LEMMA FewerBehind ==
    ASSUME TypeOK, ReadingsPast, [Next]_vars, NEW x \in Int, Reached(x)
    PROVE  /\ Behind(x)' \subseteq Behind(x)
           /\ \A t \in Threads : Allow(t) => t \notin Behind(x)'
<1>1. \A t \in Threads : now[t] \in Int /\ now[t] <= clock /\ clock \in Int
  BY DEF TypeOK, Times, ReadingsPast
<1>2. clock >= x
  BY <1>1 DEF Reached
<1>3. CASE UNCHANGED <<buckets, passed, pc, now>>
  BY <1>3 DEF Behind, Allow, TypeOK
<1>4. ASSUME NEW u \in Threads, Begin(u)
      PROVE  /\ Behind(x)' \subseteq Behind(x)
             /\ \A t \in Threads : Allow(t) => t \notin Behind(x)'
  BY <1>4 DEF Behind, Begin, Allow, TypeOK
<1>5. ASSUME NEW u \in Threads, ReadClock(u)
      PROVE  /\ Behind(x)' \subseteq Behind(x)
             /\ \A t \in Threads : Allow(t) => t \notin Behind(x)'
  BY <1>1, <1>2, <1>5 DEF Behind, ReadClock, Allow, TypeOK
<1>6. ASSUME NEW u \in Threads, Allow(u) \/ Deny(u)
      PROVE  /\ Behind(x)' \subseteq Behind(x)
             /\ \A t \in Threads : Allow(t) => t \notin Behind(x)'
  BY <1>6 DEF Behind, Allow, Deny, TypeOK
<1> QED
  BY <1>3, <1>4, <1>5, <1>6, StepKinds

LEMMA FewerInside ==
    ASSUME TypeOK, ReadingsPast, [Next]_vars,
           NEW x \in Int, NEW y \in Int, Reached(y)
    PROVE  /\ Inside(x, y)' \subseteq Inside(x, y)
           /\ \A t \in Threads : Allow(t) => t \notin Inside(x, y)'
<1>1. \A t \in Threads : now[t] \in Int /\ now[t] <= clock /\ clock \in Int
  BY DEF TypeOK, Times, ReadingsPast
<1>2. clock >= y
  BY <1>1 DEF Reached
<1>3. CASE UNCHANGED <<buckets, passed, pc, now>>
  BY <1>3 DEF Inside, Allow, TypeOK
<1>4. ASSUME NEW u \in Threads, Begin(u)
      PROVE  /\ Inside(x, y)' \subseteq Inside(x, y)
             /\ \A t \in Threads : Allow(t) => t \notin Inside(x, y)'
  BY <1>4 DEF Inside, Begin, Allow, TypeOK
<1>5. ASSUME NEW u \in Threads, ReadClock(u)
      PROVE  /\ Inside(x, y)' \subseteq Inside(x, y)
             /\ \A t \in Threads : Allow(t) => t \notin Inside(x, y)'
  BY <1>1, <1>2, <1>5 DEF Inside, ReadClock, Allow, TypeOK
<1>6. ASSUME NEW u \in Threads, Allow(u) \/ Deny(u)
      PROVE  /\ Inside(x, y)' \subseteq Inside(x, y)
             /\ \A t \in Threads : Allow(t) => t \notin Inside(x, y)'
  BY <1>6 DEF Inside, Allow, Deny, TypeOK
<1> QED
  BY <1>3, <1>4, <1>5, <1>6, StepKinds

LEMMA Smaller ==
    ASSUME NEW E \in Int, NEW u \in Int, NEW u1 \in Int, NEW m \in Nat,
           u1 <= u
    PROVE  (E - u) * m <= (E - u1) * m
<1>1. (u - u1) * m \in Nat /\ (E - u) * m \in Int
  OBVIOUS
<1>2. (E - u1) * m = (E - u) * m + (u - u1) * m
  OBVIOUS
<1> QED
  BY <1>1, <1>2

\* A step that only drops buckets, and of the key in hand only one that a
\* prune may drop before the end of the stretch, takes nothing from what the
\* windows allow.
LEMMA AllowanceKept ==
    ASSUME TypeOK, Met, NEW l \in Limiters, NEW k \in Keys, NEW x \in Times,
           Behind(x)' \subseteq Behind(x),
           start'[l][k] = start[l][k], count'[l][k] = count[l][k],
           k \in held'[l] => k \in held[l],
           k \in held[l] \ held'[l] =>
               /\ start[l][k] < x
               /\ Drops(l) \/ Over(l, k, x)
    PROVE  Allowance(l, k, x)' >= Allowance(l, k, x)
<1> DEFINE m == max_requests(l) - 1
           E == EarlierWindows(l)
           W == Window(l)
           s == start[l][k]
           c == count[l][k]
           b == Cardinality(Behind(x))
           b1 == Cardinality(Behind(x))'
           u == Unopened(l, k, x)
           u1 == Unopened(l, k, x)'
<1>1. m \in Nat /\ E \in Nat /\ W \in Nat /\ s \in Int /\ c \in Nat /\ x \in Int
  BY LimiterNumbers DEF TypeOK, Times
<1>2. b \in Nat /\ b1 \in Nat /\ b1 <= b
  <2>1. IsFiniteSet(Behind(x)) /\ b \in Nat
    BY LateThreads
  <2> QED
    BY <2>1, FS_Subset, FS_CardinalityType
<1>3. Over(l, k, x) => Over(l, k, x)'
  BY DEF Over
<1>4. u \in Nat /\ u1 \in Nat
  BY <1>2 DEF Unopened
<1>5. (Over(l, k, x) <=> Over(l, k, x)') => u1 <= u
  BY <1>2 DEF Unopened
<1>6. (E - u) * m \in Int /\ (E - u - 1) * m \in Int
      /\ (E - u1) * m \in Int /\ (E - u1 - 1) * m \in Int /\ E * m \in Int
  BY <1>1, <1>4
<1>7. /\ (E - u - 1) * m = (E - u) * m - m
      /\ (E - u1 - 1) * m = (E - u1) * m - m
  BY <1>1, <1>4
<1>8. u1 <= u => (E - u) * m <= (E - u1) * m
  <2> HIDE DEF m, E, u, u1
  <2> QED
    BY <1>1, <1>4, Smaller
<1>9. Allowance(l, k, x) =
        IF Over(l, k, x) THEN (E - u) * m
        ELSE IF s < x THEN (E - u - 1) * m + c - 1
        ELSE E * m + c
  BY DEF Allowance
<1>10. Allowance(l, k, x)' =
        IF Over(l, k, x)' THEN (E - u1) * m
        ELSE IF s < x THEN (E - u1 - 1) * m + c - 1
        ELSE E * m + c
  BY DEF Allowance
<1>11. CASE Over(l, k, x) <=> Over(l, k, x)'
  <2>1. (E - u) * m <= (E - u1) * m
    BY <1>5, <1>8, <1>11
  <2> HIDE DEF m, E, s, c, u, u1
  <2> QED
    BY <1>1, <1>6, <1>7, <1>9, <1>10, <1>11, <2>1
<1>12. CASE ~Over(l, k, x) /\ Over(l, k, x)'
  <2>1. k \in held[l] /\ k \notin held'[l] /\ s < x /\ Drops(l)
    BY <1>12 DEF Over
  <2>2. u1 <= u
    BY <1>2, <2>1 DEF Unopened
  <2>3. c - 1 <= m
    BY <1>1, <2>1, LimiterNumbers DEF Met
  <2> HIDE DEF m, E, s, c, u, u1
  <2> QED
    BY <1>1, <1>6, <1>7, <1>8, <1>9, <1>10, <1>12, <2>1, <2>2, <2>3
<1> QED
  BY <1>3, <1>11, <1>12

LEMMA GotStep ==
    ASSUME TypeOK, NEW l \in Limiters, NEW k \in Keys, NEW x \in Times
    PROVE  /\ passed' = passed => Got(l, k, x)' = Got(l, k, x)
           /\ \A t \in Threads : Allow(t) =>
                Got(l, k, x)' =
                  IF /\ l = limiter[t] /\ k = key(t)
                     /\ x <= now[t] /\ now[t] < x + Window(l)
                  THEN Got(l, k, x) + 1
                  ELSE Got(l, k, x)
<1>1. passed' = passed => Got(l, k, x)' = Got(l, k, x)
  BY DEF Got, PassedBetween
<1>2. ASSUME NEW t \in Threads, Allow(t)
      PROVE  Got(l, k, x)' =
               IF /\ l = limiter[t] /\ k = key(t)
                  /\ x <= now[t] /\ now[t] < x + Window(l)
               THEN Got(l, k, x) + 1
               ELSE Got(l, k, x)
  <2> DEFINE s == passed[l][k]
             to == x + Window(l) - 1
             n == now[t]
  <2>1. limiter[t] \in Limiters /\ key(t) \in Keys /\ n \in Times
    BY KeyType
  <2>2. s \in Seq(Times)
    BY DEF TypeOK
  <2>3. n < x + Window(l) <=> n <= to
    BY <2>1, WindowType DEF Times
  <2>4. CASE l = limiter[t] /\ k = key(t)
    <3>1. passed'[l][k] = Append(s, n)
      BY <1>2, <2>4, AllowWrites
    <3>2. /\ Got(l, k, x) = Cardinality(Hits(s, x, to))
          /\ Got(l, k, x)' = Cardinality(Hits(Append(s, n), x, to))
      BY <3>1, GotIs
    <3> HIDE DEF s, to, n
    <3>3. Got(l, k, x)' = IF x <= n /\ n <= to THEN Got(l, k, x) + 1
                          ELSE Got(l, k, x)
      BY <2>1, <2>2, <3>2, HitsAppend
    <3> QED
      BY <2>3, <2>4, <3>3 DEF n
  <2>5. CASE ~(l = limiter[t] /\ k = key(t))
    <3>1. passed'[l][k] = s
      BY <1>2, <2>5, AllowWrites
    <3>2. Got(l, k, x)' = Got(l, k, x)
      BY <3>1 DEF Got, PassedBetween
    <3> QED
      BY <2>5, <3>2
  <2> QED
    BY <2>4, <2>5
<1> QED
  BY <1>1, <1>2

\* Before a thread reads the end of the stretch, a call of the key let through
\* fits what the windows allow: it takes from its own window, or opens the
\* first window that begins in the stretch, or is itself a thread that was
\* behind and opens one of the windows allowed for.
LEMMA AllowanceCovers ==
    ASSUME TypeOK, Met, NEW t \in Threads, Allow(t),
           NEW l \in Limiters, NEW k \in Keys, NEW n \in Times,
           l = limiter[t], k = key(t), n = now[t],
           NEW x \in Times, n < x + Window(l),
           Behind(x)' \subseteq Behind(x), t \notin Behind(x)',
           Got(l, k, x) <= Allowance(l, k, x)
    PROVE  Got(l, k, x)' <= Allowance(l, k, x)'
<1> DEFINE m == max_requests(l) - 1
           E == EarlierWindows(l)
           W == Window(l)
           s == start[l][k]
           c == count[l][k]
           s1 == start'[l][k]
           c1 == count'[l][k]
           b == Cardinality(Behind(x))
           b1 == Cardinality(Behind(x))'
           u == Unopened(l, k, x)
           u1 == Unopened(l, k, x)'
           P == Got(l, k, x)
           P1 == Got(l, k, x)'
<1>1. /\ m \in Nat /\ E \in Nat /\ W \in Nat /\ W >= 1 /\ n \in Int
      /\ s \in Int /\ c \in Nat /\ x \in Int /\ P \in Nat
  <2>1. P \in Nat
    BY GotType
  <2> QED
    BY <2>1, LimiterNumbers DEF TypeOK, Times
<1>2. /\ b \in Nat /\ b1 \in Nat /\ b1 <= b
      /\ n < x => b1 <= b - 1
  <2>1. IsFiniteSet(Behind(x)) /\ b \in Nat
    BY LateThreads
  <2>2. b1 \in Nat /\ b1 <= b
    BY <2>1, FS_Subset, FS_CardinalityType
  <2>3. ASSUME n < x PROVE b1 <= b - 1
    <3>1. t \in Behind(x)
      BY <2>3 DEF Behind, Allow
    <3>2. Behind(x)' \in SUBSET (Behind(x) \ {t})
      OBVIOUS
    <3>3. /\ IsFiniteSet(Behind(x) \ {t})
          /\ Cardinality(Behind(x) \ {t}) = b - 1
      BY <2>1, <3>1, FS_RemoveElement
    <3> QED
      BY <3>2, <3>3, FS_Subset
  <2> QED
    BY <2>1, <2>2, <2>3
<1>3. /\ k \in held'[l]
      /\ s1 = WindowStart(l, k, n)
      /\ c1 = WindowCount(l, k, n) + 1
  BY DEF Allow, TypeOK
<1>4. P1 = IF x <= n THEN P + 1 ELSE P
  BY <1>1, GotStep
<1>5. u \in Nat /\ u1 \in Nat
  BY <1>2 DEF Unopened
<1>6. (E - u) * m \in Int /\ (E - u - 1) * m \in Int
      /\ (E - u1) * m \in Int /\ (E - u1 - 1) * m \in Int /\ E * m \in Int
  BY <1>1, <1>5
<1>7. /\ (E - u - 1) * m = (E - u) * m - m
      /\ (E - u1 - 1) * m = (E - u1) * m - m
  BY <1>1, <1>5
<1>8. (E - u) * m <= E * m
  <2>1. u * m \in Nat /\ (E - u) * m = E * m - u * m
    BY <1>1, <1>5
  <2> QED
    BY <1>6, <2>1
<1>9. Allowance(l, k, x) =
        IF Over(l, k, x) THEN (E - u) * m
        ELSE IF s < x THEN (E - u - 1) * m + c - 1
        ELSE E * m + c
  BY DEF Allowance
<1>10. Allowance(l, k, x)' =
        IF Over(l, k, x)' THEN (E - u1) * m
        ELSE IF s1 < x THEN (E - u1 - 1) * m + c1 - 1
        ELSE E * m + c1
  BY DEF Allowance
<1>11. Over(l, k, x)' <=> s1 + W <= x
  BY <1>3 DEF Over
<1>12. CASE InWindow(l, k, n)
  <2>1. k \in held[l] /\ s1 = s /\ c1 = c + 1 /\ n - s < W
    BY <1>3, <1>12 DEF InWindow, Kept, WindowStart, WindowCount
  <2>2. Over(l, k, x)' <=> Over(l, k, x)
    BY <1>11, <2>1 DEF Over
  <2>3. u1 <= u
    BY <1>2, <2>2 DEF Unopened
  <2>4. (E - u) * m <= (E - u1) * m
    BY <1>1, <1>5, <2>3, Smaller
  <2>5. Over(l, k, x) => n < x
    BY <1>1, <2>1 DEF Over
  <2> HIDE DEF m, E, W, s, c, s1, c1, b, b1, u, u1, P, P1
  <2>6. P1 <= Allowance(l, k, x)'
    <3>1. P <= Allowance(l, k, x)
      BY DEF P
    <3>2. CASE Over(l, k, x)
      BY <1>1, <1>4, <1>6, <1>9, <1>10, <2>2, <2>4, <2>5, <3>1, <3>2
    <3>3. CASE ~Over(l, k, x)
      BY <1>1, <1>4, <1>6, <1>7, <1>9, <1>10, <2>1, <2>2, <2>4, <3>1, <3>3
    <3> QED
      BY <3>2, <3>3
  <2> QED
    BY <2>6 DEF P1
<1>13. CASE ~InWindow(l, k, n)
  <2>1. s1 = n /\ c1 = 1
    BY <1>3, <1>13 DEF WindowStart, WindowCount
  <2>2. k \in held[l] => s + W <= n
    <3>1. ASSUME k \in held[l], k \notin Kept(l, n) PROVE s + W <= n
      <4>1. s <= n - PruneAge(l)
        BY <1>1, <3>1, WindowType DEF Kept
      <4> QED
        BY <1>1, <4>1, WindowType
    <3> QED
      BY <1>1, <1>13, <3>1 DEF InWindow
  <2>3. ~Over(l, k, x) => k \in held[l] /\ s < x /\ x < n
    BY <1>1, <2>2 DEF Over
  <2>4. ~Over(l, k, x) => c - 1 <= m
    BY <1>1, <2>3, LimiterNumbers DEF Met
  <2>5. n < x => u1 <= u - (IF s1 + W <= x THEN 0 ELSE 1)
                 /\ Over(l, k, x)
    <3> SUFFICES ASSUME n < x
                 PROVE  /\ u1 <= u - (IF s1 + W <= x THEN 0 ELSE 1)
                        /\ Over(l, k, x)
      OBVIOUS
    <3>1. Over(l, k, x)
      BY <1>1, <2>3
    <3> QED
      BY <1>2, <1>11, <3>1 DEF Unopened
  <2> HIDE DEF m, E, W, s, c, s1, c1, b, b1, u, u1, P, P1
  <2>6. P1 <= Allowance(l, k, x)'
    <3>1. P <= Allowance(l, k, x)
      BY DEF P
    <3>2. CASE n < x
      <4>1. P1 = P /\ P <= (E - u) * m
        BY <1>1, <1>4, <1>9, <2>5, <3>1, <3>2
      <4>2. CASE s1 + W <= x
        <5>1. (E - u) * m <= (E - u1) * m
          BY <1>1, <1>5, <2>5, <3>2, <4>2, Smaller
        <5> QED
          BY <1>1, <1>6, <1>10, <1>11, <4>1, <4>2, <5>1
      <4>3. CASE ~(s1 + W <= x)
        <5>1. u1 + 1 \in Int /\ u1 + 1 <= u
          BY <1>5, <2>5, <3>2, <4>3
        <5>2. (E - u) * m <= (E - (u1 + 1)) * m
          BY <1>1, <1>5, <5>1, Smaller
        <5>3. E - (u1 + 1) = E - u1 - 1
          BY <1>1, <1>5
        <5>4. (E - u) * m <= (E - u1 - 1) * m
          BY <5>2, <5>3
        <5>5. Allowance(l, k, x)' = (E - u1 - 1) * m
          BY <1>1, <1>6, <1>10, <1>11, <2>1, <3>2, <4>3
        <5> QED
          BY <1>1, <1>6, <4>1, <5>4, <5>5
      <4> QED
        BY <4>2, <4>3
    <3>3. CASE ~(n < x)
      <4>1. P1 = P + 1
        BY <1>1, <1>4, <3>3
      <4>2. P <= (E - u) * m
        BY <1>1, <1>6, <1>7, <1>9, <2>3, <2>4, <3>1
      <4>3. Allowance(l, k, x)' = E * m + 1
        BY <1>1, <1>10, <1>11, <2>1, <3>3
      <4> QED
        BY <1>1, <1>6, <1>8, <4>1, <4>2, <4>3
    <3> QED
      BY <3>2, <3>3
  <2> QED
    BY <2>6 DEF P1
<1> QED
  BY <1>12, <1>13

\* Before the end of the stretch is read, a prune drops no window that begins
\* in it, and one that reaches into it only where that is allowed for.
LEMMA DroppedLate ==
    ASSUME TypeOK, NEW l \in Limiters, NEW k \in Keys, NEW n \in Times,
           NEW x \in Times, n < x + Window(l),
           k \in held[l], k \notin Kept(l, n)
    PROVE  start[l][k] < x /\ (Drops(l) \/ Over(l, k, x))
<1>1. /\ Window(l) \in Int /\ PruneAge(l) \in Int /\ PruneAge(l) >= Window(l)
      /\ start[l][k] \in Int /\ n \in Int /\ x \in Int
  BY WindowType DEF TypeOK, Times
<1>2. start[l][k] <= n - PruneAge(l)
  BY <1>1 DEF Kept
<1>3. start[l][k] < x
  BY <1>1, <1>2
<1>4. ~(PruneAbove >= Cardinality(Keys))
  BY NoPrune
<1>5. PruneAge(l) >= 2 * Window(l) => Over(l, k, x)
  BY <1>1, <1>2 DEF Over
<1> QED
  BY <1>3, <1>4, <1>5 DEF Drops

\* What the windows allow is never more than the budget and the earlier
\* windows' remainders, and when the stretch begins it is not negative.
LEMMA AllowanceBound ==
    ASSUME TypeOK, Met, NEW l \in Limiters, NEW k \in Keys, NEW x \in Times
    PROVE  /\ Allowance(l, k, x) \in Int
           /\ EarlierWindows(l) * (max_requests(l) - 1) \in Nat
           /\ Allowance(l, k, x) <=
                max_requests(l) + EarlierWindows(l) * (max_requests(l) - 1)
           /\ /\ k \in held[l] => start[l][k] < x
              /\ Cardinality(Behind(x)) <= Cardinality(Threads) - 1
              => Allowance(l, k, x) >= 0
<1> DEFINE m == max_requests(l) - 1
           E == EarlierWindows(l)
           T == Cardinality(Threads)
           s == start[l][k]
           c == count[l][k]
           b == Cardinality(Behind(x))
           u == Unopened(l, k, x)
           A == Allowance(l, k, x)
<1>1. m \in Nat /\ E \in Nat /\ T \in Nat /\ s \in Int /\ c \in Nat /\ b \in Nat
  <2>1. s \in Int /\ c \in Nat
    BY DEF TypeOK, Times
  <2> QED
    BY <2>1, LimiterNumbers, LateThreads
<1>2. u \in Nat
  BY <1>1 DEF Unopened
<1>3. (E - u) * m \in Int /\ (E - u - 1) * m \in Int /\ E * m \in Nat
  BY <1>1, <1>2
<1>4. (E - u - 1) * m = (E - u) * m - m
  BY <1>1, <1>2
<1>5. (E - u) * m <= E * m
  <2>1. u * m \in Nat /\ (E - u) * m = E * m - u * m
    BY <1>1, <1>2
  <2> QED
    BY <1>3, <2>1
<1>6. A = IF Over(l, k, x) THEN (E - u) * m
          ELSE IF s < x THEN (E - u - 1) * m + c - 1
          ELSE E * m + c
  BY DEF Allowance
<1>7. ~Over(l, k, x) => k \in held[l] /\ 1 <= c /\ c <= m + 1
  BY <1>1, LimiterNumbers DEF Met, Over
<1>8. A \in Int
  <2> HIDE DEF m, E, s, c, u, A
  <2> QED
    BY <1>1, <1>3, <1>6
<1>9. A <= m + 1 + E * m
  <2> HIDE DEF m, E, s, c, u, A
  <2> QED
    BY <1>1, <1>3, <1>4, <1>5, <1>6, <1>7
<1>10. ASSUME k \in held[l] => s < x, b <= T - 1 PROVE A >= 0
  <2>1. E - u \in Int /\ E - u >= (IF Over(l, k, x) THEN 0 ELSE 1)
    BY <1>1, <1>2, <1>10, LimiterNumbers DEF Unopened
  <2>2. Over(l, k, x) => (E - u) * m >= 0
    <3> SUFFICES ASSUME Over(l, k, x) PROVE (E - u) * m >= 0
      OBVIOUS
    <3>1. E - u \in Nat
      BY <2>1
    <3> HIDE DEF E, u, m
    <3> QED
      BY <1>1, <3>1
  <2>3. ~Over(l, k, x) => (E - u - 1) * m >= 0
    <3> SUFFICES ASSUME ~Over(l, k, x) PROVE (E - u - 1) * m >= 0
      OBVIOUS
    <3>1. E - u - 1 \in Nat
      BY <2>1
    <3> HIDE DEF E, u, m
    <3> QED
      BY <1>1, <3>1
  <2> HIDE DEF m, E, s, c, u, A
  <2> QED
    BY <1>1, <1>3, <1>6, <1>7, <1>10, <2>2, <2>3
<1>11. m + 1 = max_requests(l)
  BY LimiterNumbers
<1>12. A <= max_requests(l) + E * m
  BY <1>9, <1>11
<1> QED
  BY <1>3, <1>8, <1>10, <1>12

\* The first thread to reach a reading is one that reads the clock.
LEMMA FirstReader ==
    ASSUME TypeOK, [Next]_vars, NEW y, ~Reached(y), Reached(y)'
    PROVE  \E u \in Threads : ReadClock(u) /\ now'[u] >= y
<1>1. PICK u \in Threads : now'[u] >= y
  BY DEF Reached
<1>2. now'[u] # now[u]
  BY <1>1 DEF Reached
<1>3. ASSUME NEW t \in Threads, Begin(t) \/ Allow(t) \/ Deny(t) PROVE FALSE
  BY <1>2, <1>3 DEF Begin, Allow, Deny
<1>4. PICK t \in Threads : ReadClock(t)
  BY <1>2, <1>3, StepKinds
<1>5. t = u
  BY <1>2, <1>4 DEF ReadClock, TypeOK
<1> QED
  BY <1>1, <1>4, <1>5

\* The same of the next state.
LEMMA AllowanceBoundNext ==
    ASSUME NEW l \in Limiters, NEW k \in Keys, NEW x \in Times
    PROVE  (TypeOK /\ Met =>
              /\ Allowance(l, k, x) \in Int
              /\ /\ k \in held[l] => start[l][k] < x
                 /\ Cardinality(Behind(x)) <= Cardinality(Threads) - 1
                 => Allowance(l, k, x) >= 0)'
<1>1. TypeOK /\ Met =>
        /\ Allowance(l, k, x) \in Int
        /\ /\ k \in held[l] => start[l][k] < x
           /\ Cardinality(Behind(x)) <= Cardinality(Threads) - 1
           => Allowance(l, k, x) >= 0
  BY AllowanceBound
<1> QED
  BY <1>1, PTL

LEMMA AllButOne ==
    ASSUME NEW t \in Threads, NEW S \in SUBSET (Threads \ {t})
    PROVE  Cardinality(S) \in Nat /\ Cardinality(S) <= Cardinality(Threads) - 1
<1>1. /\ IsFiniteSet(Threads \ {t})
      /\ Cardinality(Threads \ {t}) = Cardinality(Threads) - 1
  BY FiniteAssumption, FS_RemoveElement
<1> QED
  BY <1>1, FS_Subset, FS_CardinalityType

LEMMA NextMet ==
    ASSUME TypeOK, TypeOK', ReadingsPast, Met, [Next]_vars
    PROVE  Met'
<1>1. ASSUME NEW l \in Limiters, NEW k \in held'[l]
      PROVE  /\ Reached(start[l][k])'
             /\ 1 <= count'[l][k] /\ count'[l][k] <= max_requests(l)
  <2>1. k \in Keys
    BY <1>1 DEF TypeOK
  <2>2. start[l][k] \in Times /\ count[l][k] \in Nat
    BY <2>1 DEF TypeOK
  <2>3. ASSUME k \in held[l], start'[l][k] = start[l][k],
               count'[l][k] = count[l][k]
        PROVE  /\ Reached(start[l][k])'
               /\ 1 <= count'[l][k] /\ count'[l][k] <= max_requests(l)
    <3>1. PICK t \in Threads : now[t] >= start[l][k]
      BY <2>3 DEF Met, Reached
    <3>2. now[t] \in Int /\ now'[t] \in Int /\ start[l][k] \in Int
      BY <2>2 DEF TypeOK, Times
    <3>3. now'[t] >= start'[l][k]
      BY <2>3, <3>1, <3>2, ReadingsAdvance
    <3>4. Reached(start[l][k])'
      BY <3>3 DEF Reached
    <3> QED
      BY <2>3, <3>4 DEF Met
  <2>4. CASE UNCHANGED buckets
    BY <1>1, <2>3, <2>4 DEF buckets
  <2>5. ASSUME NEW t \in Threads, Deny(t)
        PROVE  /\ Reached(start[l][k])'
               /\ 1 <= count'[l][k] /\ count'[l][k] <= max_requests(l)
    <3>1. held'[l] \subseteq held[l]
      BY <2>5 DEF Deny, Kept, TypeOK
    <3>2. start' = start /\ count' = count
      BY <2>5 DEF Deny
    <3> QED
      BY <1>1, <2>3, <3>1, <3>2
  <2>6. ASSUME NEW t \in Threads, Allow(t)
        PROVE  /\ Reached(start[l][k])'
               /\ 1 <= count'[l][k] /\ count'[l][k] <= max_requests(l)
    <3> DEFINE n == now[t]
    <3>1. limiter[t] \in Limiters /\ key(t) \in Keys /\ n \in Times
      BY KeyType
    <3>2. CASE ~(l = limiter[t] /\ k = key(t))
      <4>1. k \in held[l]
        BY <1>1, <2>1, <2>6, <3>2, AllowWrites
      <4>2. start'[l][k] = start[l][k] /\ count'[l][k] = count[l][k]
        BY <2>1, <2>6, <3>2, AllowWrites
      <4> QED
        BY <2>3, <4>1, <4>2
    <3>3. CASE l = limiter[t] /\ k = key(t)
      <4>1. /\ start'[l][k] = WindowStart(l, k, n)
            /\ count'[l][k] = WindowCount(l, k, n) + 1
            /\ WindowCount(l, k, n) < max_requests(l)
            /\ now' = now
        <5>1. now' = now
          BY <2>6 DEF Allow
        <5> QED
          BY <2>1, <2>6, <3>3, <5>1, AllowWrites
      <4>2. WindowCount(l, k, n) \in Nat
        BY <2>1, <3>1, WindowStartType
      <4>3. 1 <= count'[l][k] /\ count'[l][k] <= max_requests(l)
        BY <4>1, <4>2, LimiterNumbers
      <4>4. \E u \in Threads : now[u] >= WindowStart(l, k, n)
        <5>1. CASE InWindow(l, k, n)
          <6>1. k \in held[l]
            BY <5>1 DEF InWindow, Kept
          <6> QED
            BY <5>1, <6>1 DEF Met, Reached, WindowStart
        <5>2. CASE ~InWindow(l, k, n)
          BY <3>1, <5>2 DEF WindowStart, Times
        <5> QED
          BY <5>1, <5>2
      <4>5. Reached(start[l][k])'
        BY <4>1, <4>4 DEF Reached
      <4> QED
        BY <4>3, <4>5
    <3> QED
      BY <3>2, <3>3
  <2> QED
    BY <2>4, <2>5, <2>6, BucketsStill
<1>2. ASSUME NEW l \in Limiters, NEW k \in Keys, NEW i \in DOMAIN passed'[l][k]
      PROVE  Reached(passed[l][k][i])'
  <2>1. passed[l][k] \in Seq(Times) /\ passed'[l][k] \in Seq(Times)
    BY DEF TypeOK
  <2>2. ASSUME i \in DOMAIN passed[l][k], passed'[l][k][i] = passed[l][k][i]
        PROVE  Reached(passed[l][k][i])'
    <3>1. PICK t \in Threads : now[t] >= passed[l][k][i]
      BY <2>2 DEF Met, Reached
    <3>2. passed[l][k][i] \in Times
      BY <2>1, <2>2
    <3>3. passed[l][k][i] \in Int
      BY <3>2 DEF Times
    <3>4. now[t] \in Int /\ now'[t] \in Int
      BY DEF TypeOK, Times
    <3>5. now'[t] >= passed'[l][k][i]
      BY <2>2, <3>1, <3>3, <3>4, ReadingsAdvance
    <3> QED
      BY <3>5 DEF Reached
  <2>3. CASE passed' = passed
    BY <1>2, <2>2, <2>3
  <2>4. ASSUME NEW t \in Threads, Allow(t) PROVE Reached(passed[l][k][i])'
    <3> DEFINE n == now[t]
    <3>1. limiter[t] \in Limiters /\ key(t) \in Keys /\ n \in Times
      BY KeyType
    <3>2. CASE ~(l = limiter[t] /\ k = key(t))
      <4>1. passed'[l][k] = passed[l][k]
        BY <2>4, <3>2, AllowWrites
      <4> QED
        BY <1>2, <2>2, <4>1
    <3>3. CASE l = limiter[t] /\ k = key(t)
      <4>1. passed'[l][k] = Append(passed[l][k], n) /\ now' = now
        <5>1. now' = now
          BY <2>4 DEF Allow
        <5> QED
          BY <2>4, <3>3, <5>1, AllowWrites
      <4>2. \/ i \in DOMAIN passed[l][k] /\ passed'[l][k][i] = passed[l][k][i]
            \/ passed'[l][k][i] = n
        <5> DEFINE s == passed[l][k]
        <5>1. i \in 1..(Len(s) + 1)
          BY <1>2, <2>1, <4>1
        <5> QED
          BY <2>1, <4>1, <5>1
      <4>3. CASE passed'[l][k][i] = n
        BY <3>1, <4>1, <4>3 DEF Reached, Times
      <4> QED
        BY <2>2, <4>2, <4>3
    <3> QED
      BY <3>2, <3>3
  <2> QED
    BY <2>3, <2>4, StepKinds DEF Begin, ReadClock, Deny
<1> QED
  BY <1>1, <1>2 DEF Met

LEMMA NextCharged ==
    ASSUME TypeOK, TypeOK', ReadingsPast, Met, Met', [Next]_vars,
           NEW l \in Limiters, NEW k \in Keys, NEW x \in Times,
           Charged(l, k, x)
    PROVE  Charged(l, k, x)'
<1> DEFINE W == Window(l)
           P == Got(l, k, x)
           P1 == Got(l, k, x)'
           T == Cardinality(Threads)
           B == max_requests(l) + EarlierWindows(l) * (max_requests(l) - 1)
<1>1. W \in Nat /\ x \in Int /\ x + W \in Int
  BY WindowType DEF Times
<1>2. P \in Nat /\ T \in Nat /\ B \in Nat
  BY GotType, LimiterNumbers, AllowanceBound
<1>3. ASSUME NEW u \in Threads, ReadClock(u) PROVE P1 = P
  BY <1>3, GotStep DEF ReadClock
<1>4. ASSUME Reached(x)', ~Reached(x + W)'
      PROVE  P1 <= Allowance(l, k, x)'
  <2>1. ~Reached(x + W)
    BY <1>1, <1>4, ReachedStays
  <2>2. CASE ~Reached(x)
    <3>1. PICK u \in Threads : ReadClock(u) /\ now'[u] >= x
      BY <1>4, <2>2, FirstReader
    <3>2. P1 = 0
      BY <1>3, <2>2, <3>1, NothingYet
    <3>3. k \in held'[l] => start'[l][k] < x
      <4> SUFFICES ASSUME k \in held'[l] PROVE start'[l][k] < x
        OBVIOUS
      <4>1. k \in held[l] /\ start' = start
        BY <3>1 DEF ReadClock, buckets
      <4>2. PICK t \in Threads : now[t] >= start[l][k]
        BY <4>1 DEF Met, Reached
      <4>3. now[t] \in Int /\ start[l][k] \in Int
        BY DEF TypeOK, Times
      <4>4. ~(now[t] >= x)
        BY <2>2 DEF Reached
      <4> QED
        BY <1>1, <4>1, <4>2, <4>3, <4>4
    <3>4. Cardinality(Behind(x))' <= T - 1
      <4>1. now'[u] \in Int
        BY DEF TypeOK, Times
      <4>2. u \notin Behind(x)'
        BY <1>1, <3>1, <4>1 DEF Behind
      <4>3. Behind(x)' \in SUBSET (Threads \ {u})
        BY <4>2 DEF Behind
      <4> QED
        BY <4>3, AllButOne
    <3>5. Allowance(l, k, x)' >= 0
      BY <3>3, <3>4, AllowanceBoundNext
    <3> QED
      BY <3>2, <3>5
  <2>3. CASE Reached(x)
    <3>1. P <= Allowance(l, k, x)
      BY <2>1, <2>3 DEF Charged
    <3>2. /\ Behind(x)' \subseteq Behind(x)
          /\ \A t \in Threads : Allow(t) => t \notin Behind(x)'
      BY <1>1, <2>3, FewerBehind
    <3>3. /\ Allowance(l, k, x) \in Int /\ Allowance(l, k, x)' \in Int
      BY AllowanceBound, AllowanceBoundNext
    <3>4. ASSUME P1 = P, Allowance(l, k, x)' >= Allowance(l, k, x)
          PROVE  P1 <= Allowance(l, k, x)'
      BY <1>2, <3>1, <3>3, <3>4
    <3>5. CASE UNCHANGED <<buckets, passed>>
      <4>1. P1 = P
        BY <3>5, GotStep
      <4>2. Allowance(l, k, x)' >= Allowance(l, k, x)
        BY <3>2, <3>5, AllowanceKept DEF buckets
      <4> QED
        BY <3>4, <4>1, <4>2
    <3>6. ASSUME NEW t \in Threads, Allow(t) \/ Deny(t),
                 P1 = P, start'[l][k] = start[l][k],
                 count'[l][k] = count[l][k],
                 held'[l] = held[l] \/ (k \in held'[l] <=> k \in Kept(l, now[t]))
          PROVE  P1 <= Allowance(l, k, x)'
      <4>1. now[t] \in Times /\ now[t] < x + W
        <5>1. now[t] \in Times /\ ~(now[t] >= x + W)
          BY <2>1 DEF TypeOK, Reached
        <5> QED
          BY <1>1, <5>1 DEF Times
      <4>2. k \in held'[l] => k \in held[l]
        BY <3>6 DEF Kept
      <4>3. k \in held[l] \ held'[l] =>
              start[l][k] < x /\ (Drops(l) \/ Over(l, k, x))
        BY <3>6, <4>1, DroppedLate
      <4> QED
        BY <3>2, <3>4, <3>6, <4>2, <4>3, AllowanceKept
    <3>7. ASSUME NEW t \in Threads, Deny(t) PROVE P1 <= Allowance(l, k, x)'
      <4>1. start' = start /\ count' = count /\ passed' = passed
        BY <3>7 DEF Deny
      <4>2. held'[l] = held[l] \/ (k \in held'[l] <=> k \in Kept(l, now[t]))
        BY <3>7 DEF Deny, TypeOK
      <4>3. P1 = P
        BY <4>1, GotStep
      <4> QED
        BY <3>6, <3>7, <4>1, <4>2, <4>3
    <3>8. ASSUME NEW t \in Threads, Allow(t) PROVE P1 <= Allowance(l, k, x)'
      <4>1. limiter[t] \in Limiters /\ key(t) \in Keys /\ now[t] \in Times
        BY KeyType
      <4>2. CASE l = limiter[t] /\ k = key(t)
        <5>1. now[t] < x + W
          <6>1. ~(now[t] >= x + W)
            BY <2>1 DEF Reached
          <6> QED
            BY <1>1, <4>1, <6>1 DEF Times
        <5> QED
          BY <3>1, <3>2, <3>8, <4>1, <4>2, <5>1, AllowanceCovers
      <4>3. CASE ~(l = limiter[t] /\ k = key(t))
        <5>1. start'[l][k] = start[l][k] /\ count'[l][k] = count[l][k]
          BY <3>8, <4>3, AllowWrites
        <5>2. held'[l] = held[l] \/ (k \in held'[l] <=> k \in Kept(l, now[t]))
          BY <3>8, <4>1, <4>3 DEF Allow, TypeOK
        <5>3. P1 = P
          BY <3>8, <4>3, GotStep
        <5> QED
          BY <3>6, <3>8, <5>1, <5>2, <5>3
      <4> QED
        BY <4>2, <4>3
    <3> QED
      BY <3>5, <3>7, <3>8, StepKinds DEF Begin, ReadClock
  <2> QED
    BY <2>2, <2>3
<1>5. ASSUME Reached(x + W)'
      PROVE  P1 + Cardinality(Inside(x, x + W))' <= B + T - 1
  <2> DEFINE i == Cardinality(Inside(x, x + W))
             i1 == Cardinality(Inside(x, x + W))'
  <2>1. IsFiniteSet(Inside(x, x + W)) /\ i \in Nat
    BY LateThreads
  <2>2. CASE ~Reached(x + W)
    <3>1. PICK u \in Threads : ReadClock(u) /\ now'[u] >= x + W
      BY <1>5, <2>2, FirstReader
    <3>2. P1 = P
      BY <1>3, <3>1
    <3>3. P <= B
      <4>1. CASE ~Reached(x)
        BY <1>2, <4>1, NothingYet
      <4>2. CASE Reached(x)
        <5>1. P <= Allowance(l, k, x)
          BY <2>2, <4>2 DEF Charged
        <5> QED
          BY <1>2, <5>1, AllowanceBound
      <4> QED
        BY <4>1, <4>2
    <3>4. i1 \in Nat /\ i1 <= T - 1
      <4>1. now'[u] \in Int
        BY DEF TypeOK, Times
      <4>2. u \notin Inside(x, x + W)'
        BY <1>1, <3>1, <4>1 DEF Inside
      <4>3. Inside(x, x + W)' \in SUBSET (Threads \ {u})
        BY <4>2 DEF Inside
      <4> QED
        BY <4>3, AllButOne
    <3> QED
      BY <1>2, <3>2, <3>3, <3>4
  <2>3. CASE Reached(x + W)
    <3>1. P + i <= B + T - 1
      BY <2>3 DEF Charged
    <3>2. /\ Inside(x, x + W)' \subseteq Inside(x, x + W)
          /\ \A t \in Threads : Allow(t) => t \notin Inside(x, x + W)'
      BY <1>1, <2>3, FewerInside
    <3>3. i1 \in Nat /\ i1 <= i
      BY <2>1, <3>2, FS_Subset, FS_CardinalityType
    <3>4. ASSUME P1 = P PROVE P1 + i1 <= B + T - 1
      BY <1>2, <2>1, <3>1, <3>3, <3>4
    <3>5. CASE passed' = passed
      BY <3>4, <3>5, GotStep
    <3>6. ASSUME NEW t \in Threads, Allow(t) PROVE P1 + i1 <= B + T - 1
      <4>1. CASE x <= now[t] /\ now[t] < x + W
        <5>1. t \in Inside(x, x + W)
          BY <3>6, <4>1 DEF Inside, Allow
        <5>2. Inside(x, x + W)' \in SUBSET (Inside(x, x + W) \ {t})
          BY <3>2, <3>6
        <5>3. i1 <= i - 1
          <6>1. /\ IsFiniteSet(Inside(x, x + W) \ {t})
                /\ Cardinality(Inside(x, x + W) \ {t}) = i - 1
            BY <2>1, <5>1, FS_RemoveElement
          <6> QED
            BY <5>2, <6>1, FS_Subset
        <5>4. P1 <= P + 1 /\ P1 \in Int
          BY <1>2, <3>6, GotStep
        <5> QED
          BY <1>2, <2>1, <3>1, <3>3, <5>3, <5>4
      <4>2. CASE ~(x <= now[t] /\ now[t] < x + W)
        BY <3>4, <3>6, <4>2, GotStep
      <4> QED
        BY <4>1, <4>2
    <3> QED
      BY <3>5, <3>6, StepKinds DEF Begin, ReadClock, Deny
  <2> QED
    BY <2>2, <2>3
<1> QED
  BY <1>4, <1>5 DEF Charged

LEMMA InitFlood == Init => FloodInv
<1> SUFFICES ASSUME Init PROVE FloodInv
  OBVIOUS
<1>1. TypeOK /\ ReadingsPast
  BY InitType DEF Init, ReadingsPast
<1>2. Met
  BY DEF Init, Met
<1>3. ASSUME NEW l \in Limiters, NEW k \in Keys, NEW x \in Times
      PROVE  Charged(l, k, x)
  <2>1. Window(l) >= 1 /\ Window(l) \in Nat /\ x \in Nat
    BY LimiterNumbers DEF Times
  <2>2. ~Reached(x + Window(l))
    BY <2>1 DEF Reached, Init
  <2>3. ASSUME Reached(x) PROVE Got(l, k, x) <= Allowance(l, k, x)
    <3>1. Got(l, k, x) = 0
      <4>1. passed[l][k] = <<>>
        BY DEF Init
      <4>2. Hits(passed[l][k], x, x + Window(l) - 1) = {}
        BY <4>1 DEF Hits
      <4> QED
        BY <4>2, GotIs, FS_EmptySet
    <3>2. PICK u \in Threads : now[u] >= x
      BY <2>3 DEF Reached
    <3>3. Behind(x) \in SUBSET (Threads \ {u})
      BY DEF Behind, Init
    <3>4. Cardinality(Behind(x)) <= Cardinality(Threads) - 1
      BY <3>3, AllButOne
    <3>5. k \notin held[l]
      BY DEF Init
    <3>6. Allowance(l, k, x) >= 0
      BY <1>1, <1>2, <3>4, <3>5, AllowanceBound
    <3> QED
      BY <3>1, <3>6
  <2> QED
    BY <2>2, <2>3 DEF Charged
<1> QED
  BY <1>1, <1>2, <1>3 DEF FloodInv

LEMMA NextFlood == FloodInv /\ [Next]_vars => FloodInv'
<1> SUFFICES ASSUME FloodInv, [Next]_vars PROVE FloodInv'
  OBVIOUS
<1>1. TypeOK /\ ReadingsPast /\ Met
  BY DEF FloodInv
<1>2. TypeOK' /\ ReadingsPast'
  BY <1>1, NextType, NextReadings
<1>3. Met'
  BY <1>1, <1>2, NextMet
<1>4. ASSUME NEW l \in Limiters, NEW k \in Keys, NEW x \in Times
      PROVE  Charged(l, k, x)'
  <2>1. Charged(l, k, x)
    BY DEF FloodInv
  <2> QED
    BY <1>1, <1>2, <1>3, <2>1, NextCharged
<1> QED
  BY <1>2, <1>3, <1>4 DEF FloodInv

LEMMA FloodHolds == FloodInv => FloodBound
<1> SUFFICES ASSUME FloodInv, NEW l \in Limiters, NEW k \in Keys, NEW x \in Times
             PROVE  Got(l, k, x) <=
                      max_requests(l)
                        + EarlierWindows(l) * (max_requests(l) - 1)
                        + Cardinality(Threads) - 1
  BY DEF FloodBound, Got
<1> DEFINE E == EarlierWindows(l) * (max_requests(l) - 1)
           T == Cardinality(Threads)
<1>1. TypeOK /\ Met /\ Charged(l, k, x)
  BY DEF FloodInv
<1>2. /\ Got(l, k, x) \in Nat /\ E \in Nat /\ T \in Nat
      /\ max_requests(l) \in Nat /\ max_requests(l) >= 1
  BY <1>1, GotType, LimiterNumbers, AllowanceBound
<1>3. CASE ~Reached(x)
  <2>1. Got(l, k, x) = 0
    BY <1>1, <1>3, NothingYet
  <2> QED
    BY <1>2, <2>1
<1>4. CASE Reached(x) /\ ~Reached(x + Window(l))
  <2>1. Got(l, k, x) <= Allowance(l, k, x)
    BY <1>1, <1>4 DEF Charged
  <2>2. Allowance(l, k, x) \in Int /\ Allowance(l, k, x) <= max_requests(l) + E
    BY <1>1, AllowanceBound
  <2>3. T # 0
    <3>1. Threads # {}
      BY <1>4 DEF Reached
    <3> QED
      BY <3>1, FiniteAssumption, FS_EmptySet
  <2> QED
    BY <1>2, <2>1, <2>2, <2>3
<1>5. CASE Reached(x + Window(l))
  <2> DEFINE i == Cardinality(Inside(x, x + Window(l)))
  <2>1. Got(l, k, x) + i <= max_requests(l) + E + T - 1
    BY <1>1, <1>5 DEF Charged
  <2>2. i \in Nat
    BY LateThreads
  <2> QED
    BY <1>2, <2>1, <2>2
<1> QED
  BY <1>3, <1>4, <1>5

\* However the threads race between the clock and the lock, and whatever the
\* prune drops meanwhile, a flooding key gets through in any stretch of one
\* window's length no more than its budget, the remainders of the earlier
\* windows and one call for each other thread.
THEOREM Flood == Spec => []FloodBound
<1>1. Spec => []FloodInv
  BY InitFlood, NextFlood, PTL DEF Spec
<1> QED
  BY <1>1, FloodHolds, PTL

=============================================================================
