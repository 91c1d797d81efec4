----------------------------- MODULE RateLimiter -----------------------------
(***************************************************************************)
(* The two fixed-window limiters in front of POST /submissions:            *)
(* FixedWindowLimiter of app/rate_limit.py and the loop over both at the   *)
(* head of create_submission (app/api/public.py).                          *)
(*                                                                         *)
(* The threads of one server process share the limiters.  allowed() reads  *)
(* the clock before it takes the lock, so a thread may hold the lock with  *)
(* a reading older than the window the others have opened meanwhile.       *)
(* Time is counted in ticks of a fraction of a second.                     *)
(***************************************************************************)
EXTENDS Integers, FiniteSets, Sequences

CONSTANTS
    Threads,            \* threads of the server that serve submissions
    Ips,                \* client addresses
    Widgets,            \* widget ids as sent; existence is not yet checked
    IpMax, IpWindow,            \* rate_limit_ip_max and _window_seconds
    WidgetMax, WidgetWindow,    \* rate_limit_widget_max and _window_seconds
    TicksPerSecond,
    PruneAbove,         \* 10_000 in the code
    PruneFloor,         \* 5 seconds in the code
    Horizon             \* bound: the last tick of the clock

ASSUME SettingsAssumption ==
    /\ {IpMax, IpWindow, WidgetMax, WidgetWindow} \subseteq Nat \ {0}
    /\ TicksPerSecond \in Nat \ {0}
    /\ {PruneAbove, PruneFloor} \subseteq Nat
    /\ Horizon \in Nat

ASSUME KeyAssumption == Ips \intersect Widgets = {}

\* The thread pool is bounded, and so are the addresses and the widget ids
\* that fit into a request.
ASSUME FiniteAssumption ==
    IsFiniteSet(Threads) /\ IsFiniteSet(Ips) /\ IsFiniteSet(Widgets)

Limiters == {"ip", "widget"}
Keys == Ips \union Widgets
Times == 0..Horizon

max_requests(l) == IF l = "ip" THEN IpMax ELSE WidgetMax
Window(l) == TicksPerSecond * (IF l = "ip" THEN IpWindow ELSE WidgetWindow)

\* The age at which a prune drops a bucket: max(window_seconds, 5)
PruneAge(l) == IF Window(l) >= PruneFloor * TicksPerSecond
               THEN Window(l)
               ELSE PruneFloor * TicksPerSecond

VARIABLES
    clock,      \* time.monotonic()
    held,       \* the keys of each limiter's _buckets
    start,      \* the first component of each bucket
    count,      \* the second
    pc,         \* "idle", "clock" or "lock" for each thread
    limiter,    \* the limiter each thread is at
    call,       \* the address and widget of the request it serves
    now,        \* its reading of the clock
    answer,     \* what the limiters made of the request
    passed      \* per limiter and key: the clock readings of the calls let
                \* through, in the order of the lock (history)

buckets == <<held, start, count>>
vars == <<clock, buckets, pc, limiter, call, now, answer, passed>>

Calls == [ip : Ips, widget : Widgets]

key(t) == IF limiter[t] = "ip" THEN call[t].ip ELSE call[t].widget

NoAnswer == [outcome |-> "none", retryAt |-> 0, opensAt |-> 0]

Init ==
    /\ clock = 0
    /\ held = [l \in Limiters |-> {}]
    /\ start = [l \in Limiters |-> [k \in Keys |-> 0]]
    /\ count = [l \in Limiters |-> [k \in Keys |-> 0]]
    /\ pc = [t \in Threads |-> "idle"]
    /\ limiter = [t \in Threads |-> "ip"]
    /\ call \in [Threads -> Calls]
    /\ now = [t \in Threads |-> 0]
    /\ answer = [t \in Threads |-> NoAnswer]
    /\ passed = [l \in Limiters |-> [k \in Keys |-> <<>>]]

\* A request reaches create_submission; it asks the limiter by address first.
Begin(t) ==
    /\ pc[t] = "idle"
    /\ \E c \in Calls : call' = [call EXCEPT ![t] = c]
    /\ limiter' = [limiter EXCEPT ![t] = "ip"]
    /\ pc' = [pc EXCEPT ![t] = "clock"]
    /\ answer' = [answer EXCEPT ![t] = NoAnswer]
    /\ UNCHANGED <<clock, buckets, now, passed>>

\* now = time.monotonic(), outside the lock.
ReadClock(t) ==
    /\ pc[t] = "clock"
    /\ now' = [now EXCEPT ![t] = clock]
    /\ pc' = [pc EXCEPT ![t] = "lock"]
    /\ UNCHANGED <<clock, buckets, limiter, call, answer, passed>>

\* Variant: the prune clears the table.
Kept_Cleared(l, n) == IF Cardinality(held[l]) > PruneAbove THEN {} ELSE held[l]

\* The buckets left by the coarse prune of limiter l at the reading n.
Kept(l, n) ==
    IF Cardinality(held[l]) > PruneAbove
    THEN {k \in held[l] : start[l][k] > n - PruneAge(l)}
    ELSE held[l]

\* Variant: a reading older than the window opens a new one.
InWindow_NotBefore(l, k, n) ==
    k \in Kept(l, n) /\ n >= start[l][k] /\ n - start[l][k] < Window(l)

\* Whether the call of key k at the reading n falls into the bucket there is.
InWindow(l, k, n) == k \in Kept(l, n) /\ n - start[l][k] < Window(l)

\* Variant: the bucket is given the end of its window for its start.
WindowStart_End(l, k, n) ==
    IF InWindow(l, k, n) THEN start[l][k] ELSE n + Window(l)

WindowStart(l, k, n) == IF InWindow(l, k, n) THEN start[l][k] ELSE n

\* Variant: the count of an expired window is carried into the new one.
WindowCount_Carried(l, k, n) == IF k \in Kept(l, n) THEN count[l][k] ELSE 0

WindowCount(l, k, n) == IF InWindow(l, k, n) THEN count[l][k] ELSE 0

\* Variant: the time already spent in the window is forgotten.
retry_after_WholeWindow(l, k, n) ==
    LET left == Window(l)
    IN  IF left < TicksPerSecond THEN 1 ELSE left \div TicksPerSecond

\* int(max(1.0, start + window_seconds - now)), in whole seconds.
retry_after(l, k, n) ==
    LET left == WindowStart(l, k, n) + Window(l) - n IN
    IF left < TicksPerSecond THEN 1 ELSE left \div TicksPerSecond

\* The body under the lock, the call let through: to the other limiter if it
\* passed the first, on to the handler if it passed both.
Allow(t) ==
    LET l == limiter[t]
        k == key(t)
        n == now[t]
    IN  /\ pc[t] = "lock"
        /\ WindowCount(l, k, n) < max_requests(l)
        /\ held' = [held EXCEPT ![l] = Kept(l, n) \union {k}]
        /\ start' = [start EXCEPT ![l][k] = WindowStart(l, k, n)]
        /\ count' = [count EXCEPT ![l][k] = WindowCount(l, k, n) + 1]
        /\ passed' = [passed EXCEPT ![l][k] = Append(@, n)]
        /\ IF l = "ip"
           THEN /\ limiter' = [limiter EXCEPT ![t] = "widget"]
                /\ pc' = [pc EXCEPT ![t] = "clock"]
                /\ UNCHANGED answer
           ELSE /\ pc' = [pc EXCEPT ![t] = "idle"]
                /\ answer' = [answer EXCEPT ![t].outcome = "passed"]
                /\ UNCHANGED limiter
        /\ UNCHANGED <<clock, call, now>>

\* The same, the call refused with 429 and Retry-After; what it took from the
\* first limiter is not given back.
Deny(t) ==
    LET l == limiter[t]
        k == key(t)
        n == now[t]
    IN  /\ pc[t] = "lock"
        /\ WindowCount(l, k, n) >= max_requests(l)
        /\ held' = [held EXCEPT ![l] = Kept(l, n)]
        /\ pc' = [pc EXCEPT ![t] = "idle"]
        /\ answer' = [answer EXCEPT ![t] =
             [outcome |-> "refused",
              retryAt |-> n + TicksPerSecond * retry_after(l, k, n),
              opensAt |-> WindowStart(l, k, n) + Window(l)]]
        /\ UNCHANGED <<clock, start, count, limiter, call, now, passed>>

Tick ==
    /\ clock < Horizon
    /\ clock' = clock + 1
    /\ UNCHANGED <<buckets, pc, limiter, call, now, answer, passed>>

Next ==
    \/ \E t \in Threads : Begin(t) \/ ReadClock(t) \/ Allow(t) \/ Deny(t)
    \/ Tick

Spec == Init /\ [][Next]_vars

-----------------------------------------------------------------------------
(* Properties.                                                             *)

TypeOK ==
    /\ clock \in Times
    /\ held \in [Limiters -> SUBSET Keys]
    /\ start \in [Limiters -> [Keys -> Times]]
    /\ count \in [Limiters -> [Keys -> Nat]]
    /\ pc \in [Threads -> {"idle", "clock", "lock"}]
    /\ limiter \in [Threads -> Limiters]
    /\ call \in [Threads -> Calls]
    /\ now \in [Threads -> Times]
    /\ answer \in [Threads -> [outcome : {"none", "passed", "refused"},
                               retryAt : Int, opensAt : Int]]
    /\ passed \in [Limiters -> [Keys -> Seq(Times)]]

\* A thread that took the lock late never moves a window back or opens one
\* inside the last: while a key keeps its bucket the window only moves on, by
\* at least its own length.
WindowsAdvance ==
    [][\A l \in Limiters : \A k \in held[l] \intersect held'[l] :
          \/ start'[l][k] = start[l][k]
          \/ start'[l][k] >= start[l][k] + Window(l)]_vars

\* The prune drops only buckets whose window is over by the true clock, so it
\* never gives a flooding key its budget back.
PruneDropsExpired ==
    [][\A l \in Limiters : \A k \in held[l] \ held'[l] :
          clock >= start[l][k] + Window(l)]_vars

\* The calls of key k let through with clock readings from..to.
PassedBetween(l, k, from, to) ==
    Cardinality({i \in DOMAIN passed[l][k] :
                   from <= passed[l][k][i] /\ passed[l][k][i] <= to})

\* The windows opened before a stretch of one window's length that can let
\* calls of the stretch through: the last one; and where a prune may drop it
\* within the stretch, one more for each thread whose reading of the clock is
\* older than the stretch.
EarlierWindows(l) ==
    IF PruneAbove >= Cardinality(Keys) \/ PruneAge(l) >= 2 * Window(l)
    THEN 1
    ELSE Cardinality(Threads)

\* Under flood: in any stretch of one window's length a key gets through at
\* most its budget, plus what each earlier window has left after its first
\* call, plus one call for each other thread that was between its reading of
\* the clock and the lock.
FloodBound ==
    \A l \in Limiters, k \in Keys, x \in Times :
        PassedBetween(l, k, x, x + Window(l) - 1)
            <= max_requests(l) + EarlierWindows(l) * (max_requests(l) - 1)
                 + Cardinality(Threads) - 1

\* Nobody is refused who has budget left: when a call is refused, the last
\* max_requests calls of its key that got through all read the clock before
\* the end of the window it is told of, the first of them began that window,
\* and the refused call itself read the clock before its end.
RefusedMeansSpent ==
    [][\A t \in Threads :
          answer'[t] # answer[t] /\ answer'[t].outcome = "refused" =>
             LET l == limiter[t]
                 p == passed[l][key(t)]
                 first == Len(p) - max_requests(l) + 1
                 ends == answer'[t].opensAt
             IN  /\ first >= 1
                 /\ p[first] = ends - Window(l)
                 /\ \A i \in first..Len(p) : p[i] < ends
                 /\ now[t] < ends]_vars

\* A client refused and told to wait (Retry-After, and the same number in the
\* text of the 429) comes back within one second of the instant its window is
\* over, on either side: the truncation to whole seconds may send it back too
\* early, but never by a second, and the least wait of one second may keep it
\* too long, but never by a second.
RetryAfterIsClose ==
    \A t \in Threads : answer[t].outcome = "refused" =>
        LET early == answer[t].opensAt - answer[t].retryAt
        IN  -TicksPerSecond < early /\ early < TicksPerSecond

=============================================================================
