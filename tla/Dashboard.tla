------------------------------ MODULE Dashboard ------------------------------
(***************************************************************************)
(* The owner's view of the leads: list_submissions and stats of            *)
(* app/api/dashboard.py, read while leads arrive and widgets are deleted.  *)
(*                                                                         *)
(* A call is several statements, each on a table of its own instant.  A    *)
(* lead has its created_at before it is committed, so leads need not       *)
(* become visible in the order of the column they are listed by, and two   *)
(* may have the same.  The rows are those of one owner: every statement is *)
(* restricted to owner_id.  Time is counted in ticks of a fraction of a    *)
(* day.                                                                    *)
(***************************************************************************)
EXTENDS Integers, FiniteSets

CONSTANTS
    Leads,      \* submissions to the owner's widgets
    Widgets,    \* the owner's widgets
    All,        \* no ?widget_id=
    PageSize,   \* ?page_size=, 1 to 100
    Day,        \* ticks in 24 hours
    Offsets,    \* what local time may be ahead of UTC, in ticks
    Days,       \* 30 in the code
    Week,       \* 7 in the code
    Horizon     \* bound: the last tick of the clock

ASSUME SizesAssumption ==
    /\ PageSize \in Nat \ {0}
    /\ Day \in Nat \ {0}
    /\ Offsets \subseteq Int
    /\ Week \in Nat
    /\ Days \in Nat
    /\ Week < Days
    /\ Horizon \in Nat

ASSUME LeadsAssumption == IsFiniteSet(Leads) /\ All \notin Widgets

VARIABLES
    clock,      \* datetime.now(), in UTC
    widgets,    \* the widgets there are
    widget_id,  \* columns of each lead
    created_at,
    stage,      \* "none", "flushed" (inserted, not committed), "stored", "gone"
    pc,         \* where the reader is; "read" once it has met the last page
    filter,     \* the widget it lists, or All
    page,       \* the page it asks for
    total,      \* the count answered with that page
    items,      \* and its rows
    present,    \* what it could have listed when it asked for the first page
    shown,      \* what it has been shown since, and what more than once
    twice,
    came,       \* whether a lead was committed while it read, or a widget
    went,       \* deleted
    report      \* the rows, the clock and the offset stats was computed from

table == <<clock, widgets, widget_id, created_at, stage>>
walk == <<filter, page, total, items, present, shown, twice>>
seen == <<came, went>>
vars == <<table, pc, walk, seen, report>>

NoReport == [rows |-> {}, now |-> 0, offset |-> 0]

Init ==
    /\ clock = 0
    /\ widgets = Widgets
    /\ widget_id \in [Leads -> Widgets]
    /\ created_at = [l \in Leads |-> 0]
    /\ stage = [l \in Leads |-> "none"]
    /\ pc = "idle"
    /\ filter = All
    /\ page = 1
    /\ total = 0
    /\ items = {}
    /\ present = {}
    /\ shown = {}
    /\ twice = {}
    /\ came = FALSE
    /\ went = FALSE
    /\ report = NoReport

-----------------------------------------------------------------------------
(* The table meanwhile.                                                    *)

\* The reader is on its way from the first page to the last.
Reading == pc \in {"filter", "count", "page", "answered"}

\* The INSERT of create_submission, which takes created_at from the clock.
Flush(l) ==
    /\ stage[l] = "none"
    /\ widget_id[l] \in widgets
    /\ stage' = [stage EXCEPT ![l] = "flushed"]
    /\ created_at' = [created_at EXCEPT ![l] = clock]
    /\ UNCHANGED <<clock, widgets, widget_id, pc, walk, seen, report>>

\* Its commit.
Commit(l) ==
    /\ stage[l] = "flushed"
    /\ stage' = [stage EXCEPT ![l] = "stored"]
    /\ came' = (came \/ Reading)
    /\ UNCHANGED <<clock, widgets, widget_id, created_at, pc, walk, went, report>>

\* DELETE of a widget, which waits for the transactions that refer to it.
DeleteWidget(w) ==
    /\ w \in widgets
    /\ \A l \in Leads : widget_id[l] = w => stage[l] # "flushed"
    /\ widgets' = widgets \ {w}
    /\ stage' = [l \in Leads |->
                    IF widget_id[l] = w /\ stage[l] = "stored" THEN "gone"
                                                               ELSE stage[l]]
    /\ went' = (went \/ Reading)
    /\ UNCHANGED <<clock, widget_id, created_at, pc, walk, came, report>>

Tick ==
    /\ clock < Horizon
    /\ clock' = clock + 1
    /\ UNCHANGED <<widgets, widget_id, created_at, stage, pc, walk, seen, report>>

-----------------------------------------------------------------------------
(* list_submissions, for a reader that asks for one page after the other   *)
(* until one is not full.                                                  *)

Stored == {l \in Leads : stage[l] = "stored"}

\* stmt: what a call with this filter may list.
Listed(f) == {l \in Stored : f = All \/ widget_id[l] = f}

\* What was answered before, which the reader is done with.
Forget ==
    /\ page' = 1
    /\ total' = 0
    /\ items' = {}
    /\ shown' = {}
    /\ twice' = {}
    /\ came' = FALSE
    /\ went' = FALSE

Start ==
    /\ pc \in {"idle", "read"}
    /\ \E f \in Widgets \union {All} :
          /\ filter' = f
          /\ present' = Listed(f)
          /\ pc' = IF f = All THEN "count" ELSE "filter"
    /\ Forget
    /\ report' = NoReport
    /\ UNCHANGED table

\* The widget of the filter is looked up first; without it the call is a 404,
\* and the reading ends.
CheckFilter ==
    /\ pc = "filter"
    /\ pc' = IF filter \in widgets THEN "count" ELSE "idle"
    /\ UNCHANGED <<table, walk, seen, report>>

\* Variant: the count is taken of all leads of the owner.
counted_Unfiltered == Stored

\* select(func.count()).select_from(stmt.subquery()).
counted == Listed(filter)

Count ==
    /\ pc = "count"
    /\ total' = Cardinality(counted)
    /\ pc' = "page"
    /\ UNCHANGED <<table, filter, page, items, present, shown, twice, seen, report>>

\* Variant: no ORDER BY.
First_Unordered(n, S) ==
    {T \in SUBSET S :
        Cardinality(T) = IF n < Cardinality(S) THEN n ELSE Cardinality(S)}

\* What LIMIT n may return of the set S, ordered by created_at.desc(): the
\* database orders leads of the same instant as it likes, each time anew.
First(n, S) ==
    {T \in SUBSET S :
        /\ Cardinality(T) = IF n < Cardinality(S) THEN n ELSE Cardinality(S)
        /\ \A x \in T, y \in S \ T : created_at[x] >= created_at[y]}

Offset(p) == (p - 1) * PageSize

\* Variant: no LIMIT.
Rows_NoLimit(p) ==
    {Listed(filter) \ before : before \in First(Offset(p), Listed(filter))}

\* What the second query may return for page p: OFFSET, then LIMIT.
Rows(p) ==
    UNION {First(PageSize, Listed(filter) \ before) :
              before \in First(Offset(p), Listed(filter))}

FetchPage ==
    /\ pc = "page"
    /\ \E rows \in Rows(page) :
          /\ items' = rows
          /\ shown' = shown \union rows
          /\ twice' = twice \union (shown \intersect rows)
    /\ pc' = "answered"
    /\ UNCHANGED <<table, filter, page, total, present, seen, report>>

\* The reader turns a full page.
TurnPage ==
    /\ pc = "answered"
    /\ IF Cardinality(items) = PageSize
       THEN /\ page' = page + 1
            /\ pc' = IF filter = All THEN "count" ELSE "filter"
       ELSE pc' = "read" /\ UNCHANGED page
    /\ UNCHANGED <<table, filter, total, items, present, shown, twice, seen, report>>

-----------------------------------------------------------------------------
(* stats.                                                                  *)

\* The rows are read first, the clock after them.
ReadRows ==
    /\ pc \in {"idle", "read"}
    /\ report' = [NoReport EXCEPT !.rows = Stored]
    /\ pc' = "stats"
    /\ filter' = All
    /\ present' = {}
    /\ Forget
    /\ UNCHANGED table

\* datetime.now().astimezone(): the offset is that of the moment, and is
\* applied to every row.
ReadClock ==
    /\ pc = "stats"
    /\ \E o \in Offsets :
          report' = [report EXCEPT !.now = clock, !.offset = o]
    /\ pc' = "idle"
    /\ UNCHANGED <<table, walk, seen>>

Next ==
    \/ \E l \in Leads : Flush(l) \/ Commit(l)
    \/ \E w \in Widgets : DeleteWidget(w)
    \/ Tick
    \/ Start \/ CheckFilter \/ Count \/ FetchPage \/ TurnPage
    \/ ReadRows \/ ReadClock

Spec == Init /\ [][Next]_vars

\* _local_date: the number of the local day an instant falls into.
local_date(t, offset) == (t + offset) \div Day

\* Variant: the day starts at midnight in UTC.
today_start_Utc(r) == (r.now \div Day) * Day

\* _local_buckets: the start of the reader's day, as an instant in UTC.
today_start(r) == local_date(r.now, r.offset) * Day - r.offset

\* The leads counted in "today", "last_7_days" and under a date of "daily".
today(r) == {l \in r.rows : created_at[l] >= today_start(r)}
last_7(r) == {l \in r.rows : created_at[l] >= today_start(r) - Week * Day}
daily(r, d) == {l \in r.rows : local_date(created_at[l], r.offset) = d}

daily_keys(r) ==
    (local_date(r.now, r.offset) - Days + 1)..local_date(r.now, r.offset)

-----------------------------------------------------------------------------
(* Properties.                                                             *)

TypeOK ==
    /\ clock \in 0..Horizon
    /\ widgets \in SUBSET Widgets
    /\ widget_id \in [Leads -> Widgets]
    /\ created_at \in [Leads -> 0..Horizon]
    /\ stage \in [Leads -> {"none", "flushed", "stored", "gone"}]
    /\ pc \in {"idle", "filter", "count", "page", "answered", "read", "stats"}
    /\ filter \in Widgets \union {All}
    /\ page \in Nat \ {0}
    /\ total \in Nat
    /\ items \in SUBSET Leads
    /\ Cardinality(items) <= PageSize
    /\ present \in SUBSET Leads
    /\ shown \in SUBSET Leads
    /\ twice \in SUBSET shown
    /\ came \in BOOLEAN
    /\ went \in BOOLEAN
    /\ report \in [rows : SUBSET Leads, now : 0..Horizon, offset : Offsets \union {0}]

\* No other lead has the same created_at.
Alone(l) ==
    \A m \in Leads \ {l} : stage[m] = "none" \/ created_at[m] # created_at[l]

\* Reading page after page, a lead with a created_at of its own that was there
\* from the beginning is shown, unless a widget was deleted meanwhile; and no
\* such lead is shown twice, unless another arrived meanwhile.
EveryLeadShown ==
    /\ pc = "read" /\ ~went => {l \in present : Alone(l)} \subseteq shown
    /\ ~came => \A l \in twice : ~Alone(l)

\* A page holds as many leads as the total beside it promises, although the
\* two are separate queries, unless a widget was deleted meanwhile; it may
\* hold more.
TotalIsKept ==
    pc = "answered" /\ ~went =>
        Cardinality(items) >= PageSize \/ Cardinality(items) >= total - Offset(page)

\* The figures of one report agree on which day each lead belongs to, for any
\* offset and also when midnight passes while they are computed: "today" is
\* the last date of "daily", and "last_7_days" its last Week + 1 dates, eight
\* of them with the Week of the code.
DaysAgree ==
    LET this_day == local_date(report.now, report.offset) IN
    pc # "stats" =>
        /\ today(report) = daily(report, this_day)
        /\ last_7(report) =
              UNION {daily(report, d) :
                        d \in {x \in daily_keys(report) : x >= this_day - Week}}

=============================================================================
