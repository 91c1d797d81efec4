# A verification of the lead-capture platform

The platform lets owners build widgets, embeds them in other people's pages
through a small script, and collects the leads visitors submit: validated,
rate-limited, located, stored once, and followed by an email and a webhook.
This directory holds TLA+ modules translated from its source (`src/` below is
the root of the repository), the TLC configurations that check them on small
instances, and theorems about them that TLAPS checks for every instance.

Contents: [the system](#the-system) ·
[modules and code](#modules-and-code) · [runs](#runs) ·
[fairness](#fairness-and-deadlock) · [theorems](#theorems) ·
[findings](#where-code-and-documents-disagree) ·
[left out](#not-modelled) · [plan](#plan)

## The system

| component | state | operations | what makes it correct |
|---|---|---|---|
| Submission endpoint (`app/api/public.py`, `services/geo.py`, `services/sideeffects.py`) | tables `widgets`, `submissions`, `jobs`; the session of each request | `POST /submissions`: limits, lookup, honeypot, validation, pre-check by token, geo chain, INSERT, reconciliation of a lost race, enqueue, answer | one lead per token of a widget; all answers to a token agree; jobs all or none; failures beside the main path never show |
| Job queue and worker (`services/worker.py`, `mailer.py`, `webhook.py`) | table `jobs`; the job a worker holds | poll, claim, run, settle with backoff or ALERT | done means sent, failed means alerted, bounded sends, every job settles |
| Rate limiter (`rate_limit.py`) | a bucket per key, in the memory of the process | `allowed`, prune, `retry_after` | a flood is bounded; windows move forward; a prune forgets nothing live; Retry-After is less than a second off |
| Widget management (`api/widgets.py`, `schemas.py`) | table `widgets` | create, list, read, PATCH, DELETE, embed | changes compose; deleted stays deleted; tenants apart; bad bodies are 4xx |
| Payload guard (`main.py`) | count of a request's bytes, who started the response | `guarded_receive`, `guarded_send`, `_reject` | one response; the cap holds; too large is always told |
| Database schema (`models.py`, `db.py`, `migrations/`) | keys, lengths, cascades | constraints at each commit | part of the modules above |
| Accounts and tokens (`api/auth.py`, `deps.py`, `security.py`) | table `owners`; signed tokens out in the world | register, login, authenticate | one owner per mailbox; what a registration was told stays true; a token never speaks for another owner |
| Validation of the data (`public.py`, `renderer/widget.js`) | none | checks of each field, in the browser and again in the server | a form the browser lets through is refused only for fields the owner has changed or a value over 1000 characters, which the browser does not check |
| Public delivery (`public.py`) | none (ETag, cache headers) | config, scripts | a rendered form is not older than its cache allows |
| Renderer (`renderer/widget.js`) | session token, form, status line | render, submit | thanks mean a lead, and one only; refusals have a reason |
| Dashboard (`api/dashboard.py`) | none | list with paging, stats | every lead is shown; `total` holds; the figures agree on each day |
| Seed (`seed.py`, `Dockerfile`) | all tables | `--wipe`, demo data | runs at each start of the container |
| Settings, errors, version | constants | formatting | |

The API server runs each synchronous handler in a thread of a pool, so several
requests are inside one handler at a time and meet only in the database, under
READ COMMITTED or SQLite's one writer, and in the two rate limiters.  Visitors
meet it through the renderer, over a network and a cache that may lose, delay
and repeat; owners through the management and dashboard calls, as whoever their
token names.  Each
statement sees what is committed at that moment, and SQLAlchemy expires every
loaded object at a commit or rollback, so an innocent `widget.id` is a
statement of its own that can find its row gone.  The worker is another
process and meets the server only in the `jobs` table.  Of the server only the
tables outlive the end of a process, and the seed that runs at its next start
may wipe them; outside it, tokens, caches and `sessionStorage` live on.

The hard behaviours: two requests with one token between the pre-check and the
INSERT; the owner's DELETE between any two statements of a submission; the end
of the process between the commit of a lead and that of its jobs, or while a
worker holds a job; a side effect that happens and then raises; clock readings
that are stale when the lock is obtained; two PATCH calls from rows read before
either wrote; a body that goes over its limit while FastAPI reads it and hides
the exception; a token older than the owner that now has its address; leads
that become visible behind the page a reader has reached; a double click, a
lost answer and a form from the cache.  `PROJECT.json` lists each at its line under `hazards`.

## Modules and code

Each component has a module with its state, one action per statement of the
handler and its properties; an `MC...` module that instantiates it for TLC; and
a `...Proofs` module with its theorems.  Operators named `X_Something` directly
above `X` are variants of `X` with a plausible mistake in it (their comment
begins with "Variant"): no specification uses them, they show that a property
would notice the mistake.

### Submissions and LeadCapture

`Submissions` is `create_submission`.  Between two statements on the database
(or the call of the geo providers) another request, a DELETE or the end of the
process may come, so each is an action: `Receive`, `RefuseBody`
(the 422 of `SubmissionIn`, before any limiter), `CheckLimits`, `LookupWidget` (with the honeypot and the validation, which make no statement),
`Precheck`, `Enrich`, `Insert`, `Refresh`, `ReloadWidget`, `Reconcile`,
`Enqueue`, `CommitJobs`, `Respond` and `Reread`.  `rows` is the submissions
table; a row is named by the request that inserted it and its columns are in
`req` and `geo`.  `jobs` is the jobs table as pairs of lead and kind.
`committed`, `warned` and `failedAt` (the step whose failing statement cost a
request its answer) are history.  `DeleteWidget` is the owner's DELETE
with both its cascades, `StatementFails` a failing statement at any step in
`FailingSteps`, `Crash` the end of the server.

Details that carry the properties: `Insert` looks at the width of
`geo_country` before it looks at the keys, as the database does; a lost race
goes through `ReloadWidget`, since the rollback has expired `widget`; with no
job to write `enqueue_after_submit` returns before its commit, so `Respond`
needs no statement, where `Reread` does.

Abstracted: a body is a widget, a token and how its data fares (`Payloads`,
from "malformed", which `SubmissionIn` refuses, to "email"); which limiter refuses is open (module `RateLimiter` says when); the location is
its width.

`LeadCapture` says what the endpoint promises without its steps: a lead is
captured at one instant, at most once per token of a widget, stays as long as
its widget, and every answer that names a lead names the one its token
captured.  `Submissions` implements it: `LC` maps `leads` to `rows`, `captured`
to `committed`, and every step between arrival and answer to "asked".  The
`Capture` is the commit of the INSERT; the answer ends the request.

### JobQueue

`worker_poll_once`, as `Select` (the oldest due job), `Claim` (an UPDATE by id
and its commit), `Load` (the row is expired and read again), `Send`, `Settle`.
Nothing is locked in between, so each is an action, for any number of workers.
`Send` delivers and returns, raises before the delivery, or raises after it (a
webhook that times out).  `Settle` writes only the columns that differ from the
ones loaded, as the session does: with two workers that matters.  `SettleFails`
is an error at the outcome's commit, which `run_forever` prints; `Crash` the
end of the process.  `wait` is the time to `next_run_at` in units of the
backoff's base, `created` the rank of `created_at` (the jobs of a lead share
it), `sent`, `raised` and `alerts` are history.

`JobLife` says what one worker makes of that without its statements: jobs are
run one at a time and not before their rest is over, a run delivers, raises (after
the delivery or before) or is lost, a raise is followed by a rest twice as long
until `MaxAttempts` have raised and the ALERT is printed, and what is done,
failed or lost is never touched again.  `JobQueue` with one worker implements
it: `Stage` names where a job is by its status and, while it is `processing`,
by the step of the worker that holds it; a run is from the commit of the claim
to that of the outcome.

### RateLimiter

Both limiters of the loop at the head of `create_submission`, with the threads
of one process.  `ReadClock` is apart from `Allow` and `Deny` because
`allowed()` reads the clock before the lock: a thread may arrive with a reading
older than the window.  The coarse prune (`Kept`) is part of both.  `passed`
lists, per limiter and key, the clock readings of the calls let through in the
order of the lock, as history.  Time
is in ticks, `TicksPerSecond` of them to a second, so that truncation to whole
seconds shows.  `answer` keeps, of a refusal, when the client is told to come
back and when its window is over.

### WidgetAdmin

Create, read, PATCH and DELETE, each with its read and its write as actions of
their own (`Load...`, `Write`, `Refresh`, `Remove`, `Insert`).  A widget has
four columns that stand for the four ways the handler treats a null.  `Write`
is SQLAlchemy's commit: the columns that differ from the row as read, found
again by id; with no row left it is a `StaleDataError` and a 500.  `Remove`
meets a row already gone with a warning only.  `made` (the row as created) and
`patched` (the committed PATCH calls) are history.  Calls carry a valid token;
`get_current_owner` is the owner in `by`.

### PayloadGuard

The ASGI middleware for one request.  The server hands over chunks (`Chunk`)
with a declared length, checked against the body as the server does, or without
one; the application reads them through `ReceiveChunk` or `ReceiveTooLarge`;
`masking` is FastAPI turning an exception of the body into its own 400, and
`raising` a reader that lets the exception through.  `wire` is what the server
was given, by `SendStart`, `SendBody`, `FastReject`, `Except` or the error
middleware outside the guard (`ServerError`).

### Accounts

`register` as `Receive`, `Lookup`, `Insert` (where `Collides` is
`UNIQUE(owners.email)` and `Lose` the `IntegrityError`) and `Respond`, `Login`,
`Call` (any call with a token, answered as `get_current_owner` decides) and
`Restart`: the server ends, with it the registrations it has not answered,
committed or not, and starts through `seed`, which may wipe.  A registration cut
off between `Insert` and `Respond` leaves an owner nobody was told of.  An owner is named by the registration or the start that
created it, as its uuid does: an id is never used again, so `email` and
`password` keep what a wiped row had.  An address is a mailbox and whether it is
typed in its plain form; `normalised` is the validator of `RegisterIn`, which
`LoginIn` does not have.  A token is its `sub`, its `email` and who holds it:
the server keeps nothing of it.  Each person knows one password and, since it is
printed, the demo owner's.  A token that expires is a `Call` that is not taken.

### Dashboard

The calls of one owner.  `Flush` and `Commit` are the two instants of a lead,
apart because `created_at`, which orders the list, is taken at the first;
`DeleteWidget` waits for an open transaction that refers to the widget, as the
foreign key makes it.  `Start`, `CheckFilter`, `Count`, `FetchPage`, `TurnPage`
are a client that reads page after page until one is not full; each statement
meets the table of its own instant.  `Rows` is ORDER BY, OFFSET and LIMIT as
sets, with leads of the same instant in any order, each time anew.  `ReadRows`
and `ReadClock` are `stats`: midnight may pass between them.  `present`,
`shown`, `twice`, `came` and `went` are history.  A local day is `Day` ticks,
shifted by the offset of the instant.

### Renderer

`widget.js` in tabs, `get_config` with its ETag, and `POST /submissions` as
`LeadCapture` promises it: `Server == INSTANCE LeadCapture`, so what
`submissions_implements` shows of the handler is what this module takes from it.
A session is a tab on one customer's site, since `sessionStorage` is kept per
tab and origin: one tab that goes from site to site is several.  It has a form
(`page`, with the config it was rendered from), `typed` (nothing, values that fit
the limit of `SubmissionIn`, or a long one among them), a status line and its
`sessionStorage` (`token`), which outlives the form.
`Submit` posts whatever the form has; the button stays enabled, so a tab may
have several requests under way.  `Arrive` may come late or never, and after the
page is gone; `classify` is what the server makes of it: the limit on the length of a
value, which the submit handler does not check (`too_long`), then the honeypot,
then the check of names against the config of that moment.  `ShowAnswer` and `ShowNetworkError` settle
the promise.  `Fresh` and `get_config` are the cache in front of the server: it
answers itself while the response is younger than `MaxAge`, and a 304 revives
the response it has.  `left` says when a config was last replaced (history).

## Runs

Twelve runs.  A run that passes finishes with no error; one that expects a
violation checks a single statement quoted from the documents that the code
does not keep.

| run | what it asks | bounds, and why they are enough |
|---|---|---|
| `submissions_race` | `TokenStoredOnce`, `AnswersAgree`, `JobsFollowCommit`, `ServerErrorMeansDeleted`, `QueueNeverFailsLead` | three requests, one widget, one token besides "none", failing enqueues, crashes, the DELETE: a winner, a loser and a later retry, in every order; a property that fails names at most two requests and a row |
| `submissions_implements` | `ImplementsLeadCapture` (with its fairness) and `StoredLeadIsAcknowledged` | two requests and two widgets, so that a token is also met on the wrong widget; the INSERT, the refresh, the second lookup, the statements of the queue and the last read may fail, columns are narrow and countries long; no webhook, so that a lead may have no job at all (`Respond`) |
| `submissions_geo` | `StoredWithOrWithoutGeo`, violated | one request is all it takes |
| `queue_one_worker` | `DoneMeansSent`, `FailedMeansAlerted`, `SendsBounded`, `AttemptsCountRaises`, `ImplementsJobLife`, `EveryJobSettles` | two jobs, three attempts, one worker, two crashes and one failing commit: two jobs can starve one another, three attempts have two different backoffs |
| `queue_stuck` | `RetriedOrAlerted`, violated | one job and one crash |
| `limiter_flood` | `FloodBound`, `RefusedMeansSpent`, `PruneDropsExpired`, `RetryAfterIsClose` | two threads (one stale, one not), ticks of half a second, one address with a budget of 2 in 2 seconds (the age a prune spares, as with the default settings) and two widgets with a budget of 1 in 1 second, a prune at every call, a clock of 0..4: three windows of a widget, two of the address, times left that are no whole seconds, and a prune by one widget that drops the bucket of the other |
| `widget_patch` | `PatchesCompose`, `DeletedStaysDeleted`, `TenantsApart` | four calls on one widget: its creation and three more, of two owners, with the nine bodies of `MCBodies` |
| `widget_bad_patch` | `BadPatchIsRefused`, violated | the creation and one PATCH |
| `payload_guard` | `OneResponse`, `CapHolds`, `TooLargeIsTold`, `Answered` | a limit of 4 bytes, chunks of 0..3, up to 8 bytes: the limit is met exactly, missed by one, passed by the last chunk and by one before the last |
| `accounts` | `AuthenticatedAsSelf`, `OneOwnerPerBox`, `RegistrationsAgree` | two registrations by two persons over two mailboxes, one the demo owner's, three owners the seed may create: a race of two and of one with the seed, a cut-off on either side of the commit, two wipes, and the address of a wiped owner whose token is still there registered anew, by a person or the seed |
| `dashboard` | `EveryLeadShown`, `TotalIsKept`, `DaysAgree` | four leads of two widgets and pages of two: two full pages and an empty one, a lead that arrives on each; a day of two ticks, offsets of a tick either way, a clock of 0..3, a series of two days: midnight falls between any two leads, in UTC and not |
| `renderer` | `ThankedMeansStoredOnce`, `FormFitsWidget` | the tabs of a human and of a bot, one widget with one field, two requests and two tokens, a `MaxAge` of one tick, a clock of 0..1, values that fit or are long: a double click, a retry after a lost answer, a reload, a long value refused and shortened, an edit under a cached form, a response that has just expired |

What the properties say:

* **`TokenStoredOnce`**: over everything ever committed, not only what is in
  the table; the pre-check alone would not give it.
* **`AnswersAgree`**: all answers that name a row, to all requests with one
  token, name the same row, and it is there as long as its widget is.
* **`JobsFollowCommit`**: a request's jobs are none, or all of a committed
  lead's.  A lead goes without them in silence only if its request was cut off by
  the end of the process or answered with a 500; else they are queued or a warning
  was logged.  It does not exclude that a retry acknowledges a lead so cut off and
  queues nothing, which is what the code does (see the findings).
* **`ServerErrorMeansDeleted`**: with columns wide enough and only the queue
  failing, the loser of a race gets a 500 only if its widget is gone.
* **`QueueNeverFailsLead`**: a stored lead whose request finished was told 201.
* **`StoredLeadIsAcknowledged`**: it is told so in the end, unless the process
  ends, the widget goes, or the very statement failed (`failedAt`) that reads the
  row back after a commit.  A failing queue is no excuse.
* **`SendsBounded`, `AttemptsCountRaises`, `ImplementsJobLife`** hold with one
  worker, which is what `docker-compose.yml` starts.  With two, both may claim
  one job and the later commit overwrites the earlier; `DoneMeansSent` and
  `FailedMeansAlerted` (failed means alerted, and an ALERT means that the job has
  raised as often as it may) survive that, and are proved for any number.
* **`ImplementsJobLife`**: every step of the worker is a step in the life of one
  job, or none.  A poll that did not look at `next_run_at`, took a failed job
  again or wrote an outcome over another would be no step of `JobLife`.
* **`EveryJobSettles`** excepts a job left in `processing` by a worker that
  ended or failed to commit while it held it.  Nothing looks for such a job:
  that is what `queue_stuck` shows.
* **`FloodBound`**: in any stretch of one window's length a key gets through
  its budget, plus what the window before has left after its first call, plus
  a call for each other thread between clock and lock.  Where a prune may drop
  a bucket within the stretch (more keys than `PruneAbove`, and a window longer
  than half the prune's age, as the default of 60 seconds is), a thread with an
  old reading can open one more window that begins before the stretch, so the
  bound has that term once per thread.
* **`RefusedMeansSpent`**: nobody is refused who has budget left: the last
  `max_requests` calls of the key that got through fell into the window the
  refused call is told of, and the first of them began it, although threads take
  the lock out of the order of their readings and the prune drops buckets.
* **`RetryAfterIsClose`**: when a refused client comes back as told, its window
  ends within a second of that, early or late.  It need not be over: the time
  left is truncated to whole seconds (`rate_limit.py:43`), so a client that
  waits exactly that long can be refused once more.
* **`PatchesCompose`**: no PATCH undoes another's change of a column it does
  not itself name, however stale the row it read.  This is the session's
  writing back of changed columns only; the handler does nothing for it.

* **`AuthenticatedAsSelf`**: whoever is answered as an owner knows that owner's
  password.  A token outlives the wipe of its owner; it then names nobody, and
  not the one who has registered the same address since.
* **`OneOwnerPerBox`**: one owner per mailbox, however the address is typed.
* **`RegistrationsAgree`**: an owner a registration created, whether its answer
  was sent or lost, has the mailbox and the password it was asked for, until a wipe
  and after in what is remembered of it; 201 means that it was created; 409 that
  another owner had the mailbox, and none was made.
* **`EveryLeadShown`**: who turns the pages until one is not full has been shown
  every lead that was there when he began, although leads are committed on
  either side of the page meanwhile; and none twice if none arrived.  Two
  exceptions are the code's: leads of the same `created_at` have no order
  between two queries, and the deletion of a widget moves leads to pages already
  turned.  A client that stops by `total` instead of by the short page does not
  have this promise.
* **`TotalIsKept`**: a page has the leads that the `total` beside it promises,
  though they are two queries: leads only arrive unless a widget is deleted.
* **`DaysAgree`**: `today` is the last date of `daily` and `last_7_days` its last
  eight, for every offset and instant.
* **`ThankedMeansStoredOnce`**: a human who reads "Thanks!" has a lead of that
  tab and widget, and no tab has two.  Its price is the code's: the token lives
  as long as the tab, so a second, different message from it is thanked for and
  is not stored.
* **`FormFitsWidget`**: a form was current less than `max-age` before it was
  rendered, and a submission the browser let through meets 422 only if the
  owner has changed the fields since or one of its values is over 1000 characters,
  which no input and no check of `widget.js` prevents.

`TypeOK` of each module is checked in its passing run, and fails under a
variant too (for instance when a bucket is given the end of its window for its
start, which leaves the clock's range).

`Symmetry` is used in runs that check no liveness, over requests, widgets,
threads, calls, owners, persons, leads or tokens, none of which the modules tell
apart.

Bounds in the specifications are named constants: `MaxCrashes` and
`MaxHiccups` (how often the worker may end, and a commit of an outcome fail),
`Horizon` (the clock), `MaxChunk` and `MaxTotal` (what a client sends).
`Seeds` bounds the starts
that create a demo owner.  `Requests`, `Calls`, `Leads` and `Jobs` are finite in every run because each is used at
most once.

## Fairness and deadlock

* `Submissions`: weak fairness of `Handle(r)`, the handler of each request
  received.  The server runs its threads; every statement returns or fails.
  Visitors, owners, failures and crashes owe nothing.
* `LeadCapture`: weak fairness of `Reply(r)`, which the above implements.
* `JobQueue`: weak fairness of `Work(w)`, since `run_forever` polls for ever,
  and of `Tick`, since time passes.  Crashes are finitely many (`MaxCrashes`):
  without a bound a worker that ended in each run would never settle anything.
* `PayloadGuard`: weak fairness of `Next`: a request is run to its end, and a
  client that stops sending is taken for disconnected.
* `RateLimiter`, `WidgetAdmin`, `Accounts`, `Dashboard` and `Renderer` state no
  liveness and assume no fairness.  `Renderer` uses only the safety of
  `LeadCapture`: an answer may never come.

`CHECK_DEADLOCK FALSE` stands where the system really comes to rest: when all
requests, calls and jobs of the instance are finished, its clock has run out or no token
is left.  The limiter's runs check
for deadlock.

## Theorems

All are proved by `tlapm` from the definitions and the named assumptions about
the constants (types, special values outside the sets they complement, and that
threads, addresses, widgets and jobs are finitely many where something is
counted); no instance is fixed.

**`SubmissionsProofs`**: `TypeCorrect`, `StoredOnce`, `Agreement`,
`JobsAfterCommit`, `LoserReconciles`, `QueueIsOffTheMainPath`, `Implements`.
The inductive invariant is `TypeInv /\ LeadInv /\ ReplyInv /\ QueueingByStep`.
Uniqueness alone is not inductive: `LeadInv` adds that a
committed row is missing only when its widget is (so that `Insert` can reason
from the table to the history), that a request commits at its insert and with
valid data, and that whoever reconciles lost to a committed row or has lost its
widget.  `ReplyInv` ties each answer to a row of the right token;
`QueueingByStep` says at which steps of the handler a lead's jobs and warning
exist.  `Implements` is the safety part of the refinement: initial states map
to initial states and each step to a step of `LeadCapture` or to a stutter.  It
uses the same invariant (an answer 201 is a `Confirm` only because the row was
captured).

**`JobQueueProofs`**: `TypeCorrect`, and for any number of workers
`DoneIsSent` and `FailedIsAlerted`: a worker that has gone past `Send` has sent
or raised, and an attempts column never runs ahead of the raises, also when two
workers overwrite one another.  With `Workers = {k}` as a hypothesis of the
theorem: `OneWorkerSends`, `OneWorkerCounts`, `OneWorkerSettles` and
`OneWorkerImplements`, from `SoleInv`: a job in a worker's hands is `processing`
in the table, what it loaded is what the row holds, and sends and raises are
counted by the status and the worker's step.  `OneWorkerImplements` is the whole
of `ImplementsJobLife` (`JobLife` states no fairness): `Claim` is its `Run`,
since nobody has touched the row since the SELECT, `Settle` one of `Complete`,
`Retry` and `Fail`, a failing commit or a crash its `Lose`; `Select`, `Load` and
a crash before the claim change nothing there.

**`RateLimiterProofs`**: `TypeCorrect`, `Advance` (`WindowsAdvance`: while a key
keeps its bucket its window only moves on, by its length at least), `PruneIsSafe`,
`RetryAfter`, `Refusals`, `Flood`.  For the first four what matters is that a
reading of the clock is never ahead of the clock, that the age a prune spares is
never less than the window, and that what is left after whole seconds is less
than one.  `Refusals` rests on `Counted`: a bucket counts exactly the latest
calls let through, from the one that began its window.

`Flood` is about every stretch of a window's length, `x` to `x + Window(l)`, and
`FloodBound` says nothing of where the calls still to come will fall, so it is
not inductive.  `FloodInv` follows a stretch through three phases: until a thread
has read the clock at `x` nothing of it got through; until one has read its end,
no more got through than the windows opened so far allow (`Allowance`: what was
let through, the rest of the window there is, and a rest for each window that
can still be opened from before the stretch); after that, what got through and
the threads that still hold a reading of the stretch (`Inside`) are together
within the bound.  A thread adds one to the last only by having read the clock
in time, so the term for the threads is there.  Which windows can still be opened
(`Unopened`) is where the prune comes in: without a drop within the stretch it is
one at most, and it is one for each thread with an older reading (`Behind`) where
a bucket may be dropped.  `Met` says that a key was let through only with
readings threads have made.

**`WidgetAdminProofs`**: `TypeCorrect`, `Composition`, `Deletion`,
`Isolation`.  The inductive invariant adds that a call without an answer has
committed nothing and that one past its read has a validated body (`FreshInv`,
`BodyInv`), that whoever is past the scoped query works on a widget of its own
(`OwnInv`), and that a column no committed PATCH names was read as it was
created (`ReadInv`).  The case that needs care is a PATCH whose value equals the
one it read: the column stays out of the UPDATE and holds, by `PatchesCompose`,
what another committed PATCH or the creation gave it.

**`PayloadGuardProofs`**: `TypeCorrect`, `SingleResponse`, `Cap`,
`TooLargeTold`, from `CountInv` (the guard's count is what was streamed, and
what the application holds while within the limit) and `WireInv` (which
messages are down the wire at which step).

**`AccountsProofs`**: `TypeCorrect`, `SelfOnly`, `OnePerBox`,
`RegistrationsHold`.  The invariant is `TypeOK /\ Settled /\ Secrets`.
`Settled` says that an id is given out once, that its columns are those the
registration was asked for and never change after, also when a wipe takes the row:
that is what makes looking a token's owner up by id safe; and that a registration
between its commit and its answer has its owner.  `Secrets` carries the knowledge of the password from the
answer that issued a token to the token, where no table holds it.

**`DashboardProofs`**: `TypeCorrect`, `WalkIsComplete`, `TotalHolds`,
`ReportAgrees`.  That every lead is shown is a fact about the whole walk; what is
inductive is `Ahead`: a lead that has not been shown lies at or behind the
offset of the next page, since leads only arrive and can only push it back.
`Behind` says the same of what was shown while nothing arrives, `Promised` ties
`total` to what the next query will find.  `ReportAgrees` needs no invariant
beyond types: `IInvDaysAgree` is the arithmetic of a day's first instant
(`DateBounds`).  Finite sets are taken from `FiniteSetTheorems`.

**`RendererProofs`**: `TypeCorrect`, `ThanksAreTrue`, `FormsFit`.  `TokenInv`
says that a token belongs to one tab and widget and these to it (`OneToken`),
that the server was asked what was posted (`AskedIsSent`), and that a token told
200 or 201 has its lead (`Received`).  The case that needs care is the answer
200 with no lead: only a filled honeypot gets it, so only a bot.  `Aged` and
`Shrunk` carry the age of a config through the cache, a 304 and the page, and
that fields, once gone, never come back (a PATCH with a list that is not empty
fails, see below); a 422 goes back to one of two judgements of the server, of which
`Shrunk` says that "invalid" means changed fields and "malformed" a long value.  No abstract fact about `LeadCapture` is assumed: the proof
goes through its actions.

**Only model-checked**: liveness (`StoredLeadIsAcknowledged`,
`EveryJobSettles`, `Answered`, and the fairness of `ImplementsLeadCapture`),
which is beyond the prover, and the violations, which are single behaviours.
Every safety property of the passing runs has its theorem.

## Where code and documents disagree

1. **A long country name loses the lead** (`submissions_geo`).
   `geo_country` is `String(10)` (`src/app/models.py:98`); the live providers
   give full names.  On Postgres the INSERT raises a `DataError` that
   `create_submission` does not catch.  `DESIGN.md:66` promises a lead "with or
   without geo".
2. **A claimed job may be stuck for ever** (`queue_stuck`).  Only `pending` is
   ever selected; nothing takes back a `processing` job whose worker has ended.
3. **Any PATCH that names fields is a 500** (`widget_bad_patch`):
   `f.model_dump()` is asked of a dict at `widgets.py:83`.  So is a null title.

Met while modelling, and allowed by the properties above rather than called a
disagreement, because no document promises otherwise in so many words: a lead
whose server ends between its commit and that of its jobs
(`public.py:195`, `210`) is acknowledged to the retry and never followed by an
email; Retry-After may be up to a second short; an address typed with a capital
letter at login is refused (`auth.py:49`), though registration took it; a
second, different message of one tab is answered as a retry.

## Not modelled

* Statement failures and crashes in `WidgetAdmin`, `Accounts` and `Dashboard`:
  each handler has a single commit or none, so a failure leaves what a call that
  never wrote leaves (a registration cut off by the end of the server is
  modelled, before its commit and after).  `list` and `embed` read as `get` does.  Invalid
  bodies never reach the handlers and change nothing.
* Methods other than POST, PUT and PATCH, which the guard passes on untouched.
* `client_ip` and the proxies it trusts: an address is a member of `Ips`.
  `FixedWindowLimiter.reset` is called by tests only.
* Each limiter lives in one process; the image runs one.
* The formats of emails, webhooks, logs and errors; settings, version; the
  script bundles, which are constant files.
* The values of fields, but for their length: `Submissions` has the outcome of
  their rules, and `Renderer` tells a value over the limit of `SubmissionIn` from
  one within.  Which characters `trim` and `strip` take away, the two different
  tests for an email and the options of a select are not compared, so
  `FormFitsWidget` is not about them.  A body that is no JSON, which `widget.js`
  never sends, is answered 400 by `errors.py` and never becomes a request.
* In `Renderer`: optional fields and the popover; a fetch of the config that
  fails (it renders nothing); a duplicated tab, into which a browser copies
  `sessionStorage`, token and all; a `sessionStorage` that throws; the text that an
  accepted answer takes from a form that was typed into meanwhile, of which no
  property speaks.  The lookup
  of the config and its answer are one step.
* In `Dashboard`: `by_widget` and `by_country`, sums over the rows of `report`;
  a change of the offset within the series, which the code ignores by using
  that of the moment for every row.
* The demo widgets and leads of the seed, and the cascade from an owner to its
  widgets and leads, which only a wipe sets off.

## Plan

What was first in the plan is done: the endpoint, the queue, the limiters, the
management, the guard, the accounts, the dashboard and the renderer have their
modules and theorems.  What is left, in the order of what matters most:

1. `Platform`: `Submissions`, `JobQueue` and the seed of each restart in one
   database: jobs of leads that are gone, the path of a lead to its email
   through both processes.
2. The two limiters as one gate, with what a refused request costs the address
   that sent it.
3. The rules for values as operators over bounded inputs: which values, besides
   those over the limit, the browser accepts and the server does not.
4. Theorems: the safety of the composition from the invariants of its parts and
   from what they implement, `LeadCapture` and `JobLife`.
