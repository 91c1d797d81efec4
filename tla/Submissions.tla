----------------------------- MODULE Submissions -----------------------------
(***************************************************************************)
(* POST /submissions: the handler create_submission of app/api/public.py,  *)
(* run concurrently by the threads of the API server, with the tables it   *)
(* reads and writes and the owner's DELETE of a widget beside it.          *)
(*                                                                         *)
(* One action is one statement on the database (or one call out of the     *)
(* process), since that is where another request, a deletion or the end of *)
(* the process can come in between.  A row of the submissions table is     *)
(* named by the request whose INSERT created it.                           *)
(***************************************************************************)
EXTENDS Naturals, FiniteSets

CONSTANTS
    Requests,        \* the calls of POST /submissions, retries included
    Widgets,         \* widget ids; a uuid, so never used again once deleted
    Tokens,          \* client tokens a visitor may send
    NoToken,         \* client_token is None (or blank)
    NoPayload,       \* a request not yet sent
    NoId,            \* the id "" of an answer that names no row
    WebhookUrl,      \* TRUE when settings.webhook_url is set
    GeoLive,         \* TRUE for geo_mode "live": full country names
    NarrowColumns,   \* TRUE when the database enforces String(10) (Postgres)
    FailingSteps     \* the steps whose database statement may fail

\* The steps of the handler between its reading of the body and its answer.
Steps == {"body", "limits", "widget", "precheck", "enrich", "insert",
          "refresh", "reload", "reconcile", "enqueue", "jobs", "respond",
          "reread"}

\* The steps that talk to the database.
DbSteps == Steps \ {"body", "limits", "enrich", "respond"}

ASSUME TokenAssumption == NoToken \notin Tokens
ASSUME PayloadAssumption ==
    NoPayload \notin [widget : Widgets, token : Tokens \union {NoToken},
                      data : {"email", "plain", "invalid", "spam",
                              "malformed"}]
ASSUME IdAssumption == NoId \notin Requests
ASSUME SettingsAssumption ==
    /\ WebhookUrl \in BOOLEAN
    /\ GeoLive \in BOOLEAN
    /\ NarrowColumns \in BOOLEAN
    /\ FailingSteps \subseteq DbSteps

VARIABLES
    widgets,    \* rows of the widgets table
    rows,       \* rows of the submissions table
    committed,  \* every row ever committed (history)
    jobs,       \* rows ever added to the jobs table, as <<lead, kind>>
    warned,     \* requests whose enqueue failed and was only logged (history)
    failedAt,   \* the step whose failing statement cost a request its answer
                \* (history)
    pc,         \* where each request's handler is
    req,        \* the body of each request
    geo,        \* the country geo.enrich found for each request
    reply       \* the answer each request got

history == <<committed, warned, failedAt>>
vars == <<widgets, rows, jobs, history, pc, req, geo, reply>>

-----------------------------------------------------------------------------
(* The data.                                                               *)

\* What the handler tells apart in SubmissionIn: the widget, the token and
\* how the data fares: "malformed" breaks a limit of SubmissionIn itself (a
\* value of more than 1000 characters, too many names); the others meet the
\* widget's fields: "email" passes and fills an email field, "plain" passes
\* without one, "invalid" does not pass, "spam" fills the honeypot.
Payloads == [widget : Widgets, token : Tokens \union {NoToken},
             data : {"email", "plain", "invalid", "spam", "malformed"}]

\* What a provider of geo.build_chain does: it raises, answers without data,
\* or names a country, in at most 10 characters or in more.
ProviderAnswers == {"raises", "none", "fits"}
                     \union (IF GeoLive THEN {"tooLong"} ELSE {})

Locations == {"none", "fits", "tooLong"}

\* Variant: the last provider's answer is passed on whatever it is.
enrich_LastAnswer(a, b) == IF a \in Locations \ {"none"} THEN a ELSE b

\* geo.enrich: provider A, then B, then no location; an exception of either
\* only moves the chain on.
enrich(a, b) ==
    IF a \in Locations \ {"none"} THEN a
    ELSE IF b \in Locations \ {"none"} THEN b
    ELSE "none"

NoReply == [status |-> 0, id |-> NoId]

Replies == [status : {0, 200, 201, 404, 422, 429, 500},
            id : Requests \union {NoId}]

\* Table Submission, UNIQUE(widget_id, client_token): NULL tokens never clash.
SameKey(x, y) ==
    /\ req[x].widget = req[y].widget
    /\ req[x].token = req[y].token
    /\ req[x].token # NoToken

\* Variant: the lookup forgets the widget.
find_by_token_AnyWidget(r) ==
    {x \in rows : req[x].token = req[r].token /\ req[x].token # NoToken}

\* _find_by_token(db, widget.id, client_token): the rows r's token finds.
find_by_token(r) == {x \in rows : SameKey(x, r)}

\* The jobs enqueue_after_submit wants for the lead r.
desired(r) ==
    (IF req[r].data = "email" THEN {<<r, "email">>} ELSE {})
      \union (IF WebhookUrl THEN {<<r, "webhook">>} ELSE {})

-----------------------------------------------------------------------------
Init ==
    /\ widgets \in SUBSET Widgets
    /\ rows = {}
    /\ committed = {}
    /\ jobs = {}
    /\ warned = {}
    /\ failedAt = [r \in Requests |-> "none"]
    /\ pc = [r \in Requests |-> "idle"]
    /\ req = [r \in Requests |-> NoPayload]
    /\ geo = [r \in Requests |-> "none"]
    /\ reply = [r \in Requests |-> NoReply]

Goto(r, step) == pc' = [pc EXCEPT ![r] = step]

Answer(r, status, id) ==
    /\ Goto(r, "done")
    /\ reply' = [reply EXCEPT ![r] = [status |-> status, id |-> id]]

\* A visitor's POST reaches the server and is parsed; only what SubmissionIn
\* accepts gets as far as the handler.
Receive(r) ==
    /\ pc[r] = "idle"
    /\ \E p \in Payloads :
          /\ req' = [req EXCEPT ![r] = p]
          /\ Goto(r, IF p.data = "malformed" THEN "body" ELSE "limits")
    /\ UNCHANGED <<widgets, rows, jobs, history, geo, reply>>

\* The RequestValidationError of SubmissionIn, answered before any limiter or
\* table is asked.
RefuseBody(r) ==
    /\ pc[r] = "body"
    /\ Answer(r, 422, NoId)
    /\ UNCHANGED <<widgets, rows, jobs, history, req, geo>>

\* The two rate limiters (module RateLimiter): either may refuse the request.
CheckLimits(r) ==
    /\ pc[r] = "limits"
    /\ \/ Goto(r, "widget") /\ UNCHANGED reply
       \/ Answer(r, 429, NoId)
    /\ UNCHANGED <<widgets, rows, jobs, history, req, geo>>

\* db.get(Widget), the honeypot and _validate_submission_data: no statement
\* in between, so one step.  A request without a token skips the pre-check.
LookupWidget(r) ==
    /\ pc[r] = "widget"
    /\ \/ /\ req[r].widget \notin widgets
          /\ Answer(r, 404, NoId)
       \/ /\ req[r].widget \in widgets
          /\ \/ req[r].data = "spam" /\ Answer(r, 200, NoId)
             \/ req[r].data = "invalid" /\ Answer(r, 422, NoId)
             \/ /\ req[r].data \in {"email", "plain"}
                /\ Goto(r, IF req[r].token = NoToken THEN "enrich"
                                                     ELSE "precheck")
                /\ UNCHANGED reply
    /\ UNCHANGED <<widgets, rows, jobs, history, req, geo>>

\* The first lookup by token: a replay gets the row already stored.
Precheck(r) ==
    /\ pc[r] = "precheck"
    /\ \/ \E x \in find_by_token(r) : Answer(r, 200, x)
       \/ find_by_token(r) = {} /\ Goto(r, "enrich") /\ UNCHANGED reply
    /\ UNCHANGED <<widgets, rows, jobs, history, req, geo>>

\* geo.enrich: up to two calls over the network, during which anything may
\* happen to the tables.
Enrich(r) ==
    /\ pc[r] = "enrich"
    /\ \E a, b \in ProviderAnswers : geo' = [geo EXCEPT ![r] = enrich(a, b)]
    /\ Goto(r, "insert")
    /\ UNCHANGED <<widgets, rows, jobs, history, req, reply>>

\* A value the column cannot hold is refused before any constraint is looked at.
DataError(r) == NarrowColumns /\ geo[r] = "tooLong"

\* Variant: no UNIQUE constraint, only the pre-check.
IntegrityError_NoUnique(r) == req[r].widget \notin widgets

\* The INSERT breaks the UNIQUE constraint or the foreign key.
IntegrityError(r) ==
    \/ find_by_token(r) # {}
    \/ req[r].widget \notin widgets

\* db.add and db.commit: the row is stored, or the commit raises.  An
\* IntegrityError is rolled back and reconciled, anything else is a 500.
Insert(r) ==
    /\ pc[r] = "insert"
    /\ \/ /\ DataError(r)
          /\ Answer(r, 500, NoId)
          /\ UNCHANGED <<rows, committed>>
       \/ /\ ~DataError(r)
          /\ IntegrityError(r)
          /\ Goto(r, "reload")
          /\ UNCHANGED <<rows, committed, reply>>
       \/ /\ ~DataError(r)
          /\ ~IntegrityError(r)
          /\ rows' = rows \union {r}
          /\ committed' = committed \union {r}
          /\ Goto(r, "refresh")
          /\ UNCHANGED reply
    /\ UNCHANGED <<widgets, jobs, warned, failedAt, req, geo>>

\* db.refresh: the row is read back; if its widget has been deleted meanwhile
\* it is gone and the call raises.
Refresh(r) ==
    /\ pc[r] = "refresh"
    /\ \/ r \in rows /\ Goto(r, "enqueue") /\ UNCHANGED reply
       \/ r \notin rows /\ Answer(r, 500, NoId)
    /\ UNCHANGED <<widgets, rows, jobs, history, req, geo>>

\* After the rollback widget is expired: widget.id loads it again, and raises
\* when it has been deleted.
ReloadWidget(r) ==
    /\ pc[r] = "reload"
    /\ \/ req[r].widget \in widgets /\ Goto(r, "reconcile") /\ UNCHANGED reply
       \/ req[r].widget \notin widgets /\ Answer(r, 500, NoId)
    /\ UNCHANGED <<widgets, rows, jobs, history, req, geo>>

\* Variant: the answer names the row that was rolled back.
Reconcile_OwnId(r) ==
    /\ pc[r] = "reconcile"
    /\ Answer(r, 200, r)
    /\ UNCHANGED <<widgets, rows, jobs, history, req, geo>>

\* Variant: the IntegrityError is raised on, without the second lookup.
Reconcile_Raises(r) ==
    /\ pc[r] = "reconcile"
    /\ Answer(r, 500, NoId)
    /\ UNCHANGED <<widgets, rows, jobs, history, req, geo>>

\* The second lookup by token: the winner's row, or the exception again.
Reconcile(r) ==
    /\ pc[r] = "reconcile"
    /\ \/ \E x \in find_by_token(r) : Answer(r, 200, x)
       \/ find_by_token(r) = {} /\ Answer(r, 500, NoId)
    /\ UNCHANGED <<widgets, rows, jobs, history, req, geo>>

\* enqueue_after_submit up to its commit.  widget is expired by the commit of
\* the lead: widget.fields loads it again, and if it is gone the exception is
\* logged, the session rolled back and no job written.
Enqueue(r) ==
    /\ pc[r] = "enqueue"
    /\ \/ /\ req[r].widget \notin widgets
          /\ warned' = warned \union {r}
          /\ Goto(r, "reread")
       \/ /\ req[r].widget \in widgets
          /\ Goto(r, IF desired(r) = {} THEN "respond" ELSE "jobs")
          /\ UNCHANGED warned
    /\ UNCHANGED <<widgets, rows, committed, jobs, failedAt, req, geo, reply>>

\* Variant: each job committed on its own, the second one lost.
CommitJobs_OneByOne(r) ==
    /\ pc[r] = "jobs"
    /\ \E j \in desired(r) : jobs' = jobs \union {j}
    /\ Goto(r, "reread")
    /\ UNCHANGED <<widgets, rows, history, req, geo, reply>>

\* db.add_all(desired) and db.commit: all the lead's jobs in one transaction.
CommitJobs(r) ==
    /\ pc[r] = "jobs"
    /\ jobs' = jobs \union desired(r)
    /\ Goto(r, "reread")
    /\ UNCHANGED <<widgets, rows, history, req, geo, reply>>

\* 201 when nothing has expired submission since the refresh.
Respond(r) ==
    /\ pc[r] = "respond"
    /\ Answer(r, 201, r)
    /\ UNCHANGED <<widgets, rows, jobs, history, req, geo>>

\* The commit or rollback of the jobs has expired submission: submission.id
\* reads the row again, and raises when it has gone with its widget.
Reread(r) ==
    /\ pc[r] = "reread"
    /\ \/ r \in rows /\ Answer(r, 201, r)
       \/ r \notin rows /\ Answer(r, 500, NoId)
    /\ UNCHANGED <<widgets, rows, jobs, history, req, geo>>

\* Variant: enqueue_after_submit without its try.
StatementFails_Uncaught(r) ==
    /\ pc[r] \in FailingSteps
    /\ failedAt' = [failedAt EXCEPT ![r] = pc[r]]
    /\ Answer(r, 500, NoId)
    /\ UNCHANGED <<widgets, rows, committed, jobs, warned, req, geo>>

\* A statement fails (connection lost, database locked).  Inside
\* enqueue_after_submit that is a warning, anywhere else a 500.
StatementFails(r) ==
    /\ pc[r] \in FailingSteps
    /\ \/ /\ pc[r] \in {"enqueue", "jobs"}
          /\ warned' = warned \union {r}
          /\ Goto(r, "reread")
          /\ UNCHANGED <<failedAt, reply>>
       \/ /\ pc[r] \notin {"enqueue", "jobs"}
          /\ failedAt' = [failedAt EXCEPT ![r] = pc[r]]
          /\ Answer(r, 500, NoId)
          /\ UNCHANGED warned
    /\ UNCHANGED <<widgets, rows, committed, jobs, req, geo>>

\* The owner's DELETE /api/widgets/{id}: the submissions go with the widget
\* (ORM cascade, and ondelete CASCADE for those inserted meanwhile); the jobs
\* hold no reference and stay.
DeleteWidget(w) ==
    /\ w \in widgets
    /\ widgets' = widgets \ {w}
    /\ rows' = {x \in rows : req[x].widget # w}
    /\ UNCHANGED <<jobs, history, pc, req, geo, reply>>

\* The server process ends: every request in it is lost without an answer,
\* what was committed stays.
Crash ==
    /\ \E r \in Requests : pc[r] \in Steps
    /\ pc' = [r \in Requests |-> IF pc[r] \in Steps THEN "lost" ELSE pc[r]]
    /\ UNCHANGED <<widgets, rows, jobs, history, req, geo, reply>>

Handle(r) ==
    \/ RefuseBody(r) \/ CheckLimits(r) \/ LookupWidget(r) \/ Precheck(r)
    \/ Enrich(r) \/ Insert(r) \/ Refresh(r) \/ ReloadWidget(r)
    \/ Reconcile(r) \/ Enqueue(r) \/ CommitJobs(r) \/ Respond(r)
    \/ Reread(r)

Next ==
    \/ \E r \in Requests : Receive(r) \/ Handle(r) \/ StatementFails(r)
    \/ \E w \in Widgets : DeleteWidget(w)
    \/ Crash

\* The server runs the handlers it has started; visitors, owners, failures
\* and crashes owe nothing.
Fairness == \A r \in Requests : WF_vars(Handle(r))

Spec == Init /\ [][Next]_vars /\ Fairness

-----------------------------------------------------------------------------
(* Properties.                                                             *)

TypeOK ==
    /\ widgets \in SUBSET Widgets
    /\ rows \in SUBSET Requests
    /\ committed \in SUBSET Requests
    /\ jobs \in SUBSET (Requests \X {"email", "webhook"})
    /\ warned \in SUBSET Requests
    /\ failedAt \in [Requests -> DbSteps \union {"none"}]
    /\ pc \in [Requests -> Steps \union {"idle", "done", "lost"}]
    /\ req \in [Requests -> Payloads \union {NoPayload}]
    /\ geo \in [Requests -> Locations]
    /\ reply \in [Requests -> Replies]

\* Two leads ever committed under one token of one widget are one lead:
\* whatever the interleaving of retries, crashes and pre-checks, the token
\* stores once.
TokenStoredOnce ==
    \A x, y \in committed : SameKey(x, y) => x = y

\* All the answers 200 and 201 that name a row, to all the requests with one
\* token, name the same row; the row carries that very token and widget, and
\* it is in the table as long as its widget is.
AnswersAgree ==
    \A r \in Requests : reply[r].id # NoId =>
        /\ reply[r].id = r \/ SameKey(reply[r].id, r)
        /\ reply[r].id \in rows \/ req[r].widget \notin widgets
        /\ \A q \in Requests : reply[q].id # NoId /\ SameKey(q, r)
                                 => reply[q].id = reply[r].id

\* Jobs exist only for a lead that was committed, all of them or none.  A lead
\* goes without them in silence only when its request was cut off by the end
\* of the process, or was answered with a 500: else they are queued, or a
\* warning was logged.  (A retry acknowledges a lead so cut off and queues
\* nothing; this does not exclude it, as the code does not.)
JobsFollowCommit ==
    \A r \in Requests :
        LET queued == {j \in jobs : j[1] = r} IN
        /\ queued \in {{}} \union (IF r \in committed THEN {desired(r)} ELSE {})
        /\ r \in warned => r \in committed /\ queued = {}
        /\ r \in committed /\ pc[r] = "done" =>
              queued = desired(r) \/ r \in warned \/ reply[r].status = 500

\* With columns wide enough and no statement of the main path failing, the
\* only 500 is the one of a request whose widget was deleted under it: a lost
\* INSERT race with a live widget always reconciles (comment at
\* public.py:198), and a queue that fails never shows.
Healthy ==
    /\ FailingSteps \subseteq {"enqueue", "jobs"}
    /\ ~(NarrowColumns /\ GeoLive)

ServerErrorMeansDeleted ==
    Healthy => \A r \in Requests :
                   reply[r].status = 500 => req[r].widget \notin widgets

\* The side effects never fail the main path: while only the statements of
\* enqueue_after_submit fail, a request that finished and whose row is in the
\* table was told 201.
QueueNeverFailsLead ==
    FailingSteps \subseteq {"enqueue", "jobs"} =>
        \A r \in rows : pc[r] = "done" => reply[r] = [status |-> 201, id |-> r]

\* A visitor whose lead is stored is told so with 201, unless the process
\* ends, the widget is deleted, or the very statement failed that reads the
\* row back after a commit; no other failure costs the answer, that of the
\* queue least of all.
StoredLeadIsAcknowledged ==
    \A r \in Requests : r \in rows ~>
        \/ reply[r] = [status |-> 201, id |-> r]
        \/ reply[r].status = 500 /\ failedAt[r] \in {"refresh", "reread"}
        \/ pc[r] = "lost"
        \/ r \notin rows

\* The handler implements LeadCapture: all of it happens at one instant, the
\* commit of the row; a request is asked from its arrival to its answer.
Phase == [r \in Requests |-> IF pc[r] \in Steps THEN "asked" ELSE pc[r]]

LC == INSTANCE LeadCapture
        WITH leads <- rows, captured <- committed, asked <- req,
             phase <- Phase, answer <- reply

ImplementsLeadCapture == LC!Spec

-----------------------------------------------------------------------------
(* What the documentation says and the code does not do.                   *)

\* DESIGN.md, hardening checklist: the geo chain degrades and the lead is
\* stored with or without geo.  Whatever the providers answered, a request
\* that got as far as the insert with its widget in place and no failing
\* statement is not answered with a 500.
StoredWithOrWithoutGeo ==
    FailingSteps = {} =>
        \A r \in Requests :
            reply[r].status = 500 => req[r].widget \notin widgets

=============================================================================
