------------------------------ MODULE JobQueue ------------------------------
(***************************************************************************)
(* The jobs table and the worker that drains it: app/services/worker.py,   *)
(* with the senders of mailer.py and webhook.py as its environment.        *)
(*                                                                         *)
(* A worker takes a job in five steps, each of which another process can   *)
(* come between: it SELECTs the oldest due job, UPDATEs it to processing,  *)
(* loads it again (the commit has expired it), sends, and commits the      *)
(* outcome.  Nothing holds a lock between the steps.  The session writes   *)
(* back only the columns that differ from what it loaded.                  *)
(*                                                                         *)
(* Time is counted in units of BACKOFF_BASE_SECONDS.                       *)
(***************************************************************************)
EXTENDS Naturals, FiniteSets

CONSTANTS
    Jobs,           \* rows of the jobs table, by id
    Workers,        \* processes that run run_forever
    NoJob,          \* the worker holds no job
    MaxAttempts,    \* settings.worker_max_attempts
    MaxCrashes,     \* bound: how often a worker process may end
    MaxHiccups      \* bound: how often a commit of an outcome may fail

ASSUME NoJobAssumption == NoJob \notin Jobs
ASSUME FiniteAssumption == IsFiniteSet(Jobs)
ASSUME BoundAssumption ==
    /\ MaxAttempts \in Nat \ {0}
    /\ MaxCrashes \in Nat
    /\ MaxHiccups \in Nat

VARIABLES
    status,     \* column status; "none" before the row is inserted
    attempts,   \* column attempts
    wait,       \* time until next_run_at; 0 when it is NULL or past
    created,    \* column created_at, as the rank of the enqueueing commit
    sent,       \* how often the side effect has happened (history)
    raised,     \* how often a run of the job has raised (history)
    alerts,     \* how often the ALERT line was printed (history)
    wpc,        \* where each worker is
    job,        \* the job it holds
    snap,       \* status and attempts of the job as it loaded them
    crashes,
    hiccups

rowVars == <<status, attempts, wait, created>>
history == <<sent, raised, alerts>>
faults == <<crashes, hiccups>>
vars == <<rowVars, history, wpc, job, snap, faults>>

Statuses == {"none", "pending", "processing", "done", "failed"}

\* _backoff: 2.0 * 2 ** (attempt - 1) seconds.
backoff(attempt) == 2 ^ (attempt - 1)

\* Variant: only rows whose next_run_at is NULL.
Due_NoRetry(j) == status[j] = "pending" /\ wait[j] = 0 /\ attempts[j] = 0

\* Variant: the poll does not look at next_run_at.
Due_Early(j) == status[j] = "pending"

Due(j) == status[j] = "pending" /\ wait[j] = 0

Init ==
    /\ status = [j \in Jobs |-> "none"]
    /\ attempts = [j \in Jobs |-> 0]
    /\ wait = [j \in Jobs |-> 0]
    /\ created = [j \in Jobs |-> 0]
    /\ sent = [j \in Jobs |-> 0]
    /\ raised = [j \in Jobs |-> 0]
    /\ alerts = [j \in Jobs |-> 0]
    /\ wpc = [w \in Workers |-> "idle"]
    /\ job = [w \in Workers |-> NoJob]
    /\ snap = [w \in Workers |-> [status |-> "none", attempts |-> 0]]
    /\ crashes = 0
    /\ hiccups = 0

\* enqueue_after_submit commits a lead's jobs, one or both of email and
\* webhook, in one transaction, due at once.
Enqueue(S) ==
    /\ S # {}
    /\ \A j \in S : status[j] = "none"
    /\ status' = [j \in Jobs |-> IF j \in S THEN "pending" ELSE status[j]]
    /\ created' = [j \in Jobs |->
                     IF j \in S THEN Cardinality({i \in Jobs : status[i] # "none"})
                                ELSE created[j]]
    /\ UNCHANGED <<attempts, wait, history, wpc, job, snap, faults>>

\* _claim_next, the SELECT: the oldest pending job that is due.
Select(w) ==
    /\ wpc[w] = "idle"
    /\ \E j \in Jobs :
          /\ Due(j)
          /\ \A i \in Jobs : Due(i) => created[j] <= created[i]
          /\ job' = [job EXCEPT ![w] = j]
    /\ wpc' = [wpc EXCEPT ![w] = "selected"]
    /\ UNCHANGED <<rowVars, history, snap, faults>>

\* _claim_next, the UPDATE and its commit: by id, whatever the row holds now.
Claim(w) ==
    /\ wpc[w] = "selected"
    /\ status' = [status EXCEPT ![job[w]] = "processing"]
    /\ wpc' = [wpc EXCEPT ![w] = "claimed"]
    /\ UNCHANGED <<attempts, wait, created, history, job, snap, faults>>

\* run_job reads job.kind: the expired row is loaded again.
Load(w) ==
    /\ wpc[w] = "claimed"
    /\ snap' = [snap EXCEPT ![w] = [status |-> status[job[w]],
                                    attempts |-> attempts[job[w]]]]
    /\ wpc' = [wpc EXCEPT ![w] = "loaded"]
    /\ UNCHANGED <<rowVars, history, job, faults>>

\* send_email or send_webhook: it delivers and returns, or raises before the
\* delivery, or raises after it (a timeout on the answer).
Send(w) ==
    /\ wpc[w] = "loaded"
    /\ \E delivered, raises \in BOOLEAN :
          /\ delivered \/ raises
          /\ sent' = [sent EXCEPT ![job[w]] = IF delivered THEN @ + 1 ELSE @]
          /\ raised' = [raised EXCEPT ![job[w]] = IF raises THEN @ + 1 ELSE @]
          /\ wpc' = [wpc EXCEPT ![w] = IF raises THEN "raised" ELSE "sent"]
    /\ UNCHANGED <<rowVars, alerts, job, snap, faults>>

\* Variant: > for >=.
Exhausted_Later(w) == snap[w].attempts + 1 > MaxAttempts

\* What the except branch of worker_poll_once makes of the row it loaded.
Exhausted(w) == snap[w].attempts + 1 >= MaxAttempts

\* Variant: an exception short of the last attempt is taken for success.
Outcome_Swallowed(w) ==
    IF wpc[w] = "raised" /\ Exhausted(w) THEN "failed" ELSE "done"

\* Variant: a status for the job to be retried that no poll selects.
Outcome_Retrying(w) ==
    IF wpc[w] = "sent" THEN "done"
    ELSE IF Exhausted(w) THEN "failed"
    ELSE "retrying"

Outcome(w) ==
    IF wpc[w] = "sent" THEN "done"
    ELSE IF Exhausted(w) THEN "failed"
    ELSE "pending"

\* Variant: no alert.
PrintAlert_Silent(w) == UNCHANGED alerts

\* The ALERT is printed before the outcome is committed.
PrintAlert(w) ==
    alerts' = [alerts EXCEPT ![job[w]] =
                 IF Outcome(w) = "failed" THEN @ + 1 ELSE @]

Release(w) ==
    /\ wpc' = [wpc EXCEPT ![w] = "idle"]
    /\ job' = [job EXCEPT ![w] = NoJob]

\* Variant: attempts counts the successful run too.
Settle_CountsAll(w) ==
    /\ wpc[w] \in {"sent", "raised"}
    /\ PrintAlert(w)
    /\ status' = [status EXCEPT ![job[w]] = Outcome(w)]
    /\ attempts' = [attempts EXCEPT ![job[w]] = snap[w].attempts + 1]
    /\ wait' = [wait EXCEPT ![job[w]] =
                  IF Outcome(w) = "pending" THEN backoff(snap[w].attempts + 1)
                                            ELSE @]
    /\ Release(w)
    /\ UNCHANGED <<created, sent, raised, snap, faults>>

\* The commit of the outcome: the status only if it differs from the one
\* loaded, the attempts and next_run_at only after an exception.
Settle(w) ==
    /\ wpc[w] \in {"sent", "raised"}
    /\ PrintAlert(w)
    /\ status' = [status EXCEPT ![job[w]] =
                    IF Outcome(w) = snap[w].status THEN @ ELSE Outcome(w)]
    /\ attempts' = [attempts EXCEPT ![job[w]] =
                      IF wpc[w] = "raised" THEN snap[w].attempts + 1 ELSE @]
    /\ wait' = [wait EXCEPT ![job[w]] =
                  IF Outcome(w) = "pending" THEN backoff(snap[w].attempts + 1)
                                            ELSE @]
    /\ Release(w)
    /\ UNCHANGED <<created, sent, raised, snap, faults>>

\* That commit raises: run_forever prints the error and goes on polling.
SettleFails(w) ==
    /\ wpc[w] \in {"sent", "raised"}
    /\ hiccups < MaxHiccups
    /\ hiccups' = hiccups + 1
    /\ PrintAlert(w)
    /\ Release(w)
    /\ UNCHANGED <<rowVars, sent, raised, snap, crashes>>

\* The worker process ends and is started again, at any point.
Crash(w) ==
    /\ wpc[w] # "idle"
    /\ crashes < MaxCrashes
    /\ crashes' = crashes + 1
    /\ Release(w)
    /\ UNCHANGED <<rowVars, history, snap, hiccups>>

\* Time passes; it matters only while some job waits for its next run.
Tick ==
    /\ \E j \in Jobs : wait[j] > 0
    /\ wait' = [j \in Jobs |-> IF wait[j] > 0 THEN wait[j] - 1 ELSE 0]
    /\ UNCHANGED <<status, attempts, created, history, wpc, job, snap, faults>>

Work(w) == Select(w) \/ Claim(w) \/ Load(w) \/ Send(w) \/ Settle(w)

Next ==
    \/ \E i, j \in Jobs : Enqueue({i, j})
    \/ \E w \in Workers : Work(w) \/ SettleFails(w) \/ Crash(w)
    \/ Tick

\* A worker polls for ever and time passes; leads, failing commits and ends
\* of the process owe nothing.
Fairness == WF_vars(Tick) /\ \A w \in Workers : WF_vars(Work(w))

Spec == Init /\ [][Next]_vars /\ Fairness

-----------------------------------------------------------------------------
(* Properties.                                                             *)

TypeOK ==
    /\ status \in [Jobs -> Statuses]
    /\ attempts \in [Jobs -> Nat]
    /\ wait \in [Jobs -> Nat]
    /\ created \in [Jobs -> Nat]
    /\ sent \in [Jobs -> Nat]
    /\ raised \in [Jobs -> Nat]
    /\ alerts \in [Jobs -> Nat]
    /\ wpc \in [Workers -> {"idle", "selected", "claimed", "loaded", "sent",
                            "raised"}]
    /\ job \in [Workers -> Jobs \union {NoJob}]
    /\ snap \in [Workers -> [status : Statuses, attempts : Nat]]
    /\ crashes \in 0..MaxCrashes
    /\ hiccups \in 0..MaxHiccups

\* A job marked done has had its side effect, whoever else worked on it.
DoneMeansSent == \A j \in Jobs : status[j] = "done" => sent[j] > 0

\* A job marked failed has its ALERT, and an ALERT tells the truth: the job has
\* raised at least MaxAttempts times (docstring of worker.py).
FailedMeansAlerted ==
    \A j \in Jobs : /\ status[j] = "failed" => alerts[j] > 0
                    /\ alerts[j] > 0 => raised[j] >= MaxAttempts

\* With one worker no job is ever sent more than MaxAttempts times, whatever
\* raises after the delivery, crashes or fails to commit.
SendsBounded == \A j \in Jobs : sent[j] <= MaxAttempts

\* With one worker the attempts column counts exactly the runs that raised,
\* but for the one whose outcome is yet to be committed or never was.
AttemptsCountRaises ==
    \A j \in Jobs :
        \/ raised[j] = attempts[j]
        \/ raised[j] = attempts[j] + 1 /\ status[j] = "processing"

\* With one worker the queue implements JobLife: one job is run at a time, none
\* before its backoff is over, each run raises, delivers or is lost once, and
\* nothing sends again, takes back or overwrites what is done or failed.
\* A job is in a run from the claim of the row to the commit of the outcome,
\* as long as its worker holds it.
HeldAt(j, steps) == \E w \in Workers : job[w] = j /\ wpc[w] \in steps

Stage(j) ==
    IF status[j] = "pending" THEN "queued"
    ELSE IF status[j] # "processing" THEN status[j]
    ELSE IF HeldAt(j, {"claimed", "loaded"}) THEN "running"
    ELSE IF HeldAt(j, {"sent"}) THEN "delivered"
    ELSE IF HeldAt(j, {"raised"}) THEN "raised"
    ELSE "lost"

Life == INSTANCE JobLife
          WITH stage <- [j \in Jobs |-> Stage(j)], tries <- attempts,
               rest <- wait

ImplementsJobLife == Life!Spec

\* A part of it: with one worker a job that is done or failed stays so.
SettledIsFinal ==
    [][\A j \in Jobs : status[j] \in {"done", "failed"}
                         => status'[j] = status[j]]_vars

\* Every job ends done, or failed with its alert: neither retries nor newer
\* jobs starve it.  The one exception is a job left in processing by a worker
\* that ended, or failed to commit, while it held the job.
Abandoned(j) == status[j] = "processing" /\ \A w \in Workers : job[w] # j

EveryJobSettles ==
    \A j \in Jobs : status[j] # "none" ~>
        status[j] \in {"done", "failed"} \/ Abandoned(j)

-----------------------------------------------------------------------------
(* What the documentation says and the code does not do.                   *)

\* DESIGN.md, hardening checklist: a side effect is retried by a worker and
\* its failure is an alert.  With a worker that is always started again,
\* every job is at some time done or its failure alerted.
RetriedOrAlerted ==
    \A j \in Jobs : status[j] # "none" ~> status[j] = "done" \/ alerts[j] > 0

=============================================================================
