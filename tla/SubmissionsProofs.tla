-------------------------- MODULE SubmissionsProofs --------------------------
(***************************************************************************)
(* Theorems about POST /submissions, for any number of requests, widgets   *)
(* and tokens, any settings and any set of failing statements.             *)
(***************************************************************************)
EXTENDS Submissions, TLAPS

\* The steps at which the request's row has been committed.
Stored == {"refresh", "enqueue", "jobs", "respond", "reread"}

\* The steps a request reaches only with data that passes validation.
Validated == Steps \ {"body", "limits", "widget"}

-----------------------------------------------------------------------------
(* Type correctness.                                                       *)

\* Every request in the server has a body.
Started == \A r \in Requests : pc[r] # "idle" => req[r] \in Payloads

TypeInv == TypeOK /\ Started

\* What TypeOK says of the answers an action gives.
LEMMA ReplyType ==
    ASSUME NEW s \in {0, 200, 201, 404, 422, 429, 500},
           NEW i \in Requests \union {NoId}
    PROVE  [status |-> s, id |-> i] \in Replies
BY DEF Replies

\* geo.enrich answers with one of the three kinds of location.
LEMMA EnrichType ==
    ASSUME NEW a \in ProviderAnswers, NEW b \in ProviderAnswers
    PROVE  /\ enrich(a, b) \in Locations
           /\ enrich(a, b) = "tooLong" => GeoLive
BY DEF enrich, Locations, ProviderAnswers

LEMMA InitType == Init => TypeInv
BY DEF Init, TypeInv, TypeOK, Started, Replies, NoReply, Locations

LEMMA NextType == TypeInv /\ [Next]_vars => TypeInv'
<1> SUFFICES ASSUME TypeInv, [Next]_vars PROVE TypeInv'
  OBVIOUS
<1> USE DEF TypeInv, TypeOK, Started, Goto, Answer, Steps, history
<1>1. ASSUME NEW r \in Requests, Receive(r) PROVE TypeInv'
  BY <1>1 DEF Receive
<1>2. ASSUME NEW r \in Requests, CheckLimits(r) PROVE TypeInv'
  BY <1>2, ReplyType DEF CheckLimits
<1>3. ASSUME NEW r \in Requests, LookupWidget(r) PROVE TypeInv'
  BY <1>3, ReplyType DEF LookupWidget
<1>4. ASSUME NEW r \in Requests, Precheck(r) PROVE TypeInv'
  BY <1>4, ReplyType DEF Precheck, find_by_token
<1>5. ASSUME NEW r \in Requests, Enrich(r) PROVE TypeInv'
  BY <1>5, EnrichType DEF Enrich
<1>6. ASSUME NEW r \in Requests, Insert(r) PROVE TypeInv'
  BY <1>6, ReplyType DEF Insert
<1>7. ASSUME NEW r \in Requests, Refresh(r) PROVE TypeInv'
  BY <1>7, ReplyType DEF Refresh
<1>8. ASSUME NEW r \in Requests, ReloadWidget(r) PROVE TypeInv'
  BY <1>8, ReplyType DEF ReloadWidget
<1>9. ASSUME NEW r \in Requests, Reconcile(r) PROVE TypeInv'
  BY <1>9, ReplyType DEF Reconcile, find_by_token
<1>10. ASSUME NEW r \in Requests, Enqueue(r) PROVE TypeInv'
  BY <1>10 DEF Enqueue
<1>11. ASSUME NEW r \in Requests, CommitJobs(r) PROVE TypeInv'
  BY <1>11 DEF CommitJobs, desired
<1>12. ASSUME NEW r \in Requests, Respond(r) PROVE TypeInv'
  BY <1>12, ReplyType DEF Respond
<1>13. ASSUME NEW r \in Requests, Reread(r) PROVE TypeInv'
  BY <1>13, ReplyType DEF Reread
<1>14. ASSUME NEW r \in Requests, StatementFails(r) PROVE TypeInv'
  BY <1>14, ReplyType, SettingsAssumption DEF StatementFails, DbSteps
<1>15. ASSUME NEW w \in Widgets, DeleteWidget(w) PROVE TypeInv'
  BY <1>15 DEF DeleteWidget
<1>16. CASE Crash
  BY <1>16 DEF Crash
<1>17. CASE UNCHANGED vars
  BY <1>17 DEF vars
<1>18. ASSUME NEW r \in Requests, RefuseBody(r) PROVE TypeInv'
  BY <1>18, ReplyType DEF RefuseBody
<1> HIDE DEF TypeInv
<1> QED
  BY <1>1, <1>2, <1>3, <1>4, <1>5, <1>6, <1>7, <1>8, <1>9, <1>10, <1>11,
     <1>12, <1>13, <1>14, <1>15, <1>16, <1>17, <1>18 DEF Next, Handle

\* The tables and the handlers' local state keep their types.
THEOREM TypeCorrect == Spec => []TypeOK
<1>1. Spec => []TypeInv
  BY InitType, NextType, PTL DEF Spec
<1> QED
  BY <1>1, PTL DEF TypeInv

-----------------------------------------------------------------------------
(* The leads: what is stored, and who may still store.                     *)

\* A committed row is in the table exactly as long as its widget is.
RowsFollowWidgets ==
    rows = {x \in committed : req[x].widget \in widgets}

\* A row is committed by the request at the insert, once, with valid data;
\* a malformed body gets no further than its refusal.
CommittedByInsert ==
    \A r \in Requests :
        /\ pc[r] \in Stored => r \in committed
        /\ r \in committed => pc[r] \in Stored \union {"done", "lost"}
        /\ pc[r] \in Validated => req[r].data \in {"email", "plain"}
        /\ pc[r] \in {"limits", "widget"} => req[r].data # "malformed"
        /\ pc[r] = "body" => req[r].data = "malformed"

\* A request sent to reconcile lost to a committed row of its token, or has
\* lost its widget.
LoserHasWinner ==
    \A r \in Requests : pc[r] \in {"reload", "reconcile"} =>
        \/ \E x \in committed : SameKey(x, r)
        \/ req[r].widget \notin widgets

LeadInv ==
    /\ RowsFollowWidgets
    /\ CommittedByInsert
    /\ LoserHasWinner
    /\ TokenStoredOnce

LEMMA InitLead == Init => LeadInv
BY DEF Init, LeadInv, RowsFollowWidgets, CommittedByInsert, LoserHasWinner,
       TokenStoredOnce, Stored, Validated, Steps

LEMMA NextLead == TypeInv /\ LeadInv /\ [Next]_vars => LeadInv'
<1> SUFFICES ASSUME TypeInv, LeadInv, [Next]_vars PROVE LeadInv'
  OBVIOUS
<1> USE DEF TypeInv, TypeOK, Started, Goto, Answer, Steps, history, LeadInv,
            RowsFollowWidgets, CommittedByInsert, LoserHasWinner,
            TokenStoredOnce, Stored, Validated, SameKey
<1>1. ASSUME NEW r \in Requests, Receive(r) PROVE LeadInv'
  BY <1>1 DEF Receive
<1>2. ASSUME NEW r \in Requests, CheckLimits(r) PROVE LeadInv'
  BY <1>2 DEF CheckLimits
<1>3. ASSUME NEW r \in Requests, LookupWidget(r) PROVE LeadInv'
  BY <1>3 DEF LookupWidget, Payloads
<1>4. ASSUME NEW r \in Requests, Precheck(r) PROVE LeadInv'
  BY <1>4 DEF Precheck
<1>5. ASSUME NEW r \in Requests, Enrich(r) PROVE LeadInv'
  BY <1>5 DEF Enrich
<1>6. ASSUME NEW r \in Requests, Insert(r) PROVE LeadInv'
  BY <1>6 DEF Insert, IntegrityError, DataError, find_by_token
<1>7. ASSUME NEW r \in Requests, Refresh(r) PROVE LeadInv'
  BY <1>7 DEF Refresh
<1>8. ASSUME NEW r \in Requests, ReloadWidget(r) PROVE LeadInv'
  BY <1>8 DEF ReloadWidget
<1>9. ASSUME NEW r \in Requests, Reconcile(r) PROVE LeadInv'
  BY <1>9 DEF Reconcile
<1>10. ASSUME NEW r \in Requests, Enqueue(r) PROVE LeadInv'
  BY <1>10 DEF Enqueue
<1>11. ASSUME NEW r \in Requests, CommitJobs(r) PROVE LeadInv'
  BY <1>11 DEF CommitJobs
<1>12. ASSUME NEW r \in Requests, Respond(r) PROVE LeadInv'
  BY <1>12 DEF Respond
<1>13. ASSUME NEW r \in Requests, Reread(r) PROVE LeadInv'
  BY <1>13 DEF Reread
<1>14. ASSUME NEW r \in Requests, StatementFails(r) PROVE LeadInv'
  BY <1>14, SettingsAssumption DEF StatementFails, DbSteps
<1>15. ASSUME NEW w \in Widgets, DeleteWidget(w) PROVE LeadInv'
  BY <1>15 DEF DeleteWidget
<1>16. CASE Crash
  BY <1>16 DEF Crash
<1>17. CASE UNCHANGED vars
  BY <1>17 DEF vars
<1>18. ASSUME NEW r \in Requests, RefuseBody(r) PROVE LeadInv'
  BY <1>18 DEF RefuseBody
<1> HIDE DEF TypeInv, LeadInv
<1> QED
  BY <1>1, <1>2, <1>3, <1>4, <1>5, <1>6, <1>7, <1>8, <1>9, <1>10, <1>11,
     <1>12, <1>13, <1>14, <1>15, <1>16, <1>17, <1>18 DEF Next, Handle

-----------------------------------------------------------------------------
(* The answers.                                                            *)

\* An answer that names a row names a committed one, the request's own or
\* one of its token; a request has an answer exactly when it is done, and
\* the one that committed a row is told so or gets a server error.
AnswersNameCommitted ==
    \A r \in Requests :
        /\ pc[r] # "done" => reply[r] = NoReply
        /\ reply[r].id # NoId =>
              /\ reply[r].id \in committed
              /\ reply[r].id = r \/ SameKey(reply[r].id, r)
        /\ reply[r].status = 201 => reply[r].id = r
        /\ pc[r] = "done" /\ r \in committed => reply[r].status \in {201, 500}

\* Only the live providers name a country too long for the column.
LongNamesAreLive ==
    \A r \in Requests : geo[r] = "tooLong" => GeoLive

ReplyInv ==
    /\ AnswersNameCommitted
    /\ LongNamesAreLive
    /\ ServerErrorMeansDeleted
    /\ QueueNeverFailsLead

LEMMA InitReply == Init => ReplyInv
BY IdAssumption DEF Init, ReplyInv, AnswersNameCommitted, LongNamesAreLive,
       ServerErrorMeansDeleted, QueueNeverFailsLead, NoReply

LEMMA NextReply ==
    TypeInv /\ LeadInv /\ ReplyInv /\ [Next]_vars => ReplyInv'
<1> SUFFICES ASSUME TypeInv, LeadInv, ReplyInv, [Next]_vars PROVE ReplyInv'
  OBVIOUS
<1> USE IdAssumption DEF TypeInv, TypeOK, Started, Goto, Answer, Steps, history,
            LeadInv, RowsFollowWidgets, CommittedByInsert, LoserHasWinner,
            Stored, Validated, SameKey, ReplyInv, AnswersNameCommitted,
            LongNamesAreLive, ServerErrorMeansDeleted, QueueNeverFailsLead,
            Healthy, NoReply
<1>1. ASSUME NEW r \in Requests, Receive(r) PROVE ReplyInv'
  BY <1>1 DEF Receive
<1>2. ASSUME NEW r \in Requests, CheckLimits(r) PROVE ReplyInv'
  BY <1>2 DEF CheckLimits
<1>3. ASSUME NEW r \in Requests, LookupWidget(r) PROVE ReplyInv'
  BY <1>3 DEF LookupWidget
<1>4. ASSUME NEW r \in Requests, Precheck(r) PROVE ReplyInv'
  BY <1>4 DEF Precheck, find_by_token
<1>5. ASSUME NEW r \in Requests, Enrich(r) PROVE ReplyInv'
  BY <1>5, EnrichType DEF Enrich
<1>6. ASSUME NEW r \in Requests, Insert(r) PROVE ReplyInv'
  BY <1>6 DEF Insert, IntegrityError, DataError, find_by_token
<1>7. ASSUME NEW r \in Requests, Refresh(r) PROVE ReplyInv'
  BY <1>7 DEF Refresh
<1>8. ASSUME NEW r \in Requests, ReloadWidget(r) PROVE ReplyInv'
  BY <1>8 DEF ReloadWidget
<1>9. ASSUME NEW r \in Requests, Reconcile(r) PROVE ReplyInv'
  BY <1>9 DEF Reconcile, find_by_token
<1>10. ASSUME NEW r \in Requests, Enqueue(r) PROVE ReplyInv'
  BY <1>10 DEF Enqueue
<1>11. ASSUME NEW r \in Requests, CommitJobs(r) PROVE ReplyInv'
  BY <1>11 DEF CommitJobs
<1>12. ASSUME NEW r \in Requests, Respond(r) PROVE ReplyInv'
  BY <1>12 DEF Respond
<1>13. ASSUME NEW r \in Requests, Reread(r) PROVE ReplyInv'
  BY <1>13 DEF Reread
<1>14. ASSUME NEW r \in Requests, StatementFails(r) PROVE ReplyInv'
  BY <1>14, SettingsAssumption DEF StatementFails, DbSteps
<1>15. ASSUME NEW w \in Widgets, DeleteWidget(w) PROVE ReplyInv'
  BY <1>15 DEF DeleteWidget
<1>16. CASE Crash
  BY <1>16 DEF Crash
<1>17. CASE UNCHANGED vars
  BY <1>17 DEF vars
<1>18. ASSUME NEW r \in Requests, RefuseBody(r) PROVE ReplyInv'
  BY <1>18 DEF RefuseBody
<1> HIDE DEF TypeInv, LeadInv, ReplyInv
<1> QED
  BY <1>1, <1>2, <1>3, <1>4, <1>5, <1>6, <1>7, <1>8, <1>9, <1>10, <1>11,
     <1>12, <1>13, <1>14, <1>15, <1>16, <1>17, <1>18 DEF Next, Handle

-----------------------------------------------------------------------------
(* The jobs.                                                               *)

JobsOf(r) == {j \in jobs : j[1] = r}

\* How far the queueing of r's jobs has come, step by step.
QueueingByStep ==
    \A r \in Requests :
        /\ JobsOf(r) # {} => r \in committed /\ JobsOf(r) = desired(r)
        /\ r \in warned => r \in committed /\ JobsOf(r) = {}
        /\ pc[r] \in Steps \ {"respond", "reread"} =>
              JobsOf(r) = {} /\ r \notin warned
        /\ pc[r] = "respond" => desired(r) = {}
        /\ pc[r] = "reread" \/ reply[r].status = 201 =>
              JobsOf(r) = desired(r) \/ r \in warned
        /\ r \notin committed => JobsOf(r) = {} /\ r \notin warned

LEMMA InitJobs == Init => QueueingByStep
BY DEF Init, QueueingByStep, JobsOf, NoReply, Steps

LEMMA NextJobs ==
    TypeInv /\ LeadInv /\ ReplyInv /\ QueueingByStep /\ [Next]_vars
        => QueueingByStep'
<1> SUFFICES ASSUME TypeInv, LeadInv, ReplyInv, QueueingByStep, [Next]_vars
             PROVE  QueueingByStep'
  OBVIOUS
<1> USE DEF TypeInv, TypeOK, Started, Goto, Answer, Steps, history, LeadInv,
            CommittedByInsert, Stored, ReplyInv, AnswersNameCommitted,
            QueueingByStep, JobsOf, NoReply, desired
<1>1. ASSUME NEW r \in Requests, Receive(r) PROVE QueueingByStep'
  BY <1>1 DEF Receive
<1>2. ASSUME NEW r \in Requests, CheckLimits(r) PROVE QueueingByStep'
  BY <1>2 DEF CheckLimits
<1>3. ASSUME NEW r \in Requests, LookupWidget(r) PROVE QueueingByStep'
  BY <1>3 DEF LookupWidget
<1>4. ASSUME NEW r \in Requests, Precheck(r) PROVE QueueingByStep'
  BY <1>4 DEF Precheck
<1>5. ASSUME NEW r \in Requests, Enrich(r) PROVE QueueingByStep'
  BY <1>5 DEF Enrich
<1>6. ASSUME NEW r \in Requests, Insert(r) PROVE QueueingByStep'
  BY <1>6 DEF Insert
<1>7. ASSUME NEW r \in Requests, Refresh(r) PROVE QueueingByStep'
  BY <1>7 DEF Refresh
<1>8. ASSUME NEW r \in Requests, ReloadWidget(r) PROVE QueueingByStep'
  BY <1>8 DEF ReloadWidget
<1>9. ASSUME NEW r \in Requests, Reconcile(r) PROVE QueueingByStep'
  BY <1>9 DEF Reconcile
<1>10. ASSUME NEW r \in Requests, Enqueue(r) PROVE QueueingByStep'
  BY <1>10 DEF Enqueue
<1>11. ASSUME NEW r \in Requests, CommitJobs(r) PROVE QueueingByStep'
  BY <1>11 DEF CommitJobs
<1>12. ASSUME NEW r \in Requests, Respond(r) PROVE QueueingByStep'
  BY <1>12 DEF Respond
<1>13. ASSUME NEW r \in Requests, Reread(r) PROVE QueueingByStep'
  BY <1>13 DEF Reread
<1>14. ASSUME NEW r \in Requests, StatementFails(r) PROVE QueueingByStep'
  BY <1>14, SettingsAssumption DEF StatementFails, DbSteps
<1>15. ASSUME NEW w \in Widgets, DeleteWidget(w) PROVE QueueingByStep'
  BY <1>15 DEF DeleteWidget
<1>16. CASE Crash
  BY <1>16 DEF Crash
<1>17. CASE UNCHANGED vars
  BY <1>17 DEF vars
<1>18. ASSUME NEW r \in Requests, RefuseBody(r) PROVE QueueingByStep'
  BY <1>18 DEF RefuseBody
<1> HIDE DEF TypeInv, LeadInv, ReplyInv, QueueingByStep
<1> QED
  BY <1>1, <1>2, <1>3, <1>4, <1>5, <1>6, <1>7, <1>8, <1>9, <1>10, <1>11,
     <1>12, <1>13, <1>14, <1>15, <1>16, <1>17, <1>18 DEF Next, Handle

-----------------------------------------------------------------------------
(* The theorems.                                                           *)

IInv == TypeInv /\ LeadInv /\ ReplyInv /\ QueueingByStep

LEMMA Inductive == Spec => []IInv
<1>1. Init => IInv
  BY InitType, InitLead, InitReply, InitJobs DEF IInv
<1>2. IInv /\ [Next]_vars => IInv'
  BY NextType, NextLead, NextReply, NextJobs DEF IInv
<1> QED
  BY <1>1, <1>2, PTL DEF Spec

\* Whatever the interleaving of retries, deletions, failures and crashes, a
\* token of a widget is stored at most once.
THEOREM StoredOnce == Spec => []TokenStoredOnce
<1>1. IInv => TokenStoredOnce
  BY DEF IInv, LeadInv
<1> QED
  BY <1>1, Inductive, PTL

\* All the answers a token gets name one row, kept as long as its widget.
THEOREM Agreement == Spec => []AnswersAgree
<1>1. IInv => AnswersAgree
  <2> SUFFICES ASSUME IInv, NEW r \in Requests, reply[r].id # NoId
               PROVE  /\ reply[r].id = r \/ SameKey(reply[r].id, r)
                      /\ reply[r].id \in rows \/ req[r].widget \notin widgets
                      /\ \A q \in Requests :
                            reply[q].id # NoId /\ SameKey(q, r)
                              => reply[q].id = reply[r].id
    BY DEF AnswersAgree
  <2> DEFINE x == reply[r].id
  <2>1. /\ x \in committed
        /\ x = r \/ SameKey(x, r)
    BY DEF IInv, ReplyInv, AnswersNameCommitted
  <2>2. x \in rows \/ req[r].widget \notin widgets
    BY <2>1 DEF IInv, LeadInv, RowsFollowWidgets, SameKey
  <2>3. ASSUME NEW q \in Requests, reply[q].id # NoId, SameKey(q, r)
        PROVE  reply[q].id = x
    <3>1. reply[q].id \in committed /\ SameKey(reply[q].id, q)
      BY <2>3 DEF IInv, ReplyInv, AnswersNameCommitted, SameKey
    <3>2. SameKey(reply[q].id, x)
      BY <2>1, <2>3, <3>1 DEF SameKey
    <3> QED
      BY <2>1, <3>1, <3>2 DEF IInv, LeadInv, TokenStoredOnce
  <2> QED
    BY <2>1, <2>2, <2>3
<1> QED
  BY <1>1, Inductive, PTL

\* The jobs of a lead are queued all or none, after its commit and never for
\* a replay; a committed lead whose request was answered has them, or the
\* warning was logged, or the answer was a 500.
THEOREM JobsAfterCommit == Spec => []JobsFollowCommit
<1>1. IInv => JobsFollowCommit
  BY DEF IInv, ReplyInv, AnswersNameCommitted, QueueingByStep,
         JobsFollowCommit, JobsOf
<1> QED
  BY <1>1, Inductive, PTL

\* A request that loses the race to insert never gets a 500 while its widget
\* lives, the database works and the country fits the column.
THEOREM LoserReconciles == Spec => []ServerErrorMeansDeleted
<1>1. IInv => ServerErrorMeansDeleted
  BY DEF IInv, ReplyInv
<1> QED
  BY <1>1, Inductive, PTL

\* Failures of enqueue_after_submit do not change the answer to the lead.
THEOREM QueueIsOffTheMainPath == Spec => []QueueNeverFailsLead
<1>1. IInv => QueueNeverFailsLead
  BY DEF IInv, ReplyInv
<1> QED
  BY <1>1, Inductive, PTL

-----------------------------------------------------------------------------
(* Submissions implements LeadCapture: the insert is Capture, an answer is *)
(* Confirm, Repeat or Refuse, the rest of the handler stutters.            *)

\* A step inside the handler does not change the phase.
LEMMA InnerStep ==
    ASSUME TypeOK, NEW r \in Requests, NEW step \in Steps,
           pc[r] \in Steps, Goto(r, step)
    PROVE  Phase' = Phase
BY DEF TypeOK, Goto, Phase

\* An answer given by the handler is an answer of the abstract specification.
LEMMA AnswerStep ==
    ASSUME TypeOK, NEW r \in Requests, NEW s, NEW i,
           pc[r] \in Steps, Answer(r, s, i),
           UNCHANGED <<widgets, rows, committed, req>>
    PROVE  LC!Answer(r, s, i)
<1>1. Phase[r] = "asked"
  BY DEF Phase
<1>2. Phase' = [Phase EXCEPT ![r] = "done"]
  BY DEF TypeOK, Answer, Goto, Phase, Steps
<1> QED
  BY <1>1, <1>2 DEF Answer, LC!Answer

LEMMA InitImplements == Init => LC!Init
BY DEF Init, LC!Init, Phase, NoReply, LC!NoAnswer, Steps

LEMMA NextImplements == IInv /\ [Next]_vars => [LC!Next]_(LC!vars)
<1> SUFFICES ASSUME IInv, [Next]_vars PROVE [LC!Next]_(LC!vars)
  OBVIOUS
<1> USE DEF history
<1> DEFINE Goal == LC!Next \/ UNCHANGED LC!vars
<1>t. TypeOK
  BY DEF IInv, TypeInv
<1>1. ASSUME NEW r \in Requests, Receive(r) PROVE Goal
  <2>1. LC!Ask(r)
    BY <1>1, <1>t DEF Receive, Goto, LC!Ask, Phase, Steps, TypeOK, Payloads,
                      LC!Payloads
  <2> QED
    BY <2>1 DEF LC!Next
<1>2. ASSUME NEW r \in Requests, CheckLimits(r) PROVE Goal
  <2>1. CASE Goto(r, "widget") /\ UNCHANGED reply
    BY <1>2, <1>t, <2>1, InnerStep DEF CheckLimits, LC!vars, Steps
  <2>2. CASE Answer(r, 429, NoId)
    <3>1. r \notin committed /\ req[r].data # "malformed"
      BY <1>2 DEF CheckLimits, IInv, LeadInv, CommittedByInsert, Stored
    <3>2. LC!Answer(r, 429, NoId)
      BY <1>2, <1>t, <2>2, AnswerStep DEF CheckLimits, Steps
    <3> QED
      BY <3>1, <3>2 DEF LC!Next, LC!Reply, LC!Refuse, LC!Answer
  <2> QED
    BY <1>2, <2>1, <2>2 DEF CheckLimits
<1>3. ASSUME NEW r \in Requests, LookupWidget(r) PROVE Goal
  <2>1. r \notin committed /\ req[r].data # "malformed"
    BY <1>3 DEF LookupWidget, IInv, LeadInv, CommittedByInsert, Stored
  <2>2. ASSUME NEW s, Answer(r, s, NoId) PROVE LC!Answer(r, s, NoId)
    BY <1>3, <1>t, <2>2, AnswerStep DEF LookupWidget, Steps
  <2>3. CASE req[r].widget \notin widgets /\ Answer(r, 404, NoId)
    BY <2>1, <2>2, <2>3 DEF LC!Next, LC!Reply, LC!Refuse, LC!Answer
  <2>4. CASE req[r].data = "spam" /\ Answer(r, 200, NoId)
    BY <2>1, <2>2, <2>4 DEF LC!Next, LC!Reply, LC!Refuse, LC!Answer
  <2>5. CASE req[r].data = "invalid" /\ Answer(r, 422, NoId)
    BY <2>2, <2>5 DEF LC!Next, LC!Reply, LC!Refuse, LC!Answer
  <2>6. CASE /\ UNCHANGED reply
             /\ Goto(r, IF req[r].token = NoToken THEN "enrich"
                                                  ELSE "precheck")
    BY <1>3, <1>t, <2>6, InnerStep DEF LookupWidget, LC!vars, Steps
  <2> QED
    BY <1>3, <2>3, <2>4, <2>5, <2>6 DEF LookupWidget
\* Both lookups by token answer with the row they find.
<1>4. ASSUME NEW r \in Requests, NEW x \in find_by_token(r),
             pc[r] \in {"precheck", "reconcile"}, Answer(r, 200, x),
             UNCHANGED <<widgets, rows, committed, req>>
      PROVE  Goal
  <2>1. r \notin committed /\ req[r].data \in {"email", "plain"}
    BY <1>4 DEF IInv, LeadInv, CommittedByInsert, Stored, Validated, Steps
  <2>2. LC!Answer(r, 200, x)
    BY <1>4, <1>t, AnswerStep DEF Steps
  <2>3. x \in rows /\ LC!SameKey(x, r)
    BY <1>4 DEF find_by_token, SameKey, LC!SameKey
  <2>4. LC!Repeat(r)
    BY <2>1, <2>2, <2>3 DEF LC!Repeat, LC!Answer
  <2> QED
    BY <2>4 DEF LC!Next, LC!Reply
\* A server error may follow any step but the first.
<1>5. ASSUME NEW r \in Requests, pc[r] \in Steps \ {"body"},
             Answer(r, 500, NoId),
             UNCHANGED <<widgets, rows, committed, req>>
      PROVE  Goal
  <2>1. LC!Answer(r, 500, NoId)
    BY <1>5, <1>t, AnswerStep
  <2>2. req[r].data # "malformed"
    BY <1>5 DEF IInv, LeadInv, CommittedByInsert, Validated
  <2> QED
    BY <2>1, <2>2 DEF LC!Next, LC!Reply, LC!Refuse, LC!Answer
<1>6. ASSUME NEW r \in Requests, pc[r] \in Stored, Answer(r, 201, r),
             UNCHANGED <<widgets, rows, committed, req>>
      PROVE  Goal
  <2>1. r \in committed
    BY <1>6 DEF IInv, LeadInv, CommittedByInsert
  <2>2. LC!Answer(r, 201, r)
    BY <1>6, <1>t, AnswerStep DEF Stored, Steps
  <2> QED
    BY <2>1, <2>2 DEF LC!Next, LC!Reply, LC!Confirm
<1>7. ASSUME NEW r \in Requests, NEW step \in Steps, pc[r] \in Steps,
             Goto(r, step),
             UNCHANGED <<widgets, rows, committed, req, reply>>
      PROVE  Goal
  BY <1>7, <1>t, InnerStep DEF LC!vars
<1>8. ASSUME NEW r \in Requests, Precheck(r) PROVE Goal
  BY <1>4, <1>7, <1>8 DEF Precheck, Steps
<1>9. ASSUME NEW r \in Requests, Enrich(r) PROVE Goal
  BY <1>7, <1>9 DEF Enrich, Steps
<1>10. ASSUME NEW r \in Requests, Insert(r) PROVE Goal
  <2>1. CASE Answer(r, 500, NoId) /\ UNCHANGED <<rows, committed>>
    BY <1>5, <1>10, <2>1 DEF Insert, Steps
  <2>2. CASE Goto(r, "reload") /\ UNCHANGED <<rows, committed, reply>>
    BY <1>7, <1>10, <2>2 DEF Insert, Steps
  <2>3. CASE /\ ~IntegrityError(r)
             /\ rows' = rows \union {r}
             /\ committed' = committed \union {r}
             /\ Goto(r, "refresh")
             /\ UNCHANGED reply
    <3>1. Phase' = Phase /\ Phase[r] = "asked"
      BY <1>10, <1>t, <2>3, InnerStep DEF Insert, Steps, Phase
    <3>2. req[r].data \in {"email", "plain"} /\ r \notin committed
      BY <1>10 DEF Insert, IInv, LeadInv, CommittedByInsert, Stored,
                   Validated, Steps
    <3>3. req[r].widget \in widgets
      BY <2>3 DEF IntegrityError
    <3>4. \A x \in committed : ~LC!SameKey(x, r)
      BY <2>3, <3>3 DEF IntegrityError, find_by_token, SameKey, LC!SameKey,
                        IInv, LeadInv, RowsFollowWidgets
    <3>5. LC!Capture(r)
      BY <1>10, <2>3, <3>1, <3>2, <3>3, <3>4 DEF LC!Capture, Insert
    <3> QED
      BY <3>5 DEF LC!Next
  <2> QED
    BY <1>10, <2>1, <2>2, <2>3 DEF Insert
<1>11. ASSUME NEW r \in Requests, Refresh(r) PROVE Goal
  BY <1>5, <1>7, <1>11 DEF Refresh, Steps
<1>12. ASSUME NEW r \in Requests, ReloadWidget(r) PROVE Goal
  BY <1>5, <1>7, <1>12 DEF ReloadWidget, Steps
<1>13. ASSUME NEW r \in Requests, Reconcile(r) PROVE Goal
  BY <1>4, <1>5, <1>13 DEF Reconcile, Steps
<1>14. ASSUME NEW r \in Requests, Enqueue(r) PROVE Goal
  BY <1>7, <1>14 DEF Enqueue, Steps
<1>15. ASSUME NEW r \in Requests, CommitJobs(r) PROVE Goal
  BY <1>7, <1>15 DEF CommitJobs, Steps
<1>16. ASSUME NEW r \in Requests, Respond(r) PROVE Goal
  BY <1>6, <1>16 DEF Respond, Stored
<1>17. ASSUME NEW r \in Requests, Reread(r) PROVE Goal
  BY <1>5, <1>6, <1>17 DEF Reread, Stored, Steps
<1>18. ASSUME NEW r \in Requests, StatementFails(r) PROVE Goal
  BY <1>5, <1>7, <1>18, SettingsAssumption DEF StatementFails, DbSteps, Steps
<1>19. ASSUME NEW w \in Widgets, DeleteWidget(w) PROVE Goal
  <2>1. LC!Retire(w)
    BY <1>19 DEF DeleteWidget, LC!Retire, Phase
  <2> QED
    BY <2>1 DEF LC!Next
<1>20. CASE Crash
  <2>1. LC!Lose
    BY <1>20, <1>t DEF Crash, LC!Lose, Phase, Steps, TypeOK
  <2> QED
    BY <2>1 DEF LC!Next
<1>21. CASE UNCHANGED vars
  BY <1>21 DEF vars, LC!vars, Phase
<1>22. ASSUME NEW r \in Requests, RefuseBody(r) PROVE Goal
  <2>1. req[r].data = "malformed"
    BY <1>22 DEF RefuseBody, IInv, LeadInv, CommittedByInsert
  <2>2. LC!Answer(r, 422, NoId)
    BY <1>22, <1>t, AnswerStep DEF RefuseBody, Steps
  <2> QED
    BY <2>1, <2>2 DEF LC!Next, LC!Reply, LC!Refuse, LC!Answer
<1> QED
  BY <1>1, <1>2, <1>3, <1>8, <1>9, <1>10, <1>11, <1>12, <1>13, <1>14,
     <1>15, <1>16, <1>17, <1>18, <1>19, <1>20, <1>21, <1>22
  DEF Next, Handle

\* Step for step the handler does what LeadCapture promises: it captures a
\* lead only for valid data, a live widget and a fresh token, and answers only
\* what is true of the leads.
THEOREM Implements == Spec => LC!Init /\ [][LC!Next]_(LC!vars)
<1>1. IInv /\ [Next]_vars => [LC!Next]_(LC!vars)
  BY NextImplements
<1> QED
  BY <1>1, InitImplements, Inductive, PTL DEF Spec

=============================================================================
