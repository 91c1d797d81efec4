--------------------------- MODULE JobQueueProofs ---------------------------
(***************************************************************************)
(* Theorems about the job queue: what a job's status means for any number  *)
(* of workers, and what holds besides when there is only one.              *)
(***************************************************************************)
EXTENDS JobQueue, FiniteSetTheorems, TLAPS

\* A worker past the SELECT holds a job.
Holding == \A w \in Workers : wpc[w] # "idle" => job[w] \in Jobs

TypeInv == TypeOK /\ Holding

LEMMA BackoffType == ASSUME NEW n \in Nat PROVE backoff(n + 1) \in Nat
<1>1. IsFiniteSet(1..n) /\ Cardinality(1..n) = n
  BY FS_Interval
<1>2. 2 ^ n = Cardinality(SUBSET (1..n)) /\ IsFiniteSet(SUBSET (1..n))
  BY <1>1, FS_SUBSET
<1>3. 2 ^ n \in Nat
  BY <1>2, FS_CardinalityType
<1>4. (n + 1) - 1 = n
  OBVIOUS
<1> QED
  BY <1>3, <1>4 DEF backoff

LEMMA CreatedType == Cardinality({i \in Jobs : status[i] # "none"}) \in Nat
BY FiniteAssumption, FS_Subset, FS_CardinalityType

LEMMA InitType == Init => TypeInv
BY BoundAssumption DEF Init, TypeInv, TypeOK, Holding, Statuses

LEMMA NextType == TypeInv /\ [Next]_vars => TypeInv'
<1> SUFFICES ASSUME TypeInv, [Next]_vars PROVE TypeInv'
  OBVIOUS
<1> USE DEF TypeInv, TypeOK, Holding, rowVars, history, faults
<1>1. ASSUME NEW i \in Jobs, NEW j \in Jobs, Enqueue({i, j}) PROVE TypeInv'
  BY <1>1, CreatedType DEF Enqueue, Statuses
<1>2. ASSUME NEW w \in Workers, Select(w) PROVE TypeInv'
  BY <1>2 DEF Select
<1>3. ASSUME NEW w \in Workers, Claim(w) PROVE TypeInv'
  BY <1>3 DEF Claim, Statuses
<1>4. ASSUME NEW w \in Workers, Load(w) PROVE TypeInv'
  BY <1>4 DEF Load
<1>5. ASSUME NEW w \in Workers, Send(w) PROVE TypeInv'
  BY <1>5 DEF Send
<1>6. ASSUME NEW w \in Workers, Settle(w) PROVE TypeInv'
  <2>1. backoff(snap[w].attempts + 1) \in Nat
    BY <1>6, BackoffType
  <2> QED
    BY <1>6, <2>1 DEF Settle, PrintAlert, Release, Outcome, Statuses
<1>7. ASSUME NEW w \in Workers, SettleFails(w) PROVE TypeInv'
  BY <1>7, BoundAssumption DEF SettleFails, PrintAlert, Release
<1>8. ASSUME NEW w \in Workers, Crash(w) PROVE TypeInv'
  BY <1>8, BoundAssumption DEF Crash, Release
<1>9. CASE Tick
  BY <1>9 DEF Tick
<1>10. CASE UNCHANGED vars
  BY <1>10 DEF vars
<1> HIDE DEF TypeInv
<1> QED
  BY <1>1, <1>2, <1>3, <1>4, <1>5, <1>6, <1>7, <1>8, <1>9, <1>10
     DEF Next, Work

\* Rows, workers and counters keep their types.
THEOREM TypeCorrect == Spec => []TypeOK
<1>1. Spec => []TypeInv
  BY InitType, NextType, PTL DEF Spec
<1> QED
  BY <1>1, PTL DEF TypeInv

-----------------------------------------------------------------------------
(* What done and failed mean, for any number of workers.                   *)

\* What a worker knows of its job once it has loaded it, whatever the other
\* workers do to the row.
OutcomeInv ==
    /\ DoneMeansSent
    /\ FailedMeansAlerted
    /\ \A j \in Jobs : attempts[j] <= raised[j]
    /\ \A w \in Workers :
          /\ wpc[w] \in {"loaded", "sent", "raised"} =>
                snap[w].attempts <= raised[job[w]]
          /\ wpc[w] = "sent" => sent[job[w]] > 0
          /\ wpc[w] = "raised" => snap[w].attempts + 1 <= raised[job[w]]

LEMMA NextOutcome == TypeInv /\ OutcomeInv /\ [Next]_vars => OutcomeInv'
<1> SUFFICES ASSUME TypeInv, OutcomeInv, [Next]_vars PROVE OutcomeInv'
  OBVIOUS
<1> USE BoundAssumption DEF TypeInv, TypeOK, Holding, rowVars, history,
            faults, Statuses, OutcomeInv, DoneMeansSent, FailedMeansAlerted
<1>1. ASSUME NEW i \in Jobs, NEW j \in Jobs, Enqueue({i, j}) PROVE OutcomeInv'
  BY <1>1 DEF Enqueue
<1>2. ASSUME NEW w \in Workers, Select(w) PROVE OutcomeInv'
  BY <1>2 DEF Select, Due
<1>3. ASSUME NEW w \in Workers, Claim(w) PROVE OutcomeInv'
  BY <1>3 DEF Claim
<1>4. ASSUME NEW w \in Workers, Load(w) PROVE OutcomeInv'
  BY <1>4 DEF Load
<1>5. ASSUME NEW w \in Workers, Send(w) PROVE OutcomeInv'
  BY <1>5 DEF Send
<1>6. ASSUME NEW w \in Workers, Settle(w) PROVE OutcomeInv'
  BY <1>6 DEF Settle, PrintAlert, Release, Outcome, Exhausted
<1>7. ASSUME NEW w \in Workers, SettleFails(w) PROVE OutcomeInv'
  BY <1>7 DEF SettleFails, PrintAlert, Release, Outcome, Exhausted
<1>8. ASSUME NEW w \in Workers, Crash(w) PROVE OutcomeInv'
  BY <1>8 DEF Crash, Release
<1>9. CASE Tick
  BY <1>9 DEF Tick
<1>10. CASE UNCHANGED vars
  BY <1>10 DEF vars
<1> HIDE DEF TypeInv, OutcomeInv
<1> QED
  BY <1>1, <1>2, <1>3, <1>4, <1>5, <1>6, <1>7, <1>8, <1>9, <1>10
     DEF Next, Work

LEMMA Outcomes == Spec => [](TypeInv /\ OutcomeInv)
<1>1. Init => TypeInv /\ OutcomeInv
  BY InitType DEF Init, OutcomeInv, DoneMeansSent, FailedMeansAlerted
<1>2. TypeInv /\ OutcomeInv /\ [Next]_vars => (TypeInv /\ OutcomeInv)'
  BY NextType, NextOutcome
<1> QED
  BY <1>1, <1>2, PTL DEF Spec

\* Done means delivered, even with workers that overwrite each other's rows.
THEOREM DoneIsSent == Spec => []DoneMeansSent
<1>1. OutcomeInv => DoneMeansSent
  BY DEF OutcomeInv
<1> QED
  BY <1>1, Outcomes, PTL

\* Failed means that every attempt was made and raised, and the alert given.
THEOREM FailedIsAlerted == Spec => []FailedMeansAlerted
<1>1. OutcomeInv => FailedMeansAlerted
  BY DEF OutcomeInv
<1> QED
  BY <1>1, Outcomes, PTL

-----------------------------------------------------------------------------
(* A single worker.                                                        *)

\* The three counts of a job, by its status.
CountsByStatus ==
    \A j \in Jobs :
        /\ status[j] \in {"none", "pending"} =>
              /\ attempts[j] < MaxAttempts
              /\ sent[j] <= attempts[j]
              /\ raised[j] = attempts[j]
        /\ status[j] = "processing" =>
              /\ attempts[j] < MaxAttempts
              /\ sent[j] <= attempts[j] + 1
              /\ raised[j] \in {attempts[j], attempts[j] + 1}
        /\ status[j] = "done" =>
              /\ attempts[j] < MaxAttempts
              /\ sent[j] <= attempts[j] + 1
              /\ raised[j] = attempts[j]
        /\ status[j] = "failed" =>
              /\ attempts[j] = MaxAttempts
              /\ sent[j] <= attempts[j]
              /\ raised[j] = attempts[j]

\* What the row of its job holds while the worker works on it: nobody else
\* writes it.
RowIsHeld ==
    \A w \in Workers :
        /\ wpc[w] = "selected" => status[job[w]] = "pending" /\ wait[job[w]] = 0
        /\ wpc[w] \in {"claimed", "loaded", "sent", "raised"} =>
              status[job[w]] = "processing"
        /\ wpc[w] \in {"loaded", "sent", "raised"} =>
              snap[w] = [status |-> "processing", attempts |-> attempts[job[w]]]
        /\ wpc[w] \in {"claimed", "loaded"} => sent[job[w]] <= attempts[job[w]]
        /\ wpc[w] \in {"claimed", "loaded", "sent"} =>
              raised[job[w]] = attempts[job[w]]
        /\ wpc[w] = "raised" => raised[job[w]] = attempts[job[w]] + 1

SoleInv == CountsByStatus /\ RowIsHeld

LEMMA NextSole ==
    ASSUME NEW k, Workers = {k}
    PROVE  TypeInv /\ SoleInv /\ [Next]_vars => SoleInv'
<1> SUFFICES ASSUME TypeInv, SoleInv, [Next]_vars PROVE SoleInv'
  OBVIOUS
<1> USE BoundAssumption DEF TypeInv, TypeOK, Holding, rowVars, history,
            faults, Statuses, SoleInv, CountsByStatus, RowIsHeld
<1>1. ASSUME NEW i \in Jobs, NEW j \in Jobs, Enqueue({i, j}) PROVE SoleInv'
  BY <1>1 DEF Enqueue
<1>2. ASSUME NEW w \in Workers, Select(w) PROVE SoleInv'
  BY <1>2 DEF Select, Due
<1>3. ASSUME NEW w \in Workers, Claim(w) PROVE SoleInv'
  BY <1>3 DEF Claim
<1>4. ASSUME NEW w \in Workers, Load(w) PROVE SoleInv'
  BY <1>4 DEF Load
<1>5. ASSUME NEW w \in Workers, Send(w) PROVE SoleInv'
  BY <1>5 DEF Send
<1>6. ASSUME NEW w \in Workers, Settle(w) PROVE SoleInv'
  <2> PICK j \in Jobs : job[w] = j
    BY <1>6 DEF Settle
  <2>1. /\ status[j] = "processing"
        /\ snap[w] = [status |-> "processing", attempts |-> attempts[j]]
        /\ attempts[j] < MaxAttempts /\ sent[j] <= attempts[j] + 1
        /\ wpc[w] = "sent" => raised[j] = attempts[j]
        /\ wpc[w] = "raised" => raised[j] = attempts[j] + 1
    BY <1>6 DEF Settle
  <2>2. /\ \A i \in Jobs : i # j => status'[i] = status[i]
                                  /\ attempts'[i] = attempts[i]
        /\ UNCHANGED <<sent, raised>>
        /\ wpc'[w] = "idle"
    BY <1>6 DEF Settle, Release
  <2>3. Workers = {w}
    OBVIOUS
  <2>4. RowIsHeld'
    BY <2>2, <2>3
  <2>5. \/ status'[j] = "done" /\ attempts'[j] = attempts[j] /\ wpc[w] = "sent"
        \/ status'[j] = "failed" /\ attempts'[j] = attempts[j] + 1
             /\ wpc[w] = "raised" /\ attempts[j] + 1 = MaxAttempts
        \/ status'[j] = "pending" /\ attempts'[j] = attempts[j] + 1
             /\ wpc[w] = "raised" /\ attempts[j] + 1 < MaxAttempts
    <3>1. CASE wpc[w] = "sent"
      BY <1>6, <2>1, <3>1 DEF Settle, Outcome
    <3>2. CASE wpc[w] = "raised" /\ Exhausted(w)
      BY <1>6, <2>1, <3>2 DEF Settle, Outcome, Exhausted
    <3>3. CASE wpc[w] = "raised" /\ ~Exhausted(w)
      BY <1>6, <2>1, <3>3 DEF Settle, Outcome, Exhausted
    <3> QED
      BY <1>6, <3>1, <3>2, <3>3 DEF Settle
  <2>6. CountsByStatus'
    BY <2>1, <2>2, <2>5
  <2> QED
    BY <2>4, <2>6
<1>7. ASSUME NEW w \in Workers, SettleFails(w) PROVE SoleInv'
  BY <1>7 DEF SettleFails, PrintAlert, Release, Outcome, Exhausted
<1>8. ASSUME NEW w \in Workers, Crash(w) PROVE SoleInv'
  BY <1>8 DEF Crash, Release
<1>9. CASE Tick
  BY <1>9 DEF Tick
<1>10. CASE UNCHANGED vars
  BY <1>10 DEF vars
<1> HIDE DEF TypeInv, SoleInv
<1> QED
  BY <1>1, <1>2, <1>3, <1>4, <1>5, <1>6, <1>7, <1>8, <1>9, <1>10
     DEF Next, Work

LEMMA Sole ==
    ASSUME NEW k, Workers = {k}
    PROVE  Spec => [](TypeInv /\ SoleInv)
<1>1. Init => TypeInv /\ SoleInv
  BY InitType, BoundAssumption DEF Init, SoleInv, CountsByStatus, RowIsHeld
<1>2. TypeInv /\ SoleInv /\ [Next]_vars => (TypeInv /\ SoleInv)'
  BY NextType, NextSole
<1> QED
  BY <1>1, <1>2, PTL DEF Spec

\* One worker never sends a job more often than max_attempts, however often
\* it crashes, fails to commit, or sees a delivered job raise.
THEOREM OneWorkerSends ==
    ASSUME NEW k, Workers = {k}
    PROVE  Spec => []SendsBounded
<1>1. TypeInv /\ SoleInv => SendsBounded
  BY BoundAssumption DEF TypeInv, TypeOK, Statuses, SoleInv, CountsByStatus,
                         SendsBounded
<1> QED
  BY <1>1, Sole, PTL

\* With one worker the attempts column is the number of runs that raised.
THEOREM OneWorkerCounts ==
    ASSUME NEW k, Workers = {k}
    PROVE  Spec => []AttemptsCountRaises
<1>1. TypeInv /\ SoleInv => AttemptsCountRaises
  BY DEF TypeInv, TypeOK, Statuses, SoleInv, CountsByStatus,
         AttemptsCountRaises
<1> QED
  BY <1>1, Sole, PTL

\* With one worker what is done or failed stays so.
THEOREM OneWorkerSettles ==
    ASSUME NEW k, Workers = {k}
    PROVE  Spec => SettledIsFinal
<1>1. TypeInv /\ SoleInv /\ [Next]_vars =>
        \A j \in Jobs : status[j] \in {"done", "failed"}
                          => status'[j] = status[j]
  <2> SUFFICES ASSUME TypeInv, SoleInv, [Next]_vars, NEW j \in Jobs,
                      status[j] \in {"done", "failed"}
               PROVE  status'[j] = status[j]
    OBVIOUS
  <2> USE DEF TypeInv, TypeOK, Holding, rowVars, SoleInv, RowIsHeld
  <2>1. CASE UNCHANGED status
    BY <2>1
  <2>2. ASSUME NEW h \in Jobs, NEW i \in Jobs, Enqueue({h, i})
        PROVE  status'[j] = status[j]
    BY <2>2 DEF Enqueue
  <2>3. ASSUME NEW w \in Workers, Claim(w) PROVE status'[j] = status[j]
    BY <2>3 DEF Claim
  <2>4. ASSUME NEW w \in Workers, Settle(w) PROVE status'[j] = status[j]
    BY <2>4 DEF Settle
  <2> QED
    BY <2>1, <2>2, <2>3, <2>4 DEF Next, Work, Select, Load, Send,
       SettleFails, Crash, Tick, vars
<1> QED
  BY <1>1, Sole, PTL DEF Spec, SettledIsFinal

-----------------------------------------------------------------------------
(* One worker implements the life of a job.                                *)

\* The abstract step that takes one job to stage s and no other anywhere.
LEMMA EnterStep ==
    ASSUME NEW j \in Jobs, NEW s, Stage(j)' = s,
           \A i \in Jobs : i # j => Stage(i)' = Stage(i)
    PROVE  Life!Enter(j, s)
BY DEF Life!Enter

\* No job moves.
LEMMA SameStages ==
    ASSUME \A i \in Jobs : Stage(i)' = Stage(i)
    PROVE  UNCHANGED [i \in Jobs |-> Stage(i)]
OBVIOUS

\* A job is in a run only in the hands of the worker, past its claim.
LEMMA OnlyOneInRun ==
    ASSUME NEW k, Workers = {k}, TypeInv, SoleInv, NEW i \in Jobs
    PROVE  Stage(i) \in Life!InRun
             => job[k] = i /\ wpc[k] \in {"claimed", "loaded", "sent", "raised"}
BY DEF TypeInv, TypeOK, Statuses, Stage, HeldAt, Life!InRun

LEMMA InitLife ==
    ASSUME NEW k, Workers = {k}
    PROVE  Init => Life!Init
BY DEF Init, Life!Init, Stage

LEMMA NextLife ==
    ASSUME NEW k, Workers = {k}
    PROVE  TypeInv /\ SoleInv /\ [Next]_vars => [Life!Next]_(Life!vars)
<1> SUFFICES ASSUME TypeInv, SoleInv, [Next]_vars
             PROVE  [Life!Next]_(Life!vars)
  OBVIOUS
<1> DEFINE Goal == Life!Next \/ UNCHANGED Life!vars
<1> USE DEF TypeInv, TypeOK, Holding, rowVars, history, faults, Statuses
<1>1. ASSUME NEW h \in Jobs, NEW i \in Jobs, Enqueue({h, i}) PROVE Goal
  <2>1. \A j \in {h, i} : Stage(j) = "none" /\ Stage(j)' = "queued"
    BY <1>1 DEF Enqueue, Stage
  <2>2. \A j \in Jobs : j \notin {h, i} => Stage(j)' = Stage(j)
    BY <1>1 DEF Enqueue, Stage, HeldAt
  <2>3. Life!Queue
    <3>1. [j \in Jobs |-> Stage(j)]' =
            [j \in Jobs |-> IF j \in {h, i} THEN "queued"
                             ELSE [l \in Jobs |-> Stage(l)][j]]
      BY <2>1, <2>2
    <3>2. \A j \in {h, i} : [l \in Jobs |-> Stage(l)][j] = "none"
      BY <2>1
    <3>3. {h, i} \in SUBSET Jobs /\ {h, i} # {}
      OBVIOUS
    <3>4. UNCHANGED <<attempts, wait, sent, alerts>>
      BY <1>1 DEF Enqueue
    <3> QED
      BY <3>1, <3>2, <3>3, <3>4 DEF Life!Queue
  <2> QED
    BY <2>3 DEF Life!Next
\* The SELECT changes no row.
<1>2. ASSUME NEW w \in Workers, Select(w) PROVE Goal
  <2>1. \A j \in Jobs : Stage(j)' = Stage(j)
    BY <1>2 DEF Select, Stage, HeldAt
  <2> QED
    BY <1>2, <2>1, SameStages DEF Select, Life!vars
\* The claim starts the run: nobody has touched the row since the SELECT.
<1>3. ASSUME NEW w \in Workers, Claim(w) PROVE Goal
  <2> PICK j \in Jobs : job[w] = j
    BY <1>3 DEF Claim
  <2>1. Stage(j) = "queued" /\ wait[j] = 0
    BY <1>3 DEF Claim, SoleInv, RowIsHeld, Stage
  <2>2. Stage(j)' = "running"
    BY <1>3 DEF Claim, Stage, HeldAt
  <2>3. \A i \in Jobs : i # j => Stage(i)' = Stage(i)
    BY <1>3 DEF Claim, Stage, HeldAt
  <2>4. \A i \in Jobs : Stage(i) \notin Life!InRun
    BY <1>3, OnlyOneInRun DEF Claim
  <2>5. Life!Run(j)
    BY <1>3, <2>1, <2>2, <2>3, <2>4, EnterStep DEF Claim, Life!Run
  <2> QED
    BY <2>5 DEF Life!Next, Life!Live
<1>4. ASSUME NEW w \in Workers, Load(w) PROVE Goal
  <2>1. \A j \in Jobs : Stage(j)' = Stage(j)
    BY <1>4 DEF Load, Stage, HeldAt
  <2> QED
    BY <1>4, <2>1, SameStages DEF Load, Life!vars
<1>5. ASSUME NEW w \in Workers, Send(w) PROVE Goal
  <2> PICK j \in Jobs : job[w] = j
    BY <1>5 DEF Send
  <2>1. Stage(j) = "running"
    BY <1>5 DEF Send, SoleInv, RowIsHeld, Stage, HeldAt
  <2>2. \A i \in Jobs : i # j => Stage(i)' = Stage(i)
    BY <1>5 DEF Send, Stage, HeldAt
  <2>3. PICK delivered \in BOOLEAN, raises \in BOOLEAN :
          /\ delivered \/ raises
          /\ sent' = [sent EXCEPT ![j] = IF delivered THEN @ + 1 ELSE @]
          /\ wpc' = [wpc EXCEPT ![w] = IF raises THEN "raised" ELSE "sent"]
    BY <1>5 DEF Send
  <2>4. Stage(j)' = IF raises THEN "raised" ELSE "delivered"
    BY <1>5, <2>3 DEF Send, SoleInv, RowIsHeld, Stage, HeldAt
  <2>5. Life!Enter(j, IF raises THEN "raised" ELSE "delivered")
    BY <2>2, <2>4, EnterStep
  <2>6. ~delivered => UNCHANGED sent
    BY <2>3
  <2>7. Life!Try(j)
    BY <1>5, <2>1, <2>3, <2>5, <2>6 DEF Send, Life!Try
  <2> QED
    BY <2>7 DEF Life!Next, Life!Live
\* The commit of the outcome writes the row as loaded, which is the row.
<1>6. ASSUME NEW w \in Workers, Settle(w) PROVE Goal
  <2> PICK j \in Jobs : job[w] = j
    BY <1>6 DEF Settle
  <2>1. \A i \in Jobs : i # j => Stage(i)' = Stage(i)
    BY <1>6 DEF Settle, Release, Stage, HeldAt
  <2>2. /\ status[j] = "processing"
        /\ snap[w] = [status |-> "processing", attempts |-> attempts[j]]
        /\ attempts[j] < MaxAttempts
    BY <1>6 DEF Settle, SoleInv, RowIsHeld, CountsByStatus
  <2>3. status' = [status EXCEPT ![j] = Outcome(w)]
    BY <1>6, <2>2 DEF Settle, Outcome
  <2>4. CASE wpc[w] = "sent"
    <3>1. Outcome(w) = "done"
      BY <2>4 DEF Outcome
    <3>2. Stage(j) = "delivered" /\ Stage(j)' = "done"
      BY <2>2, <2>3, <2>4, <3>1 DEF Stage, HeldAt
    <3>3. UNCHANGED <<attempts, wait, sent, alerts>>
      BY <1>6, <2>4, <3>1 DEF Settle, PrintAlert
    <3>4. Life!Complete(j)
      BY <2>1, <3>2, <3>3, EnterStep DEF Life!Complete
    <3> QED
      BY <3>4 DEF Life!Next, Life!Live
  <2>5. CASE wpc[w] = "raised" /\ ~Exhausted(w)
    <3>1. Outcome(w) = "pending"
      BY <2>5 DEF Outcome
    <3>2. Stage(j) = "raised" /\ Stage(j)' = "queued"
      BY <2>2, <2>3, <2>5, <3>1 DEF Stage, HeldAt
    <3>3. attempts[j] + 1 < MaxAttempts
      BY <2>2, <2>5, BoundAssumption DEF Exhausted
    <3>4. backoff(attempts[j] + 1) = 2 ^ attempts[j]
      BY DEF backoff
    <3>5. attempts' = [attempts EXCEPT ![j] = @ + 1]
      BY <1>6, <2>2, <2>5 DEF Settle
    <3>6. wait' = [wait EXCEPT ![j] = 2 ^ attempts[j]]
      <4>1. wait' = [wait EXCEPT ![j] = backoff(snap[w].attempts + 1)]
        BY <1>6, <3>1 DEF Settle
      <4>2. snap[w].attempts = attempts[j]
        BY <2>2
      <4> QED
        BY <3>4, <4>1, <4>2
    <3>7. UNCHANGED <<sent, alerts>>
      BY <1>6, <3>1 DEF Settle, PrintAlert
    <3>8. Life!Retry(j)
      BY <2>1, <3>2, <3>3, <3>5, <3>6, <3>7, EnterStep DEF Life!Retry
    <3> QED
      BY <3>8 DEF Life!Next, Life!Live
  <2>6. CASE wpc[w] = "raised" /\ Exhausted(w)
    <3>1. Outcome(w) = "failed"
      BY <2>6 DEF Outcome
    <3>2. Stage(j) = "raised" /\ Stage(j)' = "failed"
      BY <2>2, <2>3, <2>6, <3>1 DEF Stage, HeldAt
    <3>3. attempts[j] + 1 = MaxAttempts
      BY <2>2, <2>6, BoundAssumption DEF Exhausted
    <3>4. attempts' = [attempts EXCEPT ![j] = MaxAttempts]
      <4>1. attempts' = [attempts EXCEPT ![j] = snap[w].attempts + 1]
        BY <1>6, <2>6 DEF Settle
      <4>2. snap[w].attempts = attempts[j]
        BY <2>2
      <4> QED
        BY <3>3, <4>1, <4>2
    <3>5. alerts' = [alerts EXCEPT ![j] = @ + 1]
      BY <1>6, <3>1 DEF Settle, PrintAlert
    <3>6. UNCHANGED <<wait, sent>>
      BY <1>6, <3>1 DEF Settle
    <3>7. Life!Fail(j)
      BY <2>1, <3>2, <3>3, <3>4, <3>5, <3>6, EnterStep DEF Life!Fail
    <3> QED
      BY <3>7 DEF Life!Next, Life!Live
  <2> QED
    BY <1>6, <2>4, <2>5, <2>6 DEF Settle
\* A commit that fails leaves the job behind, with its ALERT if that was out.
<1>7. ASSUME NEW w \in Workers, SettleFails(w) PROVE Goal
  <2> PICK j \in Jobs : job[w] = j
    BY <1>7 DEF SettleFails
  <2>1. \A i \in Jobs : i # j => Stage(i)' = Stage(i)
    BY <1>7 DEF SettleFails, Release, Stage, HeldAt
  <2>2. /\ status[j] = "processing"
        /\ snap[w] = [status |-> "processing", attempts |-> attempts[j]]
        /\ attempts[j] < MaxAttempts
    BY <1>7 DEF SettleFails, SoleInv, RowIsHeld, CountsByStatus
  <2>3. /\ Stage(j) = IF wpc[w] = "sent" THEN "delivered" ELSE "raised"
        /\ Stage(j)' = "lost"
    BY <1>7, <2>2, NoJobAssumption DEF SettleFails, Release, Stage, HeldAt
  <2>4. CASE Outcome(w) = "failed"
    <3>1. wpc[w] = "raised" /\ attempts[j] + 1 = MaxAttempts
      BY <1>7, <2>2, <2>4, BoundAssumption DEF SettleFails, Outcome, Exhausted
    <3>2. alerts' = [alerts EXCEPT ![j] = @ + 1]
      BY <1>7, <2>4 DEF SettleFails, PrintAlert
    <3> QED
      BY <1>7, <2>1, <2>3, <3>1, <3>2, EnterStep
         DEF SettleFails, Life!Next, Life!Live, Life!Lose, Life!InRun
  <2>5. CASE Outcome(w) # "failed"
    <3>1. UNCHANGED alerts
      BY <1>7, <2>5 DEF SettleFails, PrintAlert
    <3> QED
      BY <1>7, <2>1, <2>3, <3>1, EnterStep
         DEF SettleFails, Life!Next, Life!Live, Life!Lose, Life!InRun
  <2> QED
    BY <2>4, <2>5
\* A worker that ends before its claim leaves no trace.
<1>8. ASSUME NEW w \in Workers, Crash(w) PROVE Goal
  <2> PICK j \in Jobs : job[w] = j
    BY <1>8 DEF Crash
  <2>1. \A i \in Jobs : i # j => Stage(i)' = Stage(i)
    BY <1>8 DEF Crash, Release, Stage, HeldAt
  <2>2. CASE wpc[w] = "selected"
    <3>1. \A i \in Jobs : Stage(i)' = Stage(i)
      BY <1>8, <2>1, <2>2 DEF Crash, SoleInv, RowIsHeld, Stage
    <3> QED
      BY <1>8, <3>1, SameStages DEF Crash, Life!vars
  <2>3. CASE wpc[w] # "selected"
    <3>1. status[j] = "processing"
      BY <1>8, <2>3 DEF Crash, SoleInv, RowIsHeld
    <3>2. Stage(j) \in Life!InRun /\ Stage(j)' = "lost"
      BY <1>8, <2>3, <3>1, NoJobAssumption
         DEF Crash, Release, Stage, HeldAt, Life!InRun
    <3> QED
      BY <1>8, <2>1, <3>2, EnterStep
         DEF Crash, Life!Next, Life!Live, Life!Lose
  <2> QED
    BY <2>2, <2>3
<1>9. CASE Tick
  <2>1. \A j \in Jobs : Stage(j)' = Stage(j)
    BY <1>9 DEF Tick, Stage, HeldAt
  <2>2. Life!Pass
    BY <1>9, <2>1, SameStages DEF Tick, Life!Pass
  <2> QED
    BY <2>2 DEF Life!Next
<1>10. CASE UNCHANGED vars
  <2>1. \A j \in Jobs : Stage(j)' = Stage(j)
    BY <1>10 DEF vars, Stage, HeldAt
  <2> QED
    BY <1>10, <2>1, SameStages DEF vars, Life!vars
<1> HIDE DEF TypeInv, SoleInv
<1> QED
  BY <1>1, <1>2, <1>3, <1>4, <1>5, <1>6, <1>7, <1>8, <1>9, <1>10
     DEF Next, Work

\* With one worker every behaviour of the queue, its statements, crashes and
\* failing commits included, is one of JobLife.
THEOREM OneWorkerImplements ==
    ASSUME NEW k, Workers = {k}
    PROVE  Spec => ImplementsJobLife
<1>1. Init => Life!Init
  BY InitLife
<1>2. TypeInv /\ SoleInv /\ [Next]_vars => [Life!Next]_(Life!vars)
  BY NextLife
<1> QED
  BY <1>1, <1>2, Sole, PTL DEF Spec, ImplementsJobLife, Life!Spec

=============================================================================
