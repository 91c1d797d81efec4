------------------------------- MODULE JobLife -------------------------------
(***************************************************************************)
(* What worker.py promises of the jobs, without its statements: they are   *)
(* run one at a time and not before their rest is over, a run that raises  *)
(* is followed by another after a rest twice as long until MaxAttempts     *)
(* have raised, then by an ALERT; what is done or failed is never run      *)
(* again.  A run may also be lost, with its worker or its commit; then the *)
(* job stays as it is.  JobQueue with one worker implements it.            *)
(***************************************************************************)
EXTENDS Naturals

CONSTANTS Jobs, MaxAttempts

VARIABLES
    stage,  \* where each job is in its life
    tries,  \* how many of its runs have raised and were recorded
    rest,   \* time until it may be run again
    sent,   \* how often its side effect has happened
    alerts  \* how often its ALERT was printed

vars == <<stage, tries, rest, sent, alerts>>

\* A job in a run, before its side effect and after either outcome.
InRun == {"running", "delivered", "raised"}

Init ==
    /\ stage = [j \in Jobs |-> "none"]
    /\ tries = [j \in Jobs |-> 0]
    /\ rest = [j \in Jobs |-> 0]
    /\ sent = [j \in Jobs |-> 0]
    /\ alerts = [j \in Jobs |-> 0]

Enter(j, s) == stage' = [stage EXCEPT ![j] = s]

\* A lead brings its jobs together.
Queue ==
    /\ \E S \in SUBSET Jobs :
          /\ S # {}
          /\ \A j \in S : stage[j] = "none"
          /\ stage' = [j \in Jobs |-> IF j \in S THEN "queued" ELSE stage[j]]
    /\ UNCHANGED <<tries, rest, sent, alerts>>

Run(j) ==
    /\ stage[j] = "queued"
    /\ rest[j] = 0
    /\ \A i \in Jobs : stage[i] \notin InRun
    /\ Enter(j, "running")
    /\ UNCHANGED <<tries, rest, sent, alerts>>

\* The side effect happens, or raises, or happens and raises.
Try(j) ==
    /\ stage[j] = "running"
    /\ \/ Enter(j, "delivered") /\ sent' = [sent EXCEPT ![j] = @ + 1]
       \/ Enter(j, "raised") /\ sent' = [sent EXCEPT ![j] = @ + 1]
       \/ Enter(j, "raised") /\ UNCHANGED sent
    /\ UNCHANGED <<tries, rest, alerts>>

Complete(j) ==
    /\ stage[j] = "delivered"
    /\ Enter(j, "done")
    /\ UNCHANGED <<tries, rest, sent, alerts>>

Retry(j) ==
    /\ stage[j] = "raised"
    /\ tries[j] + 1 < MaxAttempts
    /\ Enter(j, "queued")
    /\ tries' = [tries EXCEPT ![j] = @ + 1]
    /\ rest' = [rest EXCEPT ![j] = 2 ^ tries[j]]
    /\ UNCHANGED <<sent, alerts>>

Fail(j) ==
    /\ stage[j] = "raised"
    /\ tries[j] + 1 = MaxAttempts
    /\ Enter(j, "failed")
    /\ tries' = [tries EXCEPT ![j] = MaxAttempts]
    /\ alerts' = [alerts EXCEPT ![j] = @ + 1]
    /\ UNCHANGED <<rest, sent>>

\* The run ends without a trace in the table; an ALERT may be out already.
Lose(j) ==
    /\ stage[j] \in InRun
    /\ Enter(j, "lost")
    /\ \/ UNCHANGED alerts
       \/ /\ stage[j] = "raised"
          /\ tries[j] + 1 = MaxAttempts
          /\ alerts' = [alerts EXCEPT ![j] = @ + 1]
    /\ UNCHANGED <<tries, rest, sent>>

Pass ==
    /\ \E j \in Jobs : rest[j] > 0
    /\ rest' = [j \in Jobs |-> IF rest[j] > 0 THEN rest[j] - 1 ELSE 0]
    /\ UNCHANGED <<stage, tries, sent, alerts>>

Live(j) ==
    Run(j) \/ Try(j) \/ Complete(j) \/ Retry(j) \/ Fail(j) \/ Lose(j)

Next == Queue \/ (\E j \in Jobs : Live(j)) \/ Pass

Spec == Init /\ [][Next]_vars

=============================================================================
