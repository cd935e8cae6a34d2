------------------------------- MODULE TxnDag -------------------------------
(***************************************************************************)
(* The txn_monitoring_stream DAG over the stages of TxnStream: every six   *)
(* hours a run of bronze, silver and alerts in order, each task retried    *)
(* once, one DAG run active at a time, and the next run due whatever       *)
(* became of the last.                                                     *)
(***************************************************************************)
EXTENDS TxnStream

CONSTANT Retries    \* of a task: 1 in the DAG's default_args

ASSUME RetriesAssumption == Retries \in Nat

VARIABLES
    stage,      \* the current task of the active DAG run, or 0
    try,        \* which attempt of it this is
    started,    \* has this attempt started its job?
    outcome     \* how the last DAG run ended

dagVars == <<stage, try, started, outcome>>
allVars == <<streamVars, dagVars>>

Stages == 1..3    \* bronze >> silver >> alerts
JobOf  == <<bronzeRun.pc, silverRun.pc, alertRun.pc>>

DagInit ==
    /\ StreamInit
    /\ stage = 0 /\ try = 1 /\ started = FALSE /\ outcome = "none"

BeginWhenever ==    \* a slip: without max_active_runs
    /\ stage' = 1 /\ try' = 1 /\ started' = FALSE
    /\ UNCHANGED <<streamVars, outcome>>

Begin ==
    /\ stage = 0
    /\ stage' = 1 /\ try' = 1 /\ started' = FALSE
    /\ UNCHANGED <<streamVars, outcome>>

StartStage ==
    /\ stage # 0 /\ ~started
    /\ \/ stage = 1 /\ StartBronze
       \/ stage = 2 /\ StartSilver
       \/ stage = 3 /\ StartAlerts
    /\ started' = TRUE
    /\ UNCHANGED <<stage, try, outcome>>

StageSucceeds ==
    /\ started /\ JobOf[stage] = "succeeded"
    /\ IF stage = 3 THEN stage' = 0 /\ outcome' = "success"
                    ELSE stage' = stage + 1 /\ UNCHANGED outcome
    /\ try' = 1 /\ started' = FALSE
    /\ UNCHANGED streamVars

StageFails ==
    /\ started /\ JobOf[stage] = "failed"
    /\ IF try <= Retries THEN try' = try + 1 /\ UNCHANGED <<stage, outcome>>
                         ELSE stage' = 0 /\ try' = 1 /\ outcome' = "failed"
    /\ started' = FALSE
    /\ UNCHANGED streamVars

Airflow == Begin \/ StartStage \/ StageSucceeds \/ StageFails
Jobs    == BronzeSteps \/ SilverSteps \/ AlertsWrite

DagNext ==
    \/ Airflow
    \/ Jobs /\ UNCHANGED dagVars
    \/ Outside /\ UNCHANGED dagVars

\* A scheduler that is up keeps scheduling, and a job that runs goes on;
\* nothing is asked of the producer, or of what kills a job.
DagSpec ==
    /\ DagInit /\ [][DagNext]_allVars
    /\ WF_allVars(Airflow) /\ WF_allVars(Jobs /\ UNCHANGED dagVars)

-----------------------------------------------------------------------------
(***************************************************************************)
(* Properties.                                                             *)
(***************************************************************************)

\* Type correctness of the stream and its schedule, and no job runs outside its
\* task.
DagTypeOK ==
    /\ StreamTypeOK
    /\ stage \in Stages \cup {0} /\ try \in 1..Retries + 1
    /\ started \in BOOLEAN /\ outcome \in {"none", "success", "failed"}
    /\ \A s \in Stages : JobOf[s] \notin Ended => stage = s /\ started

InAlerts(po) == \E i \in Conformed(alerts) : Holds(bronze[i], po)

\* A DAG run that succeeds has screened all that was on the topic when it
\* began: every message the sweep rule flags is in the alert table, whatever
\* earlier runs, deaths and lost checkpoints left behind.
AlertsFollowTopic ==
    [][stage = 3 /\ outcome' = "success" /\ stage' = 0
       => \A po \in Messages :
             po[2] <= bronzeRun.target[po[1]] /\ Alerting(PayloadAt(po)) => InAlerts(po)]_allVars

\* Every message is screened in the end: it is in silver, and among the alerts
\* if the rule flags it, or in quarantine if it fails the contract.
Screened(po) ==
    IF Passes(PayloadAt(po))
    THEN InSilver(po) /\ (Alerting(PayloadAt(po)) => InAlerts(po))
    ELSE InQuarantine(po)

EveryMessageScreened ==
    \A po \in Partitions \X (1..MaxMessages) :
        (po \in Messages) ~> (po \in Messages /\ Screened(po))
=============================================================================
