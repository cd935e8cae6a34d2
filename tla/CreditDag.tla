----------------------------- MODULE CreditDag ------------------------------
(***************************************************************************)
(* The credit_risk_rwa DAG over the jobs of CreditJobs: one run per        *)
(* reporting date, three tasks in order, each task retried once, one DAG   *)
(* run active at a time, months backfilled in order, and an operator who   *)
(* clears a finished run to process its date again.                        *)
(*                                                                         *)
(* A task instance starts a Glue run and waits for it, so while a DAG run  *)
(* is active at most one Glue run is: every step of CreditJobs happens     *)
(* here, under this schedule.                                              *)
(***************************************************************************)
EXTENDS CreditJobs

CONSTANTS
    NoSlot,
    Retries,          \* retries of a task: 1 in the DAG's default_args
    MaxDeliveries,    \* bounds on what the environment does: deliveries by the
    MaxCrashes,       \* source, Glue runs that die, and DAG runs an operator
    MaxReruns         \* clears

ASSUME ScheduleAssumption ==
    /\ NoSlot \notin Slots
    /\ {Retries, MaxDeliveries, MaxCrashes, MaxReruns} \subseteq Nat

Tasks == 1..3    \* silver >> engine_input >> rwa

VARIABLES
    outcome,    \* per date: the DAG run's state once it is over, else "none"
    active,     \* the date of the active DAG run, or 0
    task, try,  \* its current task, and which attempt of it this is
    slot,       \* the Glue run the task waits for, or NoSlot before it starts
    spent,      \* how often the environment has acted
    source      \* history, read by no action: per date, the bronze partition
                \* the last silver task found

dagVars == <<outcome, active, task, try, slot>>
allVars == <<vars, dagVars, spent, source>>

DagInit ==
    /\ Init
    /\ outcome = [d \in Dates |-> "none"]
    /\ active = 0 /\ task = 1 /\ try = 1 /\ slot = NoSlot
    /\ spent = [deliveries |-> 0, crashes |-> 0, reruns |-> 0]
    /\ source = [d \in Dates |-> NoPartition]

-----------------------------------------------------------------------------
BeginWhenever(d) ==    \* a slip: max_active_runs is not set
    /\ outcome[d] = "none" /\ active # d
    /\ \A e \in Dates : e < d => outcome[e] # "none" \/ active = e
    /\ active' = d /\ task' = 1 /\ try' = 1 /\ slot' = NoSlot
    /\ UNCHANGED <<vars, outcome, spent, source>>

\* catchup: the earliest month not yet processed, and no other run active.
BeginDagRun(d) ==
    /\ active = 0
    /\ outcome[d] = "none"
    /\ \A e \in Dates : e < d => outcome[e] # "none"
    /\ active' = d /\ task' = 1 /\ try' = 1 /\ slot' = NoSlot
    /\ UNCHANGED <<vars, outcome, spent, source>>

\* The current task starts its Glue run.
StartTask(s) ==
    /\ active # 0 /\ slot = NoSlot
    /\ \/ /\ task = 1
          /\ StartSilver(s, active) \/ StartSilverWithoutBronze(s, active)
          /\ source' = [source EXCEPT ![active] = bronze[active]]
       \/ /\ task = 2
          /\ StartInput(s, active)
          /\ UNCHANGED source
       \/ /\ task = 3
          /\ StartOutput(s, active)
          /\ UNCHANGED source
    /\ slot' = s
    /\ UNCHANGED <<outcome, active, task, try, spent>>

\* The Glue run succeeded: on to the next task, or the DAG run is a success.
TaskSucceeds ==
    /\ slot # NoSlot /\ run[slot].pc = "succeeded"
    /\ IF task = 3
       THEN /\ outcome' = [outcome EXCEPT ![active] = "success"]
            /\ active' = 0 /\ task' = 1
       ELSE /\ task' = task + 1
            /\ UNCHANGED <<outcome, active>>
    /\ try' = 1 /\ slot' = NoSlot
    /\ UNCHANGED <<vars, spent, source>>

RetryForever ==    \* a slip: an attempt is not counted
    /\ slot # NoSlot /\ run[slot].pc \in {"halted", "failed"}
    /\ slot' = NoSlot
    /\ UNCHANGED <<vars, outcome, active, task, try, spent, source>>

\* The Glue run stopped at a contract or died: try again, or the DAG run fails.
TaskFails ==
    /\ slot # NoSlot /\ run[slot].pc \in {"halted", "failed"}
    /\ IF try <= Retries
       THEN /\ try' = try + 1
            /\ UNCHANGED <<outcome, active, task>>
       ELSE /\ outcome' = [outcome EXCEPT ![active] = "failed"]
            /\ active' = 0 /\ task' = 1 /\ try' = 1
    /\ slot' = NoSlot
    /\ UNCHANGED <<vars, spent, source>>

-----------------------------------------------------------------------------
\* "Fix the cause upstream, then rerun the date": an operator clears a run.
Rerun(d) ==
    /\ spent.reruns < MaxReruns
    /\ outcome[d] # "none"
    /\ outcome' = [outcome EXCEPT ![d] = "none"]
    /\ spent' = [spent EXCEPT !.reruns = @ + 1]
    /\ UNCHANGED <<vars, active, task, try, slot, source>>

SourceDelivers(d, rows) ==
    /\ spent.deliveries < MaxDeliveries
    /\ Deliver(d, rows)
    /\ spent' = [spent EXCEPT !.deliveries = @ + 1]
    /\ UNCHANGED <<dagVars, source>>

RunDies(s) ==
    /\ spent.crashes < MaxCrashes
    /\ Crash(s)
    /\ spent' = [spent EXCEPT !.crashes = @ + 1]
    /\ UNCHANGED <<dagVars, source>>

RunSteps(s) ==
    /\ Step(s)
    /\ UNCHANGED <<dagVars, spent, source>>

Airflow ==
    \/ \E d \in Dates : BeginDagRun(d)
    \/ \E s \in Slots : StartTask(s)
    \/ TaskSucceeds
    \/ TaskFails

Environment ==
    \/ \E d \in Dates : Rerun(d)
    \/ \E d \in Dates, rows \in Deliveries : SourceDelivers(d, rows)
    \/ \E s \in Slots : RunDies(s)

(***************************************************************************)
(* Airflow's scheduler keeps acting and the Glue run it waits for keeps    *)
(* going until it ends.  The two take turns, so one condition is enough;   *)
(* neither the source, a crash nor an operator has to act.                 *)
(***************************************************************************)
Progress == Airflow \/ \E s \in Slots : RunSteps(s)

DagNext == Progress \/ Environment

DagSpec == DagInit /\ [][DagNext]_allVars /\ WF_allVars(Progress)

-----------------------------------------------------------------------------
(***************************************************************************)
(* Properties.                                                             *)
(***************************************************************************)

\* Type correctness of the schedule, and that only the active run's date has
\* a Glue run working on it.
DagTypeOK ==
    /\ outcome \in [Dates -> {"none", "success", "failed"}]
    /\ active \in Dates \cup {0}
    /\ task \in Tasks /\ try \in 1..(Retries + 1) /\ slot \in Slots \cup {NoSlot}
    /\ source \in [Dates -> Deliveries \cup {NoPartition}]
    /\ \A s \in Slots : run[s].pc \in Working => s = slot /\ run[s].date = active

Delivered(d)    == {Conform(src) : src \in source[d]}
FullInput(d)    == InputPassed(SilverPassed(Delivered(d)), d)
Done(d)         == outcome[d] = "success" /\ active # d

\* A DAG run that succeeded on a delivery with at least one acceptable row has
\* carried that delivery, and nothing older, to the RWA output: what is in
\* force is exactly the chain applied to what the silver task found, whatever
\* earlier runs, retries and crashes left behind in the tables.
ReportFollowsDelivery ==
    \A d \in Dates :
        Done(d) /\ SilverPassed(Delivered(d)) # {}
        => /\ silver[d] = SilverPassed(Delivered(d))
           /\ gold[d] = FullInput(d)
           /\ rwa[d] = RunEngine(FullInput(d), d)

\* When the engine-input job stops at its contract, the rows that explain why
\* are already in quarantine ("the evidence is already on disk when the job
\* fails", contract-failures.md).
EvidenceOnDisk ==
    [][\A s \in Slots :
          run[s].pc = "assert_input" /\ run'[s].pc = "halted" /\ run[s].quarantined # {}
          => goldQuarantine[run[s].date] = run[s].quarantined]_allVars

\* The backfill comes to an end: every month gets a verdict and keeps it.
BackfillCompletes == <>[](active = 0 /\ \A d \in Dates : outcome[d] # "none")

\* Nothing the environment may still do.
Quiet == spent = [deliveries |-> MaxDeliveries, crashes |-> MaxCrashes,
                  reruns |-> MaxReruns]

\* What the chain makes of a delivery, whatever was there before: the engine
\* input, whether its contract accepts it, and the engine's figures.
InputOf     == [rows \in Deliveries, d \in Dates |->
                   InputPassed(SilverPassed({Conform(src) : src \in rows}), d)]
Publishable == [rows \in Deliveries, d \in Dates |->
    LET kept == InputOf[rows, d]
        bad  == InputQuarantined(SilverPassed({Conform(src) : src \in rows}), d)
    IN  DatasetFit(kept, bad, InputKeys(kept), MaxQuarantinePct)]
FigureOf    == [rows \in Deliveries, d \in Dates |-> RunEngine(InputOf[rows, d], d)]

Fixed(d)     == bronze[d] # NoPartition /\ Publishable[bronze[d], d]
Restarted(d) == active = d /\ task = 1 /\ slot = NoSlot /\ try = 1

\* The recovery every runbook entry ends with: once the cause is fixed at the
\* source, rerunning the date publishes it, whatever the failed runs before it
\* left behind.
RerunRecovers ==
    \A d \in Dates :
        (Quiet /\ Restarted(d) /\ Fixed(d))
        ~> (outcome[d] = "success" /\ source[d] = bronze[d]
              /\ rwa[d] = FigureOf[bronze[d], d])

(***************************************************************************)
(* What documents of the repository say of an absent input, and the code   *)
(* does not do.                                                            *)
(***************************************************************************)

\* A partition that exists but is empty "is caught two layers later at the
\* engine boundary" (contract-failures.md:133-135): no run on one succeeds.
EmptyDeliveryIsCaught ==
    \A d \in Dates : Done(d) => source[d] # {}

\* What conformance "catches: null, range and relational faults per row"
\* (platform_map.md): an exposure that is not in the engine input of its date
\* is in a quarantine, unless it is known to carry no capital.
NoExposureLost ==
    \A d \in Dates : Done(d) =>
        \A r \in Delivered(d) :
            \/ r \in gold[d] \cup goldQuarantine[d] \cup silverQuarantine[d]
            \/ r.outstanding_amount = 0 /\ r.status \in {"performing", "closed", "written_off"}
=============================================================================
