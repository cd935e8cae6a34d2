----------------------------- MODULE CreditJobs -----------------------------
(***************************************************************************)
(* The three credit-risk jobs and the tables they share.                   *)
(*                                                                         *)
(*   silver_exposure    bronze partition -> silver, silver quarantine      *)
(*   gold_engine_input  silver partition -> engine input, its quarantine   *)
(*   rwa_output         engine input -> engine -> rwa output, quarantine   *)
(*                                                                         *)
(* A job runs in a run slot, reads its input once when it starts, and then *)
(* commits one table at a time: every write is one atomic Iceberg commit,  *)
(* and between two writes of a run anything else may happen, a crash or a  *)
(* write by another run included.  Here any job may be started for any     *)
(* date at any time, in as many slots as there are (Glue allows several    *)
(* runs of a job at once); CreditDag adds the scheduler that orders them.  *)
(*                                                                         *)
(* bronze is the source's delivery: immutable to the jobs and replaced by  *)
(* a redelivery.  A table is a function from reporting dates to the set of *)
(* rows in that partition; an absent table has no rows anywhere.           *)
(***************************************************************************)
EXTENDS RwaEngine, ContractAssertions

CONSTANTS
    SourceRows,         \* rows the source may deliver
    Deliveries,         \* the contents a bronze partition may be delivered with
    NoPartition,        \* a partition that is missing or lacks a column read
    Slots,              \* Glue run slots
    MaxQuarantinePct    \* max_quarantine_pct of the engine-input contract

ASSUME RowsAssumption ==
    /\ IsFiniteSet(SourceRows)
    /\ Deliveries \subseteq SUBSET SourceRows
    /\ NoPartition \notin Deliveries
ASSUME DatesAssumption == Dates \subseteq Nat \ {0}
ASSUME FaultsAssumption == EngineFaults \subseteq AllEngineFaults
ASSUME QuarantineLimitAssumption == MaxQuarantinePct \in 0..99

\* max_quarantine_pct of the output contract.
MaxOutputQuarantinePct == 0

VARIABLES
    bronze,
    silver, silverQuarantine,
    gold, goldQuarantine,
    rwa, rwaQuarantine,
    run,         \* what each slot is doing, or how its last run ended
    published    \* history, read by no action: every engine input that was
                 \* ever in the gold table for a date

silverTables == <<silver, silverQuarantine>>
goldTables   == <<gold, goldQuarantine, published>>
rwaTables    == <<rwa, rwaQuarantine>>
tables       == <<silverTables, goldTables, rwaTables>>
vars         == <<bronze, tables, run>>

\* The rows the tables can hold.
ExposureRows == {Conform(src) : src \in SourceRows}
InputRows    == {r \in ExposureRows : \E d \in Dates : SatisfiesInputContract(r, d)}
OutputRows   == UNION (UNION {EngineReturns(input, d) :
                                 input \in SUBSET InputRows, d \in Dates})

Jobs  == {"none", "silver_exposure", "gold_engine_input", "rwa_output"}
Ended == {"idle", "succeeded", "halted", "failed"}
SilverSteps == {"write_silver", "write_silver_quarantine"}
InputSteps  == {"write_input_quarantine", "assert_input", "publish_input"}
OutputSteps == {"write_output_quarantine", "assert_output", "reconcile", "publish_output"}
Working     == SilverSteps \cup InputSteps \cup OutputSteps

\* A run carries what the job holds in memory: the engine input it read (the
\* rwa job alone needs it after the read) and the two halves of its split.
Run(job, date, pc, input, passed, quarantined) ==
    [ job |-> job, date |-> date, pc |-> pc, input |-> input,
      passed |-> passed, quarantined |-> quarantined ]

\* How a run ended; what it held in memory is gone.
Over(job, date, pc) == Run(job, date, pc, {}, {}, {})

Empty == [d \in Dates |-> {}]

Init ==
    /\ bronze = [d \in Dates |-> NoPartition]
    /\ silver = Empty /\ silverQuarantine = Empty
    /\ gold = Empty   /\ goldQuarantine = Empty
    /\ rwa = Empty    /\ rwaQuarantine = Empty
    /\ published = Empty
    /\ run = [s \in Slots |-> Over("none", 0, "idle")]

-----------------------------------------------------------------------------
(***************************************************************************)
(* write_partition: overwritePartitions replaces the partitions present in *)
(* the written rows and no other, so rows that cover no date replace       *)
(* nothing.  create(), on a table that does not exist yet, has the same    *)
(* effect.  `rows_on` gives the written rows by date.                      *)
(***************************************************************************)
OverwriteTable(table, rows_on)  == rows_on    \* a slip: a static overwrite
AppendRows(table, rows_on)      == [d \in Dates |-> table[d] \cup rows_on[d]]    \* a slip

KeepPartitions(table, rows_on)  ==            \* a slip: a partition is written once
    [d \in Dates |-> IF table[d] = {} THEN rows_on[d] ELSE table[d]]

OverwritePartitions(table, rows_on) ==
    [d \in Dates |-> IF rows_on[d] = {} THEN table[d] ELSE rows_on[d]]

OnDate(rows, date)    == [d \in Dates |-> IF d = date THEN rows ELSE {}]
ByReportingDate(rows) == [d \in Dates |-> {o \in rows : o.reporting_date = d}]

Free(s)       == run[s].pc \in Ended
At(s, pc)     == run[s].pc = pc
Goto(s, pc)   == run' = [run EXCEPT ![s].pc = pc]
EndRun(s, pc) == run' = [run EXCEPT ![s] = Over(@.job, @.date, pc)]

-----------------------------------------------------------------------------
(***************************************************************************)
(* The source.                                                             *)
(***************************************************************************)
Deliver(d, rows) ==
    /\ bronze' = [bronze EXCEPT ![d] = rows]
    /\ UNCHANGED <<tables, run>>

-----------------------------------------------------------------------------
(***************************************************************************)
(* silver_exposure_job.run                                                 *)
(***************************************************************************)
StartSilver(s, d) ==
    /\ Free(s)
    /\ bronze[d] # NoPartition
    /\ LET rows == {Conform(src) : src \in bronze[d]}
       IN  run' = [run EXCEPT ![s] = Run("silver_exposure", d, "write_silver", {},
                                         SilverPassed(rows), SilverQuarantined(rows))]
    /\ UNCHANGED <<bronze, tables>>

\* The read raises: there is no partition to read.
StartSilverWithoutBronze(s, d) ==
    /\ Free(s)
    /\ bronze[d] = NoPartition
    /\ run' = [run EXCEPT ![s] = Over("silver_exposure", d, "failed")]
    /\ UNCHANGED <<bronze, tables>>

WriteSilver(s) ==
    /\ At(s, "write_silver")
    /\ silver' = OverwritePartitions(silver, OnDate(run[s].passed, run[s].date))
    /\ IF run[s].quarantined = {} THEN EndRun(s, "succeeded")
                                  ELSE Goto(s, "write_silver_quarantine")
    /\ UNCHANGED <<bronze, silverQuarantine, goldTables, rwaTables>>

WriteSilverQuarantine(s) ==
    /\ At(s, "write_silver_quarantine")
    /\ silverQuarantine' = OverwritePartitions(silverQuarantine,
                                               OnDate(run[s].quarantined, run[s].date))
    /\ EndRun(s, "succeeded")
    /\ UNCHANGED <<bronze, silver, goldTables, rwaTables>>

-----------------------------------------------------------------------------
(***************************************************************************)
(* gold_engine_input_job.run                                               *)
(***************************************************************************)
InputKeys(rows) == {r.exposure_id : r \in rows}   \* the date is one literal

\* A slip: the assertions run first, the quarantine is never reached on a halt.
AssertBeforeQuarantine(s, d) ==
    /\ Free(s)
    /\ run' = [run EXCEPT ![s] =
                   Run("gold_engine_input", d, "assert_input", {},
                       InputPassed(silver[d], d), InputQuarantined(silver[d], d))]
    /\ UNCHANGED <<bronze, tables>>

StartInput(s, d) ==
    /\ Free(s)
    /\ LET passed      == InputPassed(silver[d], d)
           quarantined == InputQuarantined(silver[d], d)
       IN  run' = [run EXCEPT ![s] =
                      Run("gold_engine_input", d,
                          IF quarantined = {} THEN "assert_input"
                                              ELSE "write_input_quarantine",
                          {}, passed, quarantined)]
    /\ UNCHANGED <<bronze, tables>>

WriteInputQuarantine(s) ==
    /\ At(s, "write_input_quarantine")
    /\ goldQuarantine' = OverwritePartitions(goldQuarantine,
                                             OnDate(run[s].quarantined, run[s].date))
    /\ Goto(s, "assert_input")
    /\ UNCHANGED <<bronze, gold, published, silverTables, rwaTables>>

InputFit(r) ==
    DatasetFit(r.passed, r.quarantined, InputKeys(r.passed), MaxQuarantinePct)

AssertInput(s) ==
    /\ At(s, "assert_input")
    /\ IF InputFit(run[s]) THEN Goto(s, "publish_input") ELSE EndRun(s, "halted")
    /\ UNCHANGED <<bronze, tables>>

\* A slip: the frame written is the one enforce() tagged, not the part it passed.
PublishTagged(s) ==
    /\ At(s, "publish_input")
    /\ gold' = OverwritePartitions(gold, OnDate(run[s].passed \cup run[s].quarantined,
                                                run[s].date))
    /\ published' = [published EXCEPT ![run[s].date] = @ \cup {gold'[run[s].date]}]
    /\ EndRun(s, "succeeded")
    /\ UNCHANGED <<bronze, goldQuarantine, silverTables, rwaTables>>

PublishInput(s) ==
    /\ At(s, "publish_input")
    /\ gold' = OverwritePartitions(gold, OnDate(run[s].passed, run[s].date))
    /\ published' = [published EXCEPT ![run[s].date] = @ \cup {gold'[run[s].date]}]
    /\ EndRun(s, "succeeded")
    /\ UNCHANGED <<bronze, goldQuarantine, silverTables, rwaTables>>

-----------------------------------------------------------------------------
(***************************************************************************)
(* rwa_output_job.run                                                      *)
(***************************************************************************)
StartOutput(s, d) ==
    /\ Free(s)
    /\ \E out \in EngineReturns(gold[d], d) :
          run' = [run EXCEPT ![s] =
                     Run("rwa_output", d,
                         IF OutputQuarantined(out) = {} THEN "assert_output"
                                                        ELSE "write_output_quarantine",
                         gold[d], OutputPassed(out), OutputQuarantined(out))]
    /\ UNCHANGED <<bronze, tables>>

WriteOutputQuarantine(s) ==
    /\ At(s, "write_output_quarantine")
    /\ rwaQuarantine' = OverwritePartitions(rwaQuarantine,
                                            ByReportingDate(run[s].quarantined))
    /\ Goto(s, "assert_output")
    /\ UNCHANGED <<bronze, rwa, silverTables, goldTables>>

OutputFit(r) ==
    DatasetFit(r.passed, r.quarantined, OutputKeys(r.passed), MaxOutputQuarantinePct)

AssertOutput(s) ==
    /\ At(s, "assert_output")
    /\ IF OutputFit(run[s]) THEN Goto(s, "reconcile") ELSE EndRun(s, "halted")
    /\ UNCHANGED <<bronze, tables>>

Reconcile(s) ==
    /\ At(s, "reconcile")
    /\ IF Reconciles(run[s].input, run[s].passed) THEN Goto(s, "publish_output")
                                                  ELSE EndRun(s, "halted")
    /\ UNCHANGED <<bronze, tables>>

PublishOutput(s) ==
    /\ At(s, "publish_output")
    /\ rwa' = OverwritePartitions(rwa, ByReportingDate(run[s].passed))
    /\ EndRun(s, "succeeded")
    /\ UNCHANGED <<bronze, rwaQuarantine, silverTables, goldTables>>

-----------------------------------------------------------------------------
\* A run dies between two steps: a lost worker, the Glue timeout, an exception.
Crash(s) ==
    /\ run[s].pc \in Working
    /\ EndRun(s, "failed")
    /\ UNCHANGED <<bronze, tables>>

\* What a started run does next.
Step(s) ==
    \/ WriteSilver(s) \/ WriteSilverQuarantine(s)
    \/ WriteInputQuarantine(s) \/ AssertInput(s) \/ PublishInput(s)
    \/ WriteOutputQuarantine(s) \/ AssertOutput(s) \/ Reconcile(s) \/ PublishOutput(s)

Start(s, d) ==
    StartSilver(s, d) \/ StartSilverWithoutBronze(s, d) \/ StartInput(s, d) \/ StartOutput(s, d)

Next ==
    \/ \E d \in Dates, rows \in Deliveries : Deliver(d, rows)
    \/ \E s \in Slots, d \in Dates : Start(s, d)
    \/ \E s \in Slots : Step(s) \/ Crash(s)

Spec == Init /\ [][Next]_vars

-----------------------------------------------------------------------------
(***************************************************************************)
(* Properties.                                                             *)
(***************************************************************************)

RunRecords == [ job         : Jobs,
                date        : Dates \cup {0},
                pc          : Ended \cup Working,
                input       : SUBSET InputRows,
                passed      : SUBSET (ExposureRows \cup OutputRows),
                quarantined : SUBSET (ExposureRows \cup OutputRows) ]

\* Type correctness: every table, delivery and run holds what it should.
TypeOK ==
    /\ bronze \in [Dates -> Deliveries \cup {NoPartition}]
    /\ silver \in [Dates -> SUBSET ExposureRows]
    /\ silverQuarantine \in [Dates -> SUBSET ExposureRows]
    /\ gold \in [Dates -> SUBSET InputRows]
    /\ goldQuarantine \in [Dates -> SUBSET ExposureRows]
    /\ rwa \in [Dates -> SUBSET OutputRows]
    /\ rwaQuarantine \in [Dates -> SUBSET OutputRows]
    /\ published \in [Dates -> SUBSET SUBSET InputRows]
    /\ run \in [Slots -> RunRecords]

\* What the engine input promises of one exposure, said without the rules:
\* every figure is there, the figures fit together, and it carries capital.
Reportable(r, d) ==
    /\ d \in MonthEnds
    /\ \A column \in Required : r[column] # Null
    /\ 0 <= r.provision_amount /\ r.provision_amount <= r.outstanding_amount
    /\ 10 * r.outstanding_amount <= 11 * r.original_amount
    /\ r.status \in {"performing", "past_due", "defaulted"}
    /\ r.default_flag = (r.status = "defaulted")
    /\ r.status = "defaulted" => r.days_past_due >= DefaultAtDpd
    /\ r.status # "defaulted" => r.provision_amount = 0 /\ r.outstanding_amount > 0

EachExposureOnce(rows) ==
    \A r1, r2 \in rows : r1.exposure_id = r2.exposure_id => r1 = r2

PublishableInput(rows, d) ==
    EachExposureOnce(rows) /\ \A r \in rows : Reportable(r, d)

\* Whatever the source delivered, however often, and however runs of the jobs
\* interleaved or died, the engine input of every date holds each exposure
\* once and only exposures whose figures are known, consistent and in scope
\* (gold_engine_input_job.py: "Nothing reaches the engine").
EngineInputSound ==
    \A d \in Dates : PublishableInput(gold[d], d)

\* What a run holds in memory at each of its steps.  A run about to publish an
\* engine input has validated it; EngineInputSound is not inductive without
\* this, because a publication is only as good as what the run carries to it.
RunSound(r) ==
    /\ r.pc \in Working => r.date \in Dates
    /\ r.pc \in SilverSteps =>
          /\ r.job = "silver_exposure"
          /\ r.passed \subseteq ExposureRows /\ r.quarantined \subseteq ExposureRows
    /\ r.pc \in InputSteps =>
          /\ r.job = "gold_engine_input"
          /\ r.passed \subseteq InputRows /\ r.quarantined \subseteq ExposureRows
          /\ \A x \in r.passed : Reportable(x, r.date)
    /\ r.pc = "publish_input" => InputFit(r)
    /\ r.pc \in OutputSteps =>
          /\ r.job = "rwa_output"
          /\ r.passed \subseteq OutputRows /\ r.quarantined \subseteq OutputRows

\* The inductive invariant behind EngineInputSound.
SoundChain ==
    /\ TypeOK
    /\ EngineInputSound
    /\ \A s \in Slots : RunSound(run[s])

\* A run of the engine-input job that reports success has replaced what was in
\* force for its date with what it validated, never leaving an earlier figure
\* in place under a successful run.  It holds because a dataset that passes
\* the assertions is not empty: overwritePartitions replaces nothing when the
\* written rows cover no date, and min_rows alone counts quarantined rows too.
PublicationIsEffective ==
    [][\A s \in Slots :
          run[s].job = "gold_engine_input" /\ run[s].pc \in Working
             /\ run'[s].pc = "succeeded"
          => gold'[run[s].date] = run[s].passed /\ run[s].passed # {}]_vars

\* The engine's return passes reconciliation only if it is what the engine was
\* given, exposure for exposure (rwa_output_job.py: reconcile).
ExposureForExposure ==
    [][\A s \in Slots :
          run[s].pc = "reconcile" /\ run'[s].pc = "publish_output"
          => run[s].passed = RunEngine(run[s].input, run[s].date)]_vars

\* The partitions of a date are written by runs for that date and by no other
\* (contract-failures.md: "Writing one date does not disturb another").
PartitionsAt(d) == <<silver[d], silverQuarantine[d], gold[d], goldQuarantine[d],
                     rwa[d], rwaQuarantine[d]>>
OtherDatesUndisturbed ==
    [][\A d \in Dates :
          PartitionsAt(d)' # PartitionsAt(d)
          => \E s \in Slots : /\ run[s].pc \in Working
                              /\ run[s].date = d
                              /\ run'[s] # run[s]]_vars

\* The chain implements the abstract promise of RegulatoryFigure: a figure is
\* replaced whole, by a publishable one, and a report is always the honest
\* calculation of an engine input that was published for that date, whichever
\* of the faults reconciliation is there for the engine commits.
Figure == INSTANCE RegulatoryFigure
             WITH Rows <- InputRows, Publishable <- PublishableInput,
                  Calculated <- RunEngine, figure <- gold, report <- rwa
ChainPublishesFigures == Figure!Spec
=============================================================================
