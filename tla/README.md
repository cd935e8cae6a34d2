# A TLA+ model of the regulated lakehouse

This directory holds TLA+ specifications of the platform in this repository,
the configurations that model-check them with TLC, and theorems about them
proved with TLAPS. Every definition is translated from the source; the table in
`PROJECT.json` under `map` names the lines each one stands for.

Contents:

1. The system: components, state, operations, hard behaviours
2. The modules, and how they correspond to the code
3. What each run checks and what it shows
4. Bounds, fairness and abstractions
5. What is proved, and how
6. Where documents and code disagree
7. What is only model-checked, and what is not modelled
8. Plan

## 1. The system

Two pipelines share one lakehouse of Iceberg tables in four layers: bronze (as
received), silver (conformed), gold (published) and quarantine (refused rows).

| Component | State | Operations | What is hard |
|---|---|---|---|
| Silver job, `silver_exposure_job.py` | silver and quarantine partitions by snapshot date | conform, validate, overwrite two partitions | two commits, no dataset assertion, NULL in a rule |
| Engine-input job, `gold_engine_input_job.py` | engine input and its quarantine | scope, contract, assertions, publish | evidence before the halt, concurrent runs, an empty write |
| RWA job, `rwa_output_job.py` | RWA output and its quarantine | engine, contract, reconciliation, publish | a black box between read and write, a stale input |
| Contract engine, `contract.py` | none | `enforce`, `assert_dataset` | three-valued logic, assertions that hold of nothing |
| Schedule, `credit_risk_rwa.py`, `glue.tf` | DAG runs, attempts, Glue runs | backfill, retry, clear | retries over half-written dates, termination |
| Producer, `producer.py` | Kafka log | produce in event-time order | local queue full, ordering per partition only |
| Bronze stream, `bronze_stream.py` | checkpoint, bronze table | micro-batch append | crash and checkpoint loss |
| Silver stream, `silver_stream.py` | checkpoint, silver, quarantine | `foreachBatch` append | a batch replayed after half its writes |
| Alert job, `alert_job.py`, `sweep_rule.py` | alerts by rule | detect, overwrite | an empty overwrite, a stale read of silver |
| Stream schedule, `txn_monitoring_stream.py` | DAG runs, attempts | begin, start, retry | a run that failed half way, and the next |
| Rules no job runs, `velocity_rule.py`, `structuring_rule.py` (`drain_rule.py` not modelled) | none | detect | window edges, repeated rows |
| Bronze loader, `load_bronze.py` | objects in a bucket | compare, delete, upload | skip by size, no atomicity |
| Maintenance, `maintenance.py` | snapshots, files | report, expire, compact | readers, writers and rollbacks while it runs |
| Simulation, `simulate_ods_snapshots.py`, `build_loan_master.py` | none | a loan's row of each day | dates known to the month, missing dates |
| Drift, `drift.py` | none | compare two periods of silver | zero and unchanged measures, silver that lags behind bronze |

How they interact: the credit jobs call nothing of each other and share only
tables; Airflow starts them through Glue and waits; the source replaces a bronze
partition whenever it redelivers. The streaming stages share tables and Kafka in
the same way, and reuse the contract engine per micro-batch. What ties a
streaming stage to its earlier runs is its checkpoint, a directory beside the
tables and not part of any commit to them. Upstream of the credit chain, the
simulation writes a directory for each day and the loader copies directories to
bronze; the silver job reads them whenever its own schedule says, and the drift
monitor reads silver beside the pipeline. Beside
every table, an operator may run maintenance or roll a write back.

What makes each correct. Credit chain: nothing incomplete, inconsistent or
duplicated reaches the engine; nothing is published that was not validated; a
success means the delivery was carried through; a rerun after a fix recovers.
Engine boundary: what is published is what the engine computed for an input
that was published. Schedule: months end, in order, with a verdict. Stream:
each message once in silver or in quarantine, whatever crashes. Alerts: the
table holds what the rules say of the silver table it read. Maintenance: no
live data is removed, and what it promises to keep is kept. Feed: every row is
acceptable to the chain, and the days agree with each other. Loader: a
completed run leaves what the source delivered, and a partition is never a
mixture. Monitor: the loss of a large part and a uniform fault are reported.

## 2. The modules

```
SqlLogic ── ExposureRules ── RwaEngine ──┐
                       ContractAssertions ┴─ CreditJobs ── CreditDag
                                                 │           └─ CreditProofs
                             RegulatoryFigure ◄──┘ (refinement)

SqlLogic ── TxnRules ── TxnStream ── TxnDag
                         │         └─ TxnProofs
             LandedLog ◄─┘ (refinement)

ExposureRules ── LoanFeed ── LoanFeedProofs
RwaEngine, ContractAssertions ── Drift ──┐
                          BronzeLoader ──┴─ MonitoredBronze ── BronzeProofs
Producer ── ProducerProofs ───────────┐
TxnRules ── DetectionRules ──┐        ├─ DetectedStreamProofs
Producer ────────────────────┴─ DetectedStream
                                  └─ TxnStream, TxnProofs (instances)
TableHistory ── TableHistoryProofs
Induction ── (every …Proofs module that needs induction or sums)
```

- **SqlLogic** (external: Spark). Comparison, negation and disjunction over
  values that may be absent. `Violated` is what `F.when(~cond, …)` reacts to,
  `Kept` what `filter` keeps; they are not complements, and the chain relies on
  both.
- **ExposureRules**. The rows and the rules: `Conform`, the eleven silver rules
  (`SilverConditions`), the scope filter, `DefaultDate`, and the engine-input
  contract (`FailedFieldRules`, `FailedRowRules`). A dataset is a set of records;
  `copy` tells apart two physical rows with one exposure id. Dates inside a row
  are month numbers, money is whole units, and the numbers of a rule
  (90 days, 110 %) are the code's.
- **ContractAssertions**. `Contract.assert_dataset`: arrival, unique grain,
  share in quarantine.
- **RwaEngine**. What the engine computes (`RunEngine`), what a misbehaving
  engine may return in its place (`Misreturns`, external), the output contract,
  and `Reconciles`.
- **CreditJobs**. The three jobs over shared tables. A job reads its input when
  it starts and then performs one action per commit or check, in the order of
  its `run` function: `StartSilver`, `WriteSilver`, `WriteSilverQuarantine`;
  `StartInput`, `WriteInputQuarantine`, `AssertInput`, `PublishInput`;
  `StartOutput`, `WriteOutputQuarantine`, `AssertOutput`, `Reconcile`,
  `PublishOutput`. Between any two of them other runs act, the source
  redelivers (`Deliver`) or the run dies (`Crash`). `Slots` are Glue run slots.
  A table is a function from dates to row sets. A missing table and a table
  without rows are the same here: a job that reads a missing table raises where
  the model finds no rows and halts, and neither changes a table.
- **CreditDag**. The Airflow DAG over `CreditJobs`: it uses the same actions and
  decides when each may happen. `BeginDagRun` is `catchup` with
  `max_active_runs=1`, `StartTask` the Glue operator, `TaskFails` the one retry
  of `default_args`, `Rerun` an operator clearing a run.
- **RegulatoryFigure**. The abstract promise: a figure is replaced whole by a
  publishable one and never withdrawn; a report is the honest calculation of a
  figure that was in force for its date. It may lag; it is never anything else.
- **CreditProofs**. The theorems about the jobs and their schedule (section 5).
- **TxnRules**. One message of the stream: the payload bronze parses
  (`Unparsed` is what `from_json` makes of garbage), `ConformTxn`, the contract
  `txn_monitoring_transaction` (`FieldRulesBroken`, `TxnConditions`) and the
  sweep rule. Money is in cents.
- **TxnStream**. The topic, the two streaming queries with their checkpoints and
  the alert job. A query is a run: `StartBronze` fixes the end of the topic it
  will read (availableNow), `BronzePlans` writes the end of the next batch to the
  checkpoint, `BronzeWrites` commits to the table, `BronzeCommits` marks the
  batch done. `BronzeDies` may come between any two of them, and a query that
  restarts finds the batch still planned and runs it again. The Iceberg sink
  bronze uses stamps its commits with query and epoch and skips what it has;
  silver's `foreachBatch` handler does not look at `batch_id`: `SilverWrites`
  and then `SilverQuarantines`, when there is something to quarantine, append
  again. A lost checkpoint makes a new query that starts from the earliest
  offset. The alert job reads silver, then overwrites its rule's partition.
- **TxnDag**. `txn_monitoring_stream` over the same actions: three stages, one
  retry each, one run active at a time, and the next run due whatever became of
  the last.
- **LandedLog**. The abstract promise of an exactly-once landing: the table holds
  of each partition what was sent up to some offset, each message once and in
  order.
- **TxnProofs**. The theorems about the stream and its schedule.
- **LoanFeed**. The simulated source: `Master` is the reduction of the extract
  (`build_loan_master.py`: rejected ids and issue dates, other columns coerced to
  null), and `SnapshotRow` is `build_snapshot` for one loan and day, one operator
  per column. A behaviour is one loan through the days of a calendar,
  `NextSnapshot` a turn of `run()`'s loop. The row has the columns the silver
  job reads, so that the rules of `ExposureRules` apply to it as they stand.
  A rate is a number of units of which `HundredPercent` make a hundred percent, so
  any rate the extract can write is one in small enough units. Powers of `1 + r`
  are kept whole (`Power`), and a share of the principal (`Annuity`) is a fraction
  of two of them. Rounding to whole units comes last, where `conform` rounds.
- **BronzeLoader**. One run at a time over partitions in order of their names:
  `Start` (with `--force`, `--dry-run`, `--only`), `SkipPartition` or
  `ReplacePartition` on the comparison, `DeleteBatch` for each request of
  `delete_prefix`, `UploadFile` for each file, `NextPartition`, `Finish`. A
  `Redeliver` of the source or `LoadFails` comes between any two of them. A
  file has a size, which the comparison sees, and rows, which it does not.
- **Drift**. `Measure` and `Compare` of `drift.py`; the faults and the trace of
  the experiments 04, 05 and 06 (`Scaled`, `OutcomesOf`), over the contract and
  the engine boundary of the credit chain.
- **MonitoredBronze**. The composition of loader, silver job and monitor:
  `ConformPartition` is the silver job over one date, at any moment of a load. It
  overwrites the date in `silver` with what it finds under the prefix, and
  replaces nothing where it finds nothing. The monitor, the contract and the
  engine read `silver` (`PeriodOf`, `MeasuresOf`, `EndsOf`), as experiments 05 and
  06 do, and not bronze.
- **TableHistory**. One Iceberg table: snapshots with their parents and days,
  data files in storage. Jobs write and commit in two steps (`BeginWrite`,
  `CommitWrite`, `WriteDies`) and read a snapshot's files after they planned on
  it (`BeginRead`, `EndRead`); an operator rolls back to an ancestor
  (`Rollback`); maintenance is `Expire`, a metadata commit, then `DeleteFiles`,
  then with `--compact` a `Rewrite` for each partition that commits or conflicts.
- **DetectionRules**. Structuring and velocity over a table of rows in which
  repeats count; windows are numbered hours from the reference date. `Splits` and
  `Bursts` say what the rules are there to find without mentioning windows.
- **Producer**. `producer.py` over the Kafka client it uses. `df` is the data
  frame to publish; the stable sort by step is defined by counting (`Place`: a
  row's place is one more than the rows that come `Earlier`). `Produce` and
  `Finish` with the flushes of `run`, a `Crash` and a `Rerun`; `Send`, `Write`,
  `Reject`, `Acknowledged`, `Retry`, `Expire` are the client and the broker
  (external) with the defaults the code keeps: several requests unanswered at a
  time, retries that are not idempotent, a timeout nobody is told of.
- **DetectedStream**. The composition of `Producer`, `TxnStream` and the rules:
  what the broker writes is what the stream finds on the topic (`Arrives`); the
  two queries run, die and lose their checkpoints beside the producer;
  `SilverTable` is the table they leave, with a row for each time a batch was
  appended. No job of the repository runs these two rules: `alert_job.py:26-32`
  unites only the sweep rule, and the red-team rows that exercise them are kept off
  the stream (ADR-010). That the rules read the silver table is this module's
  composition, on the pattern of the alert job.
- **LoanFeedProofs**, **BronzeProofs** (`BronzeLoader` and `MonitoredBronze`),
  **TableHistoryProofs**, **ProducerProofs**, **DetectedStreamProofs**. The theorems
  about these.
- **Induction**. Induction over the natural numbers, and sums over finite sets,
  for the proofs.
- **MCCreditData**, **MCCreditJobs**, **MCCreditDag**,
  **MCTxnData**, **MCTxnStream**, **MCTxnDag**, **MCLoanFeed**,
  **MCMonitoredBronze**, **MCTableHistory**, **MCDetectedStream**. Instances for TLC.
  `MCCreditData` has one source row for every way a row can fare: passing,
  duplicated, in default with zero EAD, quarantined by silver, quarantined by
  the contract, with an unknown balance, out of scope.

History variables are read by no action: `published` (engine inputs ever in
force), `source` (the partition the last silver task found), and those the
module comments call so (`seen`, `delivered`, `torn`, `mixed`, `transfers`, `retried`,
`rolledBack`, …). Counters such as `deaths` and `faults` are read by the guards
of the environment they bound, and by nothing else.
Operators marked "a slip" are not part of the model: each is a plausible bug
that the properties are tried against.

## 3. The runs

| Run | Question | Result |
|---|---|---|
| `credit_jobs` | Do two runs of any jobs, with crashes, redeliveries and an engine that commits the faults its docs name, keep the engine input sound, does reconciliation stop those faults, and does the chain implement `RegulatoryFigure`? | holds |
| `credit_dag` | Does a successful DAG run carry its own delivery through; is the evidence on disk before a halt; do the months stay apart; does the backfill end; does a rerun after a fix recover? | holds |
| `txn_stream` | With stages started, interleaved and killed in any order and a checkpoint lost: what is each table's delivery guarantee? | holds |
| `txn_dag` | Under the DAG: is bronze an exactly-once landing, do the alerts of a successful run cover the topic it found, is every message screened in the end? | holds |
| `loan_feed` | Does the feed consist of rows the chain accepts, do its days agree with each other, and is a loan paid off evenly? | holds |
| `monitored_bronze` | What is in bronze after runs that die, race a delivery or are restricted; and when the silver job reads it at any moment of a load, who notices what was lost, and who a factor on every amount? | holds |
| `table_history` | Do expiry and compaction keep what they promise beside writers, readers and rollbacks? | holds |
| `detection` | With requests, runs and queries that fail between file and silver: what is on the topic, in which order, whom do the windowed rules flag, and whom falsely? | holds |
| `dag_empty_delivery` | Is an empty delivery always caught? | violated |
| `dag_unknown` | Is every exposure published, quarantined or known to carry no capital? | violated |
| `txn_replay` | Does a retried silver run converge? | violated |
| `feed_closed` | Does a loan show a last stage before it drops out of the feed? | violated |

Properties:

- `EngineInputSound`: whatever interleaves, gold holds each exposure once and
  only rows whose figures are present, consistent and in scope. The statement
  does not mention the rules: `Reportable` says in plain two-valued logic what
  they are meant to guarantee.
- `PublicationIsEffective`: an engine-input run that succeeds has replaced the
  figure in force. Not obvious: `overwritePartitions` of nothing replaces
  nothing, and `min_rows` counts quarantined rows too. It takes arrival and a
  quarantine limit below 100 % together.
- `ChainPublishesFigures`: refinement of `RegulatoryFigure`.
- `ExposureForExposure`, `OtherDatesUndisturbed`: the engine boundary.
- `ReportFollowsDelivery`: after a success on a delivery with an acceptable row,
  silver, gold and the RWA output are exactly the chain applied to that
  delivery, whatever earlier runs left behind.
- `EvidenceOnDisk`: the quarantine is written before the halt.
- `BackfillCompletes`: every month ends and stays ended.
- `RerunRecovers`: once the source is fixed and the date restarted, the date is
  published.
- `BronzeExactlyOnce`: what is behind the checkpoint is in bronze, and no message
  is there more often than once per life of the checkpoint. It takes both halves
  of the protocol: the planned batch that a restart repeats unchanged, and the
  epoch the sink refuses a second time.
- `NothingDropped`: what is behind silver's checkpoint has been written, and its
  failing messages to quarantine, although these are two commits.
- `RepeatsOnlyOnReplay`: how often a row is repeated is bounded by how often the
  query died or lost its checkpoint: the documented "exactly-once" of bronze
  becomes at-least-once in silver, no worse.
- `ScreenedRowsAreMeaningful`: what the detection rule gets to see is complete,
  in range and consistent, stated in plain two-valued logic.
- `BronzeLandsTheLog`: refinement of `LandedLog`.
- `AlertsFollowTopic`: after a successful DAG run, every message that was on the
  topic when its bronze stage started and that the rule flags is an alert,
  whatever earlier runs left behind. An overwrite with nothing replaces nothing,
  so this is not a property of the last write alone.
- `EveryMessageScreened`: every message reaches silver, and the alerts if the
  rule flags it, or quarantine.
- `FeedIsAcceptable`: silver quarantines no row the simulation derives, and at a
  month end the engine contract takes every row in scope, whichever of the
  loan's columns are missing (rate and amount, which the contract requires,
  excepted).
- `LifecycleInOrder`, `WriteOffIsReported`, `DefaultDateNeverMoves`,
  `BalanceFollowsPayments`: relations between two days. No stage is skipped on a
  daily feed but one, the closing of a loan settled in a month of 31 days, which
  the docstring does not except (`ClosingIsShown`, run `feed_closed`); a default that a month end showed ends in a write-off that a month
  end shows, although the row stays for thirty days only; the default date,
  computed from the days past due of each report, is the same on all of them;
  the balance falls with each month paid, by a unit at least where the month's
  principal comes to one, or by an exit, and otherwise stands still.
- `InstalmentsAreLevel`: interest and principal add up to the same instalment each
  month of the term, the last of which clears the loan.
- `CompletedLoadAgrees`: after a run that completes, names and sizes agree, and
  after a forced one contents do, for every date the source left alone.
- `OneDeliveryAtATime`: bronze never mixes two deliveries of a date, unless the
  source delivered while its files were uploaded.
- `TransfersArePaidFor`: a partition is replaced at most once per delivery,
  forced run or death: reruns alone transfer nothing.
- `LossIsReported`: what silver has of a date is part of one delivery's book, never
  rows of two that make up for each other in the count, unless the source delivered
  during an upload. When more than two fifths of that book's period are missing,
  and the whole of it would have been no more than a quarter above the period
  compared with, the exposure count drifts; when nothing is left to send, the
  contract halts the run too. The fifths are what a tolerance of a quarter leaves.
  It is a statement about the silver table: a delivery that never reached it is
  not seen (section 6, item 1).
- `UniformFaultsShowUpAsDrift`: a factor of a hundred on every amount changes the
  verdict of the input contract on no row and on no period (experiment 04), and is
  a drift against any period from which the true one had not drifted.
- `NothingDangling`, `StorageAccountedFor`: the files in storage are exactly those
  of the listed snapshots and of a step under way; only a death leaves orphans.
- `PromisedHistoryKept`, `ReadersKeepTheirFiles`: young snapshots and the newest
  five (two in the run) on the line survive; a reader loses its files only after
  that many later commits, or a rollback.
- `ReportIsExact`: what `expirable` reports without `--apply` is what expiry
  would remove, on a table that was never rolled back.
- `CompactionKeepsContent`: a rewrite planned on one snapshot and committed on
  another neither brings an overwritten row back nor drops an appended one.
- `FlushedMeansWritten`: `done` means every message is on the topic or has timed
  out in the client.
- `AccountsInOrder`: an account's messages that were not sent again are on one
  partition, once and in event-time order. "Sees them in order"
  (`producer.py:7-8`) holds no further: a retried message may come late or twice.
- `BurstsAreFlagged`, `AlarmsAreDeserved`: from a file in any order, through the
  client, the topic and both queries, to what the windowed rules find in silver.
  Once everything is through, velocity misses no burst, since its windows slide;
  structuring misses a series across a boundary of its tumbling windows until one
  window has `MIN_COUNT` of it. Repeated rows do not hide anything, but they count:
  an account that does not deserve it is flagged only after one of its messages
  came through twice, a silver query died, or a checkpoint was lost. A bronze query
  may die as often as it likes. These are the two rules no job runs yet
  (section 2); the sweep rule, which `alert_job.py` does run, is in `txn_stream`
  and `txn_dag`.

## 4. Bounds, fairness and abstractions

- *Rows.* Seven source rows, deliveries of at most four. Rules are per row and
  assertions compare counts, so one row per outcome and a pair with a common key
  exercise each branch. `credit_jobs`
  identifies states that differ in the quarantine tables alone (`MCView`): no
  action and no property of that run reads them.
- *Quarantine limit.* 50 % instead of the contract's 1 %, so that two or three
  rows can be published with a refused row beside them or stopped by one too
  many. The proofs hold for every limit in 0..99.
- *Slots.* Two in `credit_jobs`, where interleaving is the question: any pair of
  jobs, or a job with itself. One where the schedule allows one.
- *Dates.* One in `credit_jobs` (dates share nothing but slots), two where dates
  meet, under the schedule.
- *Environment.* `MaxDeliveries`, `MaxCrashes` and `MaxReruns` bound what the
  environment does in `CreditDag`: enough for a delivery, a fix, a crash inside
  either attempt and a rerun. `CreditJobs` has no such bound: its state space is
  finite.
- *Retries.* 1, as in `default_args` of both DAGs.
- *Stream.* Two partitions and two messages in all, which gives two in one
  partition, or one in each; one of them passes and is a sweep, the other is
  unparsable or has one field of a wrong type. A message more only lengthens
  batches: what can go wrong happens between two batches. `MaxCrashes` and
  `MaxLosses` bound the sum over the stages; two deaths in `txn_dag` use up the
  retry of one stage. Symmetry in the partitions only where no liveness is
  checked.
- *Fairness.* In `CreditDag`, weak fairness of `Progress`: a step of Airflow (a
  scheduler that is up keeps scheduling, and a task polls its Glue run until it
  ends) or of the Glue run it waits for (a run ends: `timeout = 20` in
  `glue.tf`). They take turns, so one condition does for both. Nothing is
  assumed of the source, the operator or crashes. In `TxnDag`, weak fairness of
  the scheduler's steps and of the steps of the job it started; the budget of
  deaths is finite, as "in the end" presupposes.
- *Atomicity.* One Iceberg commit is one action; a read and the cached split of
  it are one action (`passed.cache()`, and Iceberg reads one snapshot).
- *Deadlock* is checked where the system never stops (`CreditJobs`), and not in
  `CreditDag`, which ends when every month is processed and the environment's
  budget is spent.
- *Stream tables* are sequences of appends, each the range of its source that it
  holds; the rows and their multiplicity follow, and the state stays small.
  Nothing in the stream deletes a row. The alert table is how much of silver it
  was computed from.
- *availableNow.* The code takes `--once`, the DAG passes `--mode availableNow`
  to the Glue jobs of a migrated deployment; the model is of that mode. A batch
  takes all that is left, since no rate limit is set.
- *Deadlock* is checked in `TxnStream` and `TxnDag` too, which never stop.
- *Engine.* `EngineFaults` selects how the engine may misbehave. The chain's
  guarantees hold for the faults reconciliation is there for ("drop",
  "duplicate", "distort", "unsound"). With "shift" and "redate" they do not hold
  (section 6).
- *Feed.* A year with every month length, day by day; loans issued almost a term
  before it, just before it and in it, a last payment in each of the first five
  months (a write-off and the thirty days after it then fit), one loan per column
  that may be missing. `ShortTerm` bounds the loans whose annuity is checked
  instalment by instalment, since powers of the rate must fit TLC's integers;
  loans over 36 months have a zero rate. Rates are of seven units to the hundred
  percent, so that a month's rate is no whole number of percents.
- *Loader and monitor.* Two dates, at most two files each, three deliveries that
  differ in contents under equal sizes, in a size and in a file; three deliveries,
  two runs, one death. `BatchSize` is one key, so that a delete takes several
  requests. The silver job takes any date at any step. The experiments' factor of a
  hundred and the tolerance of a quarter are the code's; the quarantine limit is
  40 % because periods have five rows.
- *Table.* Retention of one day and a floor of two stand for thirty and five;
  three days, four commits and four files let a snapshot age out while another
  that shares its files stays. Dead runs at most one. A data file is its
  partition and the writes whose rows it holds.
- *Producer and detection.* Files of two and three messages, a queue of two, so that
  two requests are unanswered at a time, a flush after three, at most six messages
  on the topic, and one mishap in all (`MaxMishaps`): a failed request, a timeout, a
  death or a lost checkpoint. One is what makes rows repeat or come late; with two,
  the state space is beyond TLC, and the proofs have any number. With three messages
  the periodic flush is hardly met; the proofs have any interval. Windows of three
  and two hours and counts of two and three instead of 24, 2 and 3; the band is the
  code's four fifths. Files are out of event-time order, with amounts below, at the
  foot of, at the top of and above the band, and a message the contract refuses.
- *Deadlock* is not checked in these, which stop when the calendar or the
  bounds on their environment are used up; their properties are safety and action
  properties, without fairness.

## 5. What is proved

Every theorem is of a specification and holds for all values of the constants
that satisfy the named assumptions of the modules; TLC evaluates those
assumptions in the runs. The numbers of slots, dates, rows, partitions, messages,
files, faults and deaths are arbitrary throughout, so that the bounds of section
4 play no part here.

| Module | Theorem | States |
|---|---|---|
| `CreditProofs` | `ChainSound`, `FiguresAreKnown` | the inductive invariants |
| | `TypeCorrect` | `TypeOK` |
| | `EngineInputIsSound` | `EngineInputSound` |
| | `PublicationEffective` | `PublicationIsEffective` |
| | `ChainImplementsFigure` | `ChainPublishesFigures`, the refinement |
| | `ReturnIsExposureForExposure` | `ExposureForExposure` |
| | `DatesStayApart` | `OtherDatesUndisturbed` |
| | `ScheduleIsSound` | the inductive invariant |
| | `ScheduleIsTyped` | `DagTypeOK` |
| | `EvidenceIsOnDisk` | `EvidenceOnDisk` |
| | `ReportIsOfTheDelivery` | `ReportFollowsDelivery` |
| `TxnProofs` | `BronzeIsSound`, `SilverIsSound` | the inductive invariants |
| | `BronzeLandsOnce` | `BronzeExactlyOnce` |
| | `NothingIsDropped` | `NothingDropped` |
| | `RepeatsArePaidFor` | `RepeatsOnlyOnReplay` |
| | `ScreeningIsMeaningful` | `ScreenedRowsAreMeaningful` |
| | `StreamTypeCorrect` | types of the stream, which `DagTypeOK` contains |
| | `BronzeImplementsLog` | `BronzeLandsTheLog`, the refinement |
| | `ScheduleIsStream` | the schedule implements the stream |
| | `ScheduledStreamIsSound` | the inductive invariant |
| | `StreamScheduleIsTyped` | `DagTypeOK` |
| | `ScreeningFollowsTopic` | `AlertsFollowTopic` |
| `BronzeProofs` | `LoaderIsSound` | the inductive invariant |
| | `CompletedLoadsAgree` | `CompletedLoadAgrees` |
| | `DeliveriesAreNotMixed` | `OneDeliveryAtATime` |
| | `TransfersArePaid` | `TransfersArePaidFor` |
| | `SilverIsSound` | the inductive invariant with silver and monitor |
| | `BucketHoldsDeliveries` | every object is of a delivery of its own date |
| | `LossesAreReported` | `LossIsReported` |
| | `UniformFaultsAreDrift` | `UniformFaultsShowUpAsDrift` |
| `LoanFeedProofs` | `SnapshotsFollowTheLoan` | the inductive invariant |
| | `StagesAreOrdered` | `LifecycleInOrder` |
| | `DefaultDatesStand` | `DefaultDateNeverMoves` |
| | `WriteOffsAreReported` | `WriteOffIsReported` |
| | `BalancesOnlyFall` | `BalanceFollowsPayments` |
| | `InstalmentsStayLevel` | `InstalmentsAreLevel` |
| | `FeedIsTaken` | `FeedIsAcceptable` |
| `TableHistoryProofs` | `HistoryIsSound` | the inductive invariant |
| | `ListedFilesAreThere` | `NothingDangling` |
| | `NoFileIsForgotten` | `StorageAccountedFor` |
| | `RetentionIsKept` | `PromisedHistoryKept` |
| | `ReadersAreSafe` | `ReadersKeepTheirFiles` |
| | `ReportIsTrue` | `ReportIsExact` |
| | `CompactionIsHarmless` | `CompactionKeepsContent` |
| `ProducerProofs` | `ClientIsSound` | the inductive invariant |
| | `NothingIsLostInTheClient` | `FlushedMeansWritten` |
| | `AccountsComeInOrder` | `AccountsInOrder` |
| `DetectedStreamProofs` | `BurstsAreCaught` | `BurstsAreFlagged` |
| | `AlarmsAreEarned` | `AlarmsAreDeserved` |

### The credit chain

Assumptions: `NullAssumption` (the absent value is no number, truth value or
status), `RowsAssumption` (finitely many source rows, deliveries drawn from
them), `DatesAssumption`, `FaultsAssumption`, `QuarantineLimitAssumption` (any
limit in 0..99), and for the schedule `ScheduleAssumption`.

`EngineInputSound` alone is not inductive: a publication is as
good as what the run holds in memory when it publishes. `SoundChain` adds
`RunSound`: rows that a run carries past `enforce` are `Reportable`
(`ContractMakesReportable`: the contract's rules, in three-valued logic, force
the two-valued statement, because every column they read is required), and a
run at `publish_input` has passed its assertions. `UniqueGrainMeansOnce` turns
the count comparison into "each exposure once" by a cardinality argument, and
`FitMeansNotEmpty` shows that a dataset that passes the assertions has a row, so
that `OverwritePartitions` really replaces (`OverwriteOnDateAt`). The step from
one state to the next has one case per action (`StepSound`, `SoundStep`).

The theorems about the engine boundary have a hypothesis on its faults.
`ChainImplementsFigure`, `ReturnIsExposureForExposure` and
`ReportIsOfTheDelivery` assume `EngineFaults \subseteq DetectedFaults`: the engine
may lose an exposure, return one twice, distort a figure or return a row its
contract rejects, in any run and however often. These are the faults that
reconciliation and the output contract are there for (`rwa_output_job.py:4-9`).
With the two that are left, "shift" and "redate", the statements are false
(section 6, items 6 and 7). `DatesStayApart` assumes only that the engine does
not return exposures under another date.

The core is `DetectedFaultsAreCaught`: a return under such a fault that passes
contract and `Reconciles` is the honest one. A row lost or repeated shows in the count (`EngineCounts`); a distorted figure shows in the sum
(`DistortionShows`), for which two sums over different sets of records are
compared (`SumsAgree`). `FiguresKnown` adds to `SoundChain` that an input a run
works on is one that was in force for its date; with it a publication of
the RWA output is a step of `RegulatoryFigure`, and every other action is one or
a stutter (`ChainStep`).

Under the DAG the jobs take only steps of their own specification, so
`SoundChain` is kept. `Scheduled` says that the run a task waits for is a run of
that task for the active date, and that no other run is at work.
`EvidenceWritten` is the two-commit order of the engine-input job as an
invariant. `Carried` follows a delivery from task to task: what silver holds
when its task is done, what the engine input is when its own is, and what a run
under way has in memory; the source may redeliver meanwhile, which is why
the statement is about the delivery that the silver task found.

### The stream

Assumptions: `NullAssumption`, `MaxCentsAssumption`, `TransactionsAssumption`
(payloads have the fields of the schema, and an amount is a number or absent),
`BoundsAssumption`, `RetriesAssumption`.

`Topic` says the log only grows. `SoundBronze` ties the table to
the checkpoint: `AppendsMatchCheckpoint` (an append of the current query is
behind the mark, or it is the planned batch itself), `QueriesNeverOverlap` (two
appends of one query hold disjoint offsets) and `NoGapBehindCheckpoint` (every
offset behind the mark is held). At most one append per query holds a message,
so mapping an append to its query is an injection into the lives of the
checkpoint, and `CopiesPerQuery` counts the copies by it. `SoundSilver` says the
same of silver with at-least-once in place of disjointness: `NothingBehind` and,
for the run between its two writes, `SilverPhase`. `RefusalIsSettled` is what
lets the two halves of a batch be decided at different times: whether a bronze
append holds a failing message does not change as the topic and the table grow.
`PaidFor` counts repeats: an append that holds a row is its one turn in the life
of the checkpoint, or it is covered by a death or a loss that was counted.

The refinement `BronzeImplementsLog` is for streams whose checkpoint survives
(`MaxLosses = 0`); after a loss the topic is landed again from its start, which
is what `BronzeExactlyOnce` then bounds. `Contiguous` is the invariant: the
appends follow on from each other and end where the checkpoint is, or at the
planned batch once that is written. By it the rows of a partition are what was
sent up to the last offset; that the concatenation of the appends' slices is
one slice is an induction over the number of appends (`RowsFollow`).

Under its DAG the stream takes only steps of its own (`ScheduleIsStream`), so all
of the above holds there too. `BronzeReached`, `SilverReached` and
`AlertsReached` say what a stage that succeeded has reached, and stay true as
tables grow; `InOrder` chains them: a stage's target is all that the stage before
it wrote, since no job is at work outside its task. `DagTypeOK` is not inductive
by itself: that a task is started only while there is one had to be added.

### The loader

Assumption: `LoaderAssumption` (dates and names are numbers, since directories
are taken in order; a delivery is a function on names; a request deletes at least
one key). `LoaderInvariant` joins where the run can be (`Course`), what an
upload under way will leave (`UploadsOnTrack`), what the run has dealt with
(`DealtWith`), that a partition is part of one delivery (`Whole`), and `Credit`:
a date has as many transfers as were paid for by deliveries, forced runs and
deaths, and one whose account is used up is there. `Credit` is needed for
`TransfersArePaidFor`: without it nothing says that a run that finds a partition
different had a reason to.

### The monitored bronze

Assumptions: those of the loader, `PeriodsAssumption` (periods are month ends) and
`FilesAssumption` (finitely many file names, and a file holds finitely many rows).
`FromDeliveries` says that every object under a date is a file that a delivery of
this date had under its name, not always the same delivery. Where the partition is
not torn, the loader's `Whole` makes it the same one, so that a silver run that
reads it, half emptied or half uploaded, finds part of one book (`ConformingStep`);
that is `SilverOfOne`, which stays true while the loader goes on, since deliveries
are not forgotten (`DeliveriesStay`), and while empty partitions are read, since
these replace nothing. `LossIsReported` is then arithmetic on counts: at most five
quarters of the period before were due, and of these less than three fifths are
left (`LossMoves`). `UniformFaultsShowUpAsDrift` needs that a factor on every amount
is an injection on rows which each rule of scope and contract fails to notice, and
that a sum of amounts each multiplied by a factor is multiplied by it (`SumScales`).

### The feed

Assumptions: `CalendarAssumption` (any calendar whose months have 28 to 31 days),
`MonthEndsAssumption`, `AbsentAssumption` and `ExtractAssumption`. The last is about
the extract, which the data dictionary says is cleaned before publication
(`docs/data_dictionary.md:46-47`): outcomes and grades are of the known kinds, no
payment precedes its loan, terms and amounts are in range or missing, and a rate is
any number of units or missing. `RatesAssumption`, that no rate is above a hundred
percent a year, is used by `FeedIsTaken` alone, whose contract has that limit.
Whichever columns are missing, the theorems hold; `FeedIsTaken` takes rate and amount
to be known and the term to be one the contract allows.

The first days of the months are a recursive function; that each day is in
exactly one month, and that the next day is in the same one or the first of the
next, is proved by induction over the months (`MonthOfDay`, `MonthsGoOn`). Days past
due are the days since the first of the month of the last payment
(`DaysPastDueIs`), so they rise by one a day, and with them the status moves
through its bands. `FeedState`, the inductive invariant, adds the history: a
loan that left the feed had been written off for more than thirty days, and
since no thirty-one days are without a month end (`MonthEndComes`), one of them
showed the write-off. Balances rest on the algebra of annuities: powers are a
recursive function too (`PowerUnfolds`, `PowerAdds`), from which the part left
falls with each payment (`AnnuityFalls`, `ShareFalls`). Balances are rounded to whole
units, which does not turn an order around (`RoundedGrows`) but may hide a payment
of less than a unit: that a balance falls strictly is stated, and proved, for a
month whose principal comes to a unit (`RoundedFalls`).

### The table

Assumption: `RetentionAssumption`. `HistoryInvariant` has two halves. `Course`
is about the metadata: ancestry, days that do not run backwards, and, until
somebody rolls back, one line, on which counting from the end is the same as
following parents; `YoungKept` and `FloorKept` are what expiry promises.
`FilesSound` is about storage: files of a write or a rewrite not yet committed
are on disk and in no snapshot, files about to be deleted are in none that is
listed (`FilesApart`), and a compacted file holds the rows of those it replaces
(`SameRows`). The ancestors of a snapshot are a recursive function of the
metadata; that it exists, and what it is on one line, is proved by induction
over the snapshots (`LineGrows` and what follows).

### The producer

Assumption: `ProducerAssumption` (a file is a sequence of rows with a numeric step;
the partitioner maps keys to finitely many partitions; the queue and the flush
interval are at least one). Numbering the rows by how many come earlier is a
bijection that sorts (`EarlierRowsComeFirst`, `EveryPlaceIsTaken`), so what is
published is in event time. `ClientInvariant` has `Accounted`, a message handed
to the client is on the topic or given up unless the client still holds it, and
the order: messages sent out once rise along the topic, the requests not yet
written and the queue, in that sequence (`LineRises`, `TopicRises`). A retried
message drops out of this order for good, and a rerun drops all that was sent,
which is the most that holds with several requests unanswered.

### Detection

Assumptions: those of the producer and of the stream, `StreamAssumption` (a row of a
file has the fields of the schema) and `RulesAssumption` (windows and thresholds are
at least one and a split is of two transfers or more). The composition takes only
steps of its parts (`DetectedIsProduced`, `DetectedIsStreamed`), so what is proved of
the producer and, through an instance of `TxnProofs`, of the stream holds of it
(`DetectedIsSound`): nothing else had to be proved again.

What the windowed rules find rests on matching accepted messages and rows of silver.
Once all is through, each message is in some row (`EverythingComesThrough`), so the
rows of a window are at least as many and of at least the amount
(`MessagesAreFound`), and the window breaches the thresholds the messages breach:
for velocity the window that starts where the stretch does, for structuring one of
the two windows of the grid a stretch can reach (`WindowsOf`), since splits beyond
twice `MIN_COUNT - 1` cannot be below the count in both. The other way, while no
checkpoint was lost and no silver query died, a message is in bronze once, by the
epoch check of its sink, and read from there once (`EachRowIsOnce`), so the rows of an
account without repeated messages are of different ones. They lie in the stretch
that starts at the earliest of them (`FirstIsEarliest`), so an alert's rows are no
more than what the file has (`RowsAreDeserved`). Two splits already make more than
the report, each being four fifths of it or more (`TwoInTheBand`).

### Induction

The library's induction theorems take a predicate as a parameter, which the
installed provers cannot instantiate. `Induction` states them for sets
(`EveryNumber`: a set of numbers that has 0 and with each number the next has all
of them), which is no less general, and derives them from the well-foundedness of
strict inclusion on finite sets. The same module shows that the fold by which
the community modules define a sum over a set does not depend on the order in
which members are taken (`FoldIsSum`, `OneLess`), that sums of equal values over sets that
match one to one are equal (`SumsAgree`), and that they scale (`SumScales`), keep
a sign (`SumNotNegative`) and do not fall when terms of that sign are added
(`SumOfMore`).

## 6. Where documents and code disagree

Items 1 to 4 have a run whose counterexample shows them, and an entry under
`findings`. The others were met while modelling and are read in the code.

1. An empty bronze partition on a date processed before is not "caught two
   layers later" (`contract-failures.md:133-135`): overwriting with nothing
   keeps the old silver rows, and the run republishes them as a success.
2. Not every null fault is caught per row (`platform_map.md:98`): a null
   balance makes rules unknown, not false, and the scope filter then drops the
   exposure from view.
3. The stages of the stream are not each idempotent
   (`txn_monitoring_stream.py:11-12`): silver appends a replayed batch again.
4. A settled loan may never be seen closed (`simulate_ods_snapshots.py:16-18`): it
   is closed from the month after its last payment, and its days on the feed are
   counted from the first of the month of that payment. After a month of 31 days
   none of the `RETENTION_DAYS` is left, after a shorter one no more than three.
5. A rerun does not fully "converge" (`silver_exposure_job.py:22-23`): the
   quarantine of the earlier run stays when the rerun has none
   (`silver_exposure_job.py:54`).
6. Reconciliation is not "exposure for exposure" (`rwa_output_job.py:22`): it
   compares the number of rows and the sum of EAD ("shift" in `RwaEngine`).
7. A run can disturb another date (`contract-failures.md:259-261`) if the engine
   returns another reporting date, since the partition is chosen by a column of
   its return ("redate").
8. A row in quarantine does not lead back to its message
   (`streaming-failures.md:85-87`): its partition is dropped in silver.
9. A defaulted loan without a last payment date never becomes past due and
   amortises nothing, and a settled one is closed but never leaves: the missing
   date is filled with the issue date for one purpose and with zero days for
   another (`simulate_ods_snapshots.py:66`, `:81`). A missing rate or amount makes
   a balance of zero (`:57`), which the scope filter takes for no exposure.
10. Thirty days do not cover a bad write that goes unnoticed for that long
    (`maintenance.py:12-13`): expiry looks at the age of a snapshot, and the one a
    young write replaced may be as old as one likes. What keeps it is the floor.
11. After a rollback, `expirable`'s report may differ from what expiry does, and
    fewer than `retain_last` snapshots may remain: the procedure counts the floor
    along the current line, the report over all snapshots. "Rolling forward again
    is a second rollback to that id" (`table-maintenance.md:65-66`): the procedure
    only takes ancestors.
12. A loader that dies between the delete and the first upload leaves an empty
    partition, which is item 1 for a date processed before. A partition torn
    by a delivery during its upload, with the sizes of the new one, is "present" to
    every later run that is not forced.
13. `done, sent N` (`producer.py:70`) counts messages the client gave up.
14. The checkpoint is not "the whole of the exactly-once guarantee"
    (`runbooks/streaming-failures.md:28-29`), and exactly-once does not rest
    "entirely on that checkpoint directory" (`platform_map.md:72-73`). After a
    death between the table's commit and the checkpoint's, the same batch is
    written again, and it is the Iceberg sink, which finds its query and epoch in
    the snapshot's summary, that keeps it from being there twice. The model takes
    that check from the sink (`Landed` in `TxnStream`, external); without it
    `BronzeExactlyOnce` and `BronzeLandsTheLog` fail.
15. The drift monitor does not read gold (`platform_map.md:58`): its callers, `exp05`
    and `exp06`, build their periods from silver.

A smaller one, read and not modelled: `sweep_rule.py:1` and `:15-16` say "to the
cent", and its `TOLERANCE` is one whole unit.

## 7. Limits

Only model-checked is everything temporal under fairness (`BackfillCompletes`,
`RerunRecovers`, `EveryMessageScreened`): liveness is outside the prover's reach.
Every other property of a run that holds is stated by a theorem of section 5.

Taken from how the code uses them, not from their source (external in the map):
Spark's checkpoint, the Iceberg sink's epochs, Airflow's clearing of a run,
Glue's runs, the vendor's engine beyond its stand-in; S3's operations, Iceberg's
expiry, rewrite and rollback procedures, the Kafka client and broker.

Simplified, where no property depends on it or the code has no handling to model:

- *Broker errors.* A message is lost only by the client's timeout; a permanent error
  of the broker, which would also be reported to nobody, is not there.
- *Deletes.* `delete_prefix` discards the answer of `delete_objects`
  (`load_bronze.py:37`), which may list keys that were not deleted. `DeleteBatch`
  always removes its batch.
- *Compaction.* `CommitRewrite` rewrites one partition; `rewrite_data_files` commits
  all its file groups at once, so partial progress of a run is not an outcome.
- *Reads of bronze.* The silver job scans its partition for the rows that pass, for
  those that do not and for the counts; these scans are one read, as if no object
  changed between them.
- *Airflow.* A task that dies while its Glue run goes on is not modelled: the task
  always learns what became of its run.
- *Conversions.* The casts to `decimal(6,4)` and to integer of
  `silver_exposure.py:69` keep the value: no property depends on the digits.
- *Weights.* Risk weights, RWA and capital are whether a row satisfies the output
  contract (`RwaEngine`).
- *Rules.* The drain rule is left out: it is a filter on one row, like the sweep
  rule. The red-team rows are ten fixed rows for a test.

Not modelled, with the reason, in `PROJECT.json` under `components`: watchlist
screening (three scripts that each replace their own output whole; what they
compute is a similarity of strings in an external library), `sweep.sql`, session
configuration, profiling scripts, dbt views and Terraform, which have no
behaviour of their own to check. Of the stream: snapshot expiry under a reading
query, retention of the topic, a checkpoint that outlives its tables. Of the
windowed rules: the watermark, which drops nothing in the batch they are run in.
Of maintenance: removal of orphan files, which the code does not do.

## 8. Plan

1. Core (done): `SqlLogic`, `ExposureRules`, `ContractAssertions`, `RwaEngine`,
   `CreditJobs`, `RegulatoryFigure`, `CreditDag`, `CreditProofs`.
2. Stream (done): `TxnRules`, `TxnStream`, `LandedLog`, `TxnDag`, `TxnProofs`.
3. Producer and detection (done): `Producer`, `DetectionRules`, `DetectedStream`.
4. Storage (done): `TableHistory`; `BronzeLoader`.
5. The feed and its watch (done): `LoanFeed`, `Drift`, `MonitoredBronze`.
6. Proofs of the chain, the stream, their schedules, the refinements, the loader,
   the table and the producer's client (done, section 5).
7. Proofs of the feed, of the monitored bronze, and of what the detection rules
   make of the topic (done, section 5).
