----------------------------- MODULE CreditProofs ---------------------------
(***************************************************************************)
(* Proofs about CreditJobs and CreditDag, for every set of source rows,    *)
(* deliveries, dates and run slots, every number of retries, and every     *)
(* quarantine limit below 100%.  What concerns the report assumes that the *)
(* engine commits no fault but those the job's documentation names or its  *)
(* contract looks for.  The jobs come first, then what the schedule adds.  *)
(***************************************************************************)
EXTENDS CreditDag, FiniteSetTheorems, FunctionTheorems, Induction, TLAPS

(***************************************************************************)
(* Rows: what the three-valued rules establish.                            *)
(***************************************************************************)

\* A row the contract passes has no unknown figure, and its figures fit
\* together: no rule lets a row through because its condition is Null.
LEMMA ContractMakesReportable ==
    ASSUME NEW book, NEW d, NEW r \in InputPassed(book, d)
    PROVE  Reportable(r, d)
<1>1. r \in InScope(book) /\ FailedFieldRules(r) = {} /\ FailedRowRules(r, d) = {}
  BY DEF InputPassed, SatisfiesInputContract
<1>2. \A column \in Required : r[column] # Null
  BY <1>1 DEF FailedFieldRules, IsNotNull
<1>3. /\ r.exposure_id # Null /\ r.original_amount # Null
      /\ r.outstanding_amount # Null /\ r.provision_amount # Null
      /\ r.status # Null /\ r.days_past_due # Null /\ r.default_flag # Null
  BY <1>2 DEF Required
<1>4. r.provision_amount >= 0
  <2>1. ~Violated(AtLeast(r["provision_amount"], 0))
    BY <1>1 DEF FailedFieldRules, NonNegative
  <2> QED  BY <2>1, <1>3, NullAssumption DEF Violated, AtLeast, Known
<1>5. r.status \in {"performing", "past_due", "defaulted"}
  <2>1. ~Violated(IsIn(r["status"], Allowed["status"]))
    BY <1>1 DEF FailedFieldRules, Allowed
  <2> QED  BY <2>1, <1>3 DEF Violated, IsIn, Known, Allowed
<1>6. /\ ~Violated(d \in MonthEnds)
      /\ ~Violated(OutstandingWithinOriginal(r))
      /\ ~Violated(DefaultFlagMatchesStatus(r))
      /\ ~Violated(Or(Not(Equal(r.status, "defaulted")), AtLeast(r.days_past_due, DefaultAtDpd)))
      /\ ~Violated(ProvisionWithinOutstanding(r))
      /\ ~Violated(Or(Equal(r.status, "defaulted"), Equal(r.provision_amount, 0)))
  <2> DEFINE cond == RowRuleConditions(r, d)
  <2>1. \A name \in DOMAIN cond : ~Violated(cond[name])
    BY <1>1 DEF FailedRowRules
  <2> QED  BY <2>1 DEF RowRuleConditions
<1>7. d \in MonthEnds
  BY <1>6 DEF Violated
<1>8. r.provision_amount <= r.outstanding_amount
  BY <1>6, <1>3 DEF ProvisionWithinOutstanding, AtMost, Known, Violated
<1>9. 10 * r.outstanding_amount <= 11 * r.original_amount
  BY <1>6, <1>3 DEF OutstandingWithinOriginal, Known, Violated
<1>10. r.default_flag = (r.status = "defaulted")
  BY <1>6, <1>3, NullAssumption DEF DefaultFlagMatchesStatus, Equal, Known, Violated
<1>11. ASSUME r.status = "defaulted" PROVE r.days_past_due >= DefaultAtDpd
  <2>1. Not(Equal(r.status, "defaulted")) = FALSE
    BY <1>11, <1>3, NullAssumption DEF Not, Equal, Known
  <2> SUFFICES ASSUME ~(r.days_past_due >= DefaultAtDpd) PROVE FALSE
    OBVIOUS
  <2>2. AtLeast(r.days_past_due, DefaultAtDpd) = FALSE
    BY <1>3, NullAssumption DEF AtLeast, Known, DefaultAtDpd
  <2> QED  BY <2>1, <2>2, <1>6, NullAssumption DEF Or, Known, Violated
<1>12. ASSUME r.status # "defaulted" PROVE r.provision_amount = 0
  <2>1. Equal(r.status, "defaulted") = FALSE
    BY <1>12, <1>3, NullAssumption DEF Equal, Known
  <2>2. Equal(r.provision_amount, 0) = (r.provision_amount = 0)
    BY <1>3, NullAssumption DEF Equal, Known
  <2>3. CASE Equal(r.provision_amount, 0) = FALSE
    BY <2>1, <2>3, <1>6, NullAssumption DEF Or, Known, Violated
  <2> QED  BY <2>2, <2>3
<1>13. r.status # "defaulted" => r.outstanding_amount > 0
  <2>1. Or(Above(r.outstanding_amount, 0), Equal(r.status, "defaulted")) = TRUE
    BY <1>1 DEF InScope, Kept
  <2> QED  BY <2>1, <1>3, NullAssumption DEF Or, Equal, Above, Known
<1> QED
  BY <1>2, <1>4, <1>5, <1>7, <1>8, <1>9, <1>10, <1>11, <1>12, <1>13 DEF Reportable

(***************************************************************************)
(* Sets of rows: they are finite, and what the dataset assertions, which   *)
(* only count, say about them.                                             *)
(***************************************************************************)

LEMMA ExposureRowsFinite == IsFiniteSet(ExposureRows)
<1> DEFINE f == [src \in SourceRows |-> Conform(src)]
<1>1. f \in Surjection(SourceRows, ExposureRows)
  BY Fun_IsSurj DEF ExposureRows
<1> QED  BY <1>1, FS_Surjection, RowsAssumption

\* As many rows as grain values: no exposure appears twice.
LEMMA UniqueGrainMeansOnce ==
    ASSUME NEW rows, rows \subseteq ExposureRows, UniqueGrain(rows, InputKeys(rows))
    PROVE  EachExposureOnce(rows)
<1> DEFINE f == [r \in rows |-> r.exposure_id]
<1>1. IsFiniteSet(rows)
  BY ExposureRowsFinite, FS_Subset
<1>2. f \in Surjection(rows, InputKeys(rows))
  BY Fun_IsSurj DEF InputKeys
<1>3. f \in Injection(rows, InputKeys(rows))
  BY <1>1, <1>2, FS_Surjection DEF UniqueGrain
<1>4. \A a, b \in rows : f[a] = f[b] => a = b
  BY <1>3, Fun_InjectionProperties
<1> QED  BY <1>4 DEF EachExposureOnce

\* A dataset that passes the assertions has a row that passed: arrival counts
\* quarantined rows too, but then their share would be above any limit.
LEMMA FitMeansNotEmpty ==
    ASSUME NEW r, r.quarantined \subseteq ExposureRows, InputFit(r)
    PROVE  r.passed # {}
<1> SUFFICES ASSUME r.passed = {} PROVE FALSE
  OBVIOUS
<1> DEFINE q == Cardinality(r.quarantined)
<1>1. q \in Nat
  BY ExposureRowsFinite, FS_Subset, FS_CardinalityType
<1>2. Cardinality(r.passed) = 0
  BY FS_EmptySet
<1>3. q >= 1 /\ q * 100 <= MaxQuarantinePct * q
  BY <1>1, <1>2 DEF InputFit, DatasetFit, Arrived, ShareWithin, MinRows
<1>4. MaxQuarantinePct * q <= 99 * q
  BY <1>1, QuarantineLimitAssumption
<1> HIDE DEF q
<1> QED  BY <1>1, <1>3, <1>4, QuarantineLimitAssumption

(***************************************************************************)
(* Tables.                                                                 *)
(***************************************************************************)

LEMMA OverwriteOnDate ==
    ASSUME NEW R, NEW table \in [Dates -> SUBSET R], NEW rows \in SUBSET R, NEW date
    PROVE  OverwritePartitions(table, OnDate(rows, date)) \in [Dates -> SUBSET R]
BY DEF OverwritePartitions, OnDate

LEMMA OverwriteOnDateAt ==
    ASSUME NEW table, NEW rows, NEW date, NEW d \in Dates
    PROVE  OverwritePartitions(table, OnDate(rows, date))[d] =
              IF d = date /\ rows # {} THEN rows ELSE table[d]
BY DEF OverwritePartitions, OnDate

LEMMA OverwriteByDate ==
    ASSUME NEW R, NEW table \in [Dates -> SUBSET R], NEW rows \in SUBSET R
    PROVE  OverwritePartitions(table, ByReportingDate(rows)) \in [Dates -> SUBSET R]
BY DEF OverwritePartitions, ByReportingDate

(***************************************************************************)
(* Runs.                                                                   *)
(***************************************************************************)

LEMMA OneRunChanges ==
    ASSUME NEW old \in [Slots -> RunRecords], \A t \in Slots : RunSound(old[t]),
           NEW s \in Slots, NEW r \in RunRecords, RunSound(r),
           NEW new, new = [old EXCEPT ![s] = r]
    PROVE  new \in [Slots -> RunRecords] /\ \A t \in Slots : RunSound(new[t])
OBVIOUS

LEMMA OverIsSound ==
    ASSUME NEW job \in Jobs, NEW date \in Dates \cup {0}, NEW pc \in Ended
    PROVE  Over(job, date, pc) \in RunRecords /\ RunSound(Over(job, date, pc))
BY DEF Over, Run, RunRecords, RunSound, Ended, Working, SilverSteps, InputSteps, OutputSteps

\* A run that ends, however it ends.
LEMMA EndRunSound ==
    ASSUME TypeOK, \A t \in Slots : RunSound(run[t]),
           NEW s \in Slots, NEW pc \in Ended, EndRun(s, pc)
    PROVE  run' \in [Slots -> RunRecords] /\ \A t \in Slots : RunSound(run'[t])
<1>1. run[s].job \in Jobs /\ run[s].date \in Dates \cup {0}
  BY DEF TypeOK, RunRecords
<1>2. run' = [run EXCEPT ![s] = Over(run[s].job, run[s].date, pc)]
  BY DEF EndRun, TypeOK
<1> HIDE DEF Over
<1> QED  BY <1>1, <1>2, OverIsSound, OneRunChanges DEF TypeOK

\* A run that goes on to another step of the same job.
LEMMA GotoSound ==
    ASSUME TypeOK, \A t \in Slots : RunSound(run[t]),
           NEW s \in Slots, NEW pc \in Working, Goto(s, pc),
           RunSound([run[s] EXCEPT !.pc = pc])
    PROVE  run' \in [Slots -> RunRecords] /\ \A t \in Slots : RunSound(run'[t])
<1>1. [run[s] EXCEPT !.pc = pc] \in RunRecords
  BY DEF TypeOK, RunRecords
<1>2. run' = [run EXCEPT ![s] = [run[s] EXCEPT !.pc = pc]]
  BY DEF Goto, TypeOK
<1> QED  BY <1>1, <1>2, OneRunChanges DEF TypeOK

(***************************************************************************)
(* SoundChain is inductive.                                                *)
(***************************************************************************)

LEMMA SoundInit == Init => SoundChain
<1> SUFFICES ASSUME Init PROVE SoundChain
  OBVIOUS
<1>1. TypeOK
  BY OverIsSound DEF Init, TypeOK, Empty, Jobs, Ended
<1>2. EngineInputSound
  BY DEF Init, Empty, EngineInputSound, PublishableInput, EachExposureOnce
<1>3. \A s \in Slots : RunSound(run[s])
  BY OverIsSound DEF Init, Jobs, Ended
<1> QED  BY <1>1, <1>2, <1>3 DEF SoundChain

\* A started run takes its next step.
LEMMA StepSound ==
    ASSUME SoundChain, NEW s \in Slots, Step(s)
    PROVE  SoundChain'
<1> USE DEF tables, silverTables, goldTables, rwaTables
<1>1. TypeOK /\ EngineInputSound /\ \A t \in Slots : RunSound(run[t])
  BY DEF SoundChain
<1>2. run[s] \in RunRecords /\ RunSound(run[s])
  BY <1>1 DEF TypeOK
<1>3. InputRows \subseteq ExposureRows
  BY DEF InputRows
<1> DEFINE RunsSound == run \in [Slots -> RunRecords] /\ \A t \in Slots : RunSound(run[t])
<1>4. CASE WriteSilver(s)
  <2>1. silver' \in [Dates -> SUBSET ExposureRows]
    <3>1. run[s].passed \in SUBSET ExposureRows
      BY <1>2, <1>4 DEF WriteSilver, At, RunSound, SilverSteps
    <3>2. silver' = OverwritePartitions(silver, OnDate(run[s].passed, run[s].date))
      BY <1>4 DEF WriteSilver
    <3>3. silver \in [Dates -> SUBSET ExposureRows]
      BY <1>1 DEF TypeOK
    <3> QED  BY <3>1, <3>2, <3>3, OverwriteOnDate
  <2>2. RunsSound'
    <3>1. CASE run[s].quarantined = {}
      BY <1>1, <1>4, <3>1, EndRunSound DEF WriteSilver, Ended
    <3>2. CASE run[s].quarantined # {}
      <4>1. RunSound([run[s] EXCEPT !.pc = "write_silver_quarantine"])
        BY <1>2, <1>4 DEF WriteSilver, At, RunSound, RunRecords, Working, SilverSteps,
                          InputSteps, OutputSteps
      <4> QED  BY <1>1, <1>4, <3>2, <4>1, GotoSound DEF WriteSilver, Working, SilverSteps
    <3> QED  BY <3>1, <3>2
  <2> QED  BY <1>1, <1>4, <2>1, <2>2 DEF SoundChain, TypeOK, WriteSilver, EngineInputSound
<1>5. CASE WriteSilverQuarantine(s)
  <2>1. silverQuarantine' \in [Dates -> SUBSET ExposureRows]
    <3>1. run[s].quarantined \in SUBSET ExposureRows
      BY <1>2, <1>5 DEF WriteSilverQuarantine, At, RunSound, SilverSteps
    <3> QED  BY <1>1, <1>5, <3>1, OverwriteOnDate DEF TypeOK, WriteSilverQuarantine
  <2>2. RunsSound'
    BY <1>1, <1>5, EndRunSound DEF WriteSilverQuarantine, Ended
  <2> QED  BY <1>1, <1>5, <2>1, <2>2
           DEF SoundChain, TypeOK, WriteSilverQuarantine, EngineInputSound
<1>6. CASE WriteInputQuarantine(s)
  <2>1. goldQuarantine' \in [Dates -> SUBSET ExposureRows]
    <3>1. run[s].quarantined \in SUBSET ExposureRows
      BY <1>2, <1>6 DEF WriteInputQuarantine, At, RunSound, InputSteps
    <3> QED  BY <1>1, <1>6, <3>1, OverwriteOnDate DEF TypeOK, WriteInputQuarantine
  <2>2. RunsSound'
    <3>1. RunSound([run[s] EXCEPT !.pc = "assert_input"])
      BY <1>2, <1>6 DEF WriteInputQuarantine, At, RunSound, RunRecords, Working, SilverSteps,
                        InputSteps, OutputSteps
    <3> QED  BY <1>1, <1>6, <3>1, GotoSound DEF WriteInputQuarantine, Working, InputSteps
  <2> QED  BY <1>1, <1>6, <2>1, <2>2
           DEF SoundChain, TypeOK, WriteInputQuarantine, EngineInputSound
<1>7. CASE AssertInput(s)
  <2>1. RunsSound'
    <3>1. CASE InputFit(run[s])
      <4>1. InputFit([run[s] EXCEPT !.pc = "publish_input"])
        BY <1>2, <3>1 DEF InputFit, RunRecords
      <4>2. RunSound([run[s] EXCEPT !.pc = "publish_input"])
        BY <1>2, <1>7, <4>1 DEF AssertInput, At, RunSound, RunRecords, Working, SilverSteps,
                                InputSteps, OutputSteps
      <4> QED  BY <1>1, <1>7, <3>1, <4>2, GotoSound DEF AssertInput, Working, InputSteps
    <3>2. CASE ~InputFit(run[s])
      BY <1>1, <1>7, <3>2, EndRunSound DEF AssertInput, Ended
    <3> QED  BY <3>1, <3>2
  <2> QED  BY <1>1, <1>7, <2>1 DEF SoundChain, TypeOK, AssertInput, EngineInputSound
<1>8. CASE PublishInput(s)
  <2>1. /\ run[s].passed \in SUBSET InputRows /\ run[s].quarantined \subseteq ExposureRows
        /\ \A x \in run[s].passed : Reportable(x, run[s].date)
        /\ InputFit(run[s])
    BY <1>2, <1>8 DEF PublishInput, At, RunSound, InputSteps
  <2>2. /\ gold' \in [Dates -> SUBSET InputRows]
        /\ \A d \in Dates : gold'[d] = IF d = run[s].date /\ run[s].passed # {}
                                       THEN run[s].passed ELSE gold[d]
    <3>1. gold' = OverwritePartitions(gold, OnDate(run[s].passed, run[s].date))
      BY <1>8 DEF PublishInput
    <3>2. gold \in [Dates -> SUBSET InputRows]
      BY <1>1 DEF TypeOK
    <3> HIDE DEF tables, silverTables, goldTables, rwaTables
    <3>3. gold' \in [Dates -> SUBSET InputRows]
      BY <2>1, <3>1, <3>2, OverwriteOnDate
    <3> QED  BY <3>1, <3>3, OverwriteOnDateAt
  <2>3. published' \in [Dates -> SUBSET SUBSET InputRows]
    BY <1>1, <1>2, <1>8, <2>2 DEF TypeOK, PublishInput, RunSound, At, Working, InputSteps
  <2>4. EachExposureOnce(run[s].passed)
    BY <1>3, <2>1, UniqueGrainMeansOnce DEF InputFit, DatasetFit
  <2>5. EngineInputSound'
    BY <1>1, <2>1, <2>2, <2>4 DEF EngineInputSound, PublishableInput
  <2>6. RunsSound'
    BY <1>1, <1>8, EndRunSound DEF PublishInput, Ended
  <2> QED  BY <1>1, <1>8, <2>2, <2>3, <2>5, <2>6 DEF SoundChain, TypeOK, PublishInput
<1>9. CASE WriteOutputQuarantine(s)
  <2>1. rwaQuarantine' \in [Dates -> SUBSET OutputRows]
    <3>1. run[s].quarantined \in SUBSET OutputRows
      BY <1>2, <1>9 DEF WriteOutputQuarantine, At, RunSound, OutputSteps
    <3> QED  BY <1>1, <1>9, <3>1, OverwriteByDate DEF TypeOK, WriteOutputQuarantine
  <2>2. RunsSound'
    <3>1. RunSound([run[s] EXCEPT !.pc = "assert_output"])
      BY <1>2, <1>9 DEF WriteOutputQuarantine, At, RunSound, RunRecords, Working, SilverSteps,
                        InputSteps, OutputSteps
    <3> QED  BY <1>1, <1>9, <3>1, GotoSound DEF WriteOutputQuarantine, Working, OutputSteps
  <2> QED  BY <1>1, <1>9, <2>1, <2>2
           DEF SoundChain, TypeOK, WriteOutputQuarantine, EngineInputSound
<1>10. CASE AssertOutput(s)
  <2>1. RunsSound'
    <3>1. CASE OutputFit(run[s])
      <4>1. RunSound([run[s] EXCEPT !.pc = "reconcile"])
        BY <1>2, <1>10 DEF AssertOutput, At, RunSound, RunRecords, Working, SilverSteps,
                           InputSteps, OutputSteps
      <4> QED  BY <1>1, <1>10, <3>1, <4>1, GotoSound DEF AssertOutput, Working, OutputSteps
    <3>2. CASE ~OutputFit(run[s])
      BY <1>1, <1>10, <3>2, EndRunSound DEF AssertOutput, Ended
    <3> QED  BY <3>1, <3>2
  <2> QED  BY <1>1, <1>10, <2>1 DEF SoundChain, TypeOK, AssertOutput, EngineInputSound
<1>11. CASE Reconcile(s)
  <2>1. RunsSound'
    <3>1. CASE Reconciles(run[s].input, run[s].passed)
      <4>1. RunSound([run[s] EXCEPT !.pc = "publish_output"])
        BY <1>2, <1>11 DEF Reconcile, At, RunSound, RunRecords, Working, SilverSteps,
                           InputSteps, OutputSteps
      <4> QED  BY <1>1, <1>11, <3>1, <4>1, GotoSound DEF Reconcile, Working, OutputSteps
    <3>2. CASE ~Reconciles(run[s].input, run[s].passed)
      BY <1>1, <1>11, <3>2, EndRunSound DEF Reconcile, Ended
    <3> QED  BY <3>1, <3>2
  <2> QED  BY <1>1, <1>11, <2>1 DEF SoundChain, TypeOK, Reconcile, EngineInputSound
<1>12. CASE PublishOutput(s)
  <2>1. rwa' \in [Dates -> SUBSET OutputRows]
    <3>1. run[s].passed \in SUBSET OutputRows
      BY <1>2, <1>12 DEF PublishOutput, At, RunSound, OutputSteps
    <3> QED  BY <1>1, <1>12, <3>1, OverwriteByDate DEF TypeOK, PublishOutput
  <2>2. RunsSound'
    BY <1>1, <1>12, EndRunSound DEF PublishOutput, Ended
  <2> QED  BY <1>1, <1>12, <2>1, <2>2
           DEF SoundChain, TypeOK, PublishOutput, EngineInputSound
<1> QED
  BY <1>4, <1>5, <1>6, <1>7, <1>8, <1>9, <1>10, <1>11, <1>12 DEF Step

LEMMA SoundStep == SoundChain /\ [Next]_vars => SoundChain'
<1> SUFFICES ASSUME SoundChain, [Next]_vars PROVE SoundChain'
  OBVIOUS
<1> USE DEF tables, silverTables, goldTables, rwaTables
<1>1. TypeOK /\ EngineInputSound /\ \A s \in Slots : RunSound(run[s])
  BY DEF SoundChain
<1>2. ASSUME NEW d \in Dates, NEW rows \in Deliveries, Deliver(d, rows) PROVE SoundChain'
  <2>1. TypeOK'
    BY <1>1, <1>2 DEF TypeOK, Deliver
  <2> QED  BY <1>1, <1>2, <2>1 DEF SoundChain, Deliver, EngineInputSound
<1>3. ASSUME NEW s \in Slots, NEW d \in Dates, StartSilver(s, d) PROVE SoundChain'
  <2> DEFINE rows == {Conform(src) : src \in bronze[d]}
             r == Run("silver_exposure", d, "write_silver", {},
                      SilverPassed(rows), SilverQuarantined(rows))
  <2>1. rows \subseteq ExposureRows
    BY <1>1, <1>3, RowsAssumption DEF TypeOK, StartSilver, ExposureRows
  <2>2. SilverPassed(rows) \subseteq ExposureRows /\ SilverQuarantined(rows) \subseteq ExposureRows
    BY <2>1 DEF SilverPassed, SilverQuarantined
  <2>3. r \in RunRecords /\ RunSound(r)
    <3> HIDE DEF rows
    <3> QED  BY <2>2 DEF Run, RunRecords, RunSound, Jobs, Ended, Working, SilverSteps,
                         InputSteps, OutputSteps
  <2>4. run' = [run EXCEPT ![s] = r]
    BY <1>3 DEF StartSilver
  <2>5. run' \in [Slots -> RunRecords] /\ \A t \in Slots : RunSound(run'[t])
    <3> HIDE DEF r
    <3> QED  BY <1>1, <2>3, <2>4, OneRunChanges DEF TypeOK
  <2> QED  BY <1>1, <1>3, <2>5 DEF SoundChain, TypeOK, StartSilver, EngineInputSound
<1>4. ASSUME NEW s \in Slots, NEW d \in Dates, StartSilverWithoutBronze(s, d) PROVE SoundChain'
  <2>1. run' \in [Slots -> RunRecords] /\ \A t \in Slots : RunSound(run'[t])
    <3> DEFINE r == Over("silver_exposure", d, "failed")
    <3>1. r \in RunRecords /\ RunSound(r)
      BY OverIsSound DEF Jobs, Ended
    <3>2. run' = [run EXCEPT ![s] = r]
      BY <1>4 DEF StartSilverWithoutBronze
    <3> HIDE DEF r
    <3> QED  BY <1>1, <3>1, <3>2, OneRunChanges DEF TypeOK
  <2> QED  BY <1>1, <1>4, <2>1 DEF SoundChain, TypeOK, StartSilverWithoutBronze, EngineInputSound
<1>5. ASSUME NEW s \in Slots, NEW d \in Dates, StartInput(s, d) PROVE SoundChain'
  <2> DEFINE passed      == InputPassed(silver[d], d)
             quarantined == InputQuarantined(silver[d], d)
             pc == IF quarantined = {} THEN "assert_input" ELSE "write_input_quarantine"
             r  == Run("gold_engine_input", d, pc, {}, passed, quarantined)
  <2>1. passed \subseteq InputRows /\ quarantined \subseteq ExposureRows
    BY <1>1 DEF TypeOK, InputPassed, InputQuarantined, InScope, InputRows
  <2>2. InputRows \subseteq ExposureRows
    BY DEF InputRows
  <2>3. \A x \in passed : Reportable(x, d)
    BY ContractMakesReportable
  <2>4. r \in RunRecords /\ RunSound(r)
    <3> HIDE DEF passed, quarantined
    <3> QED  BY <2>1, <2>2, <2>3 DEF Run, RunRecords, RunSound, Jobs, Ended, Working,
                                     SilverSteps, InputSteps, OutputSteps
  <2>5. run' = [run EXCEPT ![s] = r]
    BY <1>5 DEF StartInput
  <2>6. run' \in [Slots -> RunRecords] /\ \A t \in Slots : RunSound(run'[t])
    <3> HIDE DEF r
    <3> QED  BY <1>1, <2>4, <2>5, OneRunChanges DEF TypeOK
  <2> QED  BY <1>1, <1>5, <2>6 DEF SoundChain, TypeOK, StartInput, EngineInputSound
<1>6. ASSUME NEW s \in Slots, NEW d \in Dates, StartOutput(s, d) PROVE SoundChain'
  <2>1. PICK out \in EngineReturns(gold[d], d) :
          run' = [run EXCEPT ![s] =
                     Run("rwa_output", d,
                         IF OutputQuarantined(out) = {} THEN "assert_output"
                                                        ELSE "write_output_quarantine",
                         gold[d], OutputPassed(out), OutputQuarantined(out))]
    BY <1>6 DEF StartOutput
  <2> DEFINE r == Run("rwa_output", d,
                      IF OutputQuarantined(out) = {} THEN "assert_output"
                                                     ELSE "write_output_quarantine",
                      gold[d], OutputPassed(out), OutputQuarantined(out))
  <2>2. gold[d] \subseteq InputRows
    BY <1>1 DEF TypeOK
  <2>3. out \subseteq OutputRows
    BY <2>1, <2>2 DEF OutputRows
  <2>4. OutputPassed(out) \subseteq OutputRows /\ OutputQuarantined(out) \subseteq OutputRows
    BY <2>3 DEF OutputPassed, OutputQuarantined
  <2>5. r \in RunRecords /\ RunSound(r)
    BY <2>2, <2>4 DEF Run, RunRecords, RunSound, Jobs, Ended, Working,
                      SilverSteps, InputSteps, OutputSteps
  <2>6. run' \in [Slots -> RunRecords] /\ \A t \in Slots : RunSound(run'[t])
    <3>1. run' = [run EXCEPT ![s] = r]
      BY <2>1
    <3> HIDE DEF r
    <3> QED  BY <1>1, <2>5, <3>1, OneRunChanges DEF TypeOK
  <2> QED  BY <1>1, <1>6, <2>6 DEF SoundChain, TypeOK, StartOutput, EngineInputSound
<1>7. ASSUME NEW s \in Slots, Step(s) PROVE SoundChain'
  BY <1>7, StepSound
<1>8. ASSUME NEW s \in Slots, Crash(s) PROVE SoundChain'
  <2>1. run' \in [Slots -> RunRecords] /\ \A t \in Slots : RunSound(run'[t])
    BY <1>1, <1>8, EndRunSound DEF Crash, Ended
  <2> QED  BY <1>1, <1>8, <2>1 DEF SoundChain, TypeOK, Crash, EngineInputSound
<1>9. CASE UNCHANGED vars
  BY <1>1, <1>9 DEF SoundChain, TypeOK, EngineInputSound, vars
<1> QED  BY <1>2, <1>3, <1>4, <1>5, <1>6, <1>7, <1>8, <1>9 DEF Next, Start

\* The inductive invariant behind the theorems about the engine input.
THEOREM ChainSound == Spec => []SoundChain
<1> QED  BY SoundInit, SoundStep, PTL DEF Spec

\* Type correctness of the three jobs and the tables they share.
THEOREM TypeCorrect == Spec => []TypeOK
<1>1. SoundChain => TypeOK
  BY DEF SoundChain
<1> QED  BY <1>1, ChainSound, PTL

\* Whatever is delivered and however runs interleave, die and are repeated, an
\* engine input holds each exposure once and only exposures whose figures are
\* known, fit together and carry capital.
THEOREM EngineInputIsSound == Spec => []EngineInputSound
<1>1. SoundChain => EngineInputSound
  BY DEF SoundChain
<1> QED  BY <1>1, ChainSound, PTL

\* A successful run of the engine-input job has put in force what it validated:
\* it cannot succeed on a dataset whose overwrite would replace nothing.
THEOREM PublicationEffective == Spec => PublicationIsEffective
<1> DEFINE Effective ==
      \A s \in Slots :
          run[s].job = "gold_engine_input" /\ run[s].pc \in Working
             /\ run'[s].pc = "succeeded"
          => gold'[run[s].date] = run[s].passed /\ run[s].passed # {}
<1>1. SoundChain /\ [Next]_vars => [Effective]_vars
  <2> SUFFICES ASSUME SoundChain, Next, NEW s \in Slots,
                      run[s].job = "gold_engine_input", run[s].pc \in Working,
                      run'[s].pc = "succeeded"
               PROVE  gold'[run[s].date] = run[s].passed /\ run[s].passed # {}
    BY DEF Effective
  <2>1. TypeOK /\ run[s] \in RunRecords /\ RunSound(run[s])
    BY DEF SoundChain, TypeOK
  <2>2. "succeeded" \notin Working /\ Ended \cap Working = {}
    BY DEF Ended, Working, SilverSteps, InputSteps, OutputSteps
  <2>3. ASSUME NEW t \in Slots, NEW d \in Dates, Start(t, d) PROVE FALSE
    <3>1. t # s
      BY <2>2, <2>3 DEF Start, StartSilver, StartSilverWithoutBronze, StartInput, StartOutput, Free
    <3>2. run'[s] = run[s]
      BY <2>1, <2>3, <3>1 DEF Start, StartSilver, StartSilverWithoutBronze, StartInput,
                              StartOutput, TypeOK
    <3> QED  BY <2>2, <3>2
  <2>4. ASSUME NEW t \in Slots, Step(t) PROVE t = s /\ PublishInput(s)
    <3>1. t = s
      BY <2>1, <2>2, <2>4 DEF Step, WriteSilver, WriteSilverQuarantine, WriteInputQuarantine,
            AssertInput, PublishInput, WriteOutputQuarantine, AssertOutput, Reconcile,
            PublishOutput, Goto, EndRun, TypeOK
    <3>2. run[s].pc \in InputSteps
      BY <2>1 DEF RunSound, Working
    <3>3. ~(WriteInputQuarantine(s) \/ AssertInput(s))
      BY <2>1 DEF WriteInputQuarantine, AssertInput, Goto, EndRun, TypeOK, RunRecords, Over, Run
    <3> QED  BY <2>4, <3>1, <3>2, <3>3 DEF Step, InputSteps, At, WriteSilver,
                WriteSilverQuarantine, WriteOutputQuarantine, AssertOutput, Reconcile, PublishOutput
  <2>5. CASE PublishInput(s)
    <3>1. run[s].date \in Dates /\ run[s].passed \in SUBSET InputRows
      BY <2>1, <2>5 DEF RunSound, PublishInput, At, Working, InputSteps
    <3>2. run[s].passed # {}
      BY <2>1, <2>5, FitMeansNotEmpty DEF RunSound, PublishInput, At, InputSteps
    <3>3. gold' = OverwritePartitions(gold, OnDate(run[s].passed, run[s].date))
      BY <2>5 DEF PublishInput
    <3>4. gold'[run[s].date] = run[s].passed
      BY <3>1, <3>2, <3>3, OverwriteOnDateAt
    <3> QED  BY <3>2, <3>4
  <2>6. ASSUME NEW t \in Slots, Crash(t) PROVE FALSE
    BY <2>1, <2>2, <2>6 DEF Crash, EndRun, TypeOK, RunRecords, Over, Run
  <2>7. ASSUME NEW d \in Dates, NEW rows \in Deliveries, Deliver(d, rows) PROVE FALSE
    BY <2>2, <2>7 DEF Deliver
  <2> QED  BY <2>3, <2>4, <2>5, <2>6, <2>7 DEF Next
<1> QED  BY <1>1, ChainSound, PTL DEF Spec, PublicationIsEffective

-----------------------------------------------------------------------------
(***************************************************************************)
(* What the actions of the jobs do to a run.                               *)
(***************************************************************************)
Verdicts == {"succeeded", "halted", "failed"}

LEMMA StepNames ==
    /\ Working \cap Ended = {} /\ Verdicts \subseteq Ended
    /\ Verdicts \cap Working = {}
    /\ SilverSteps \cap InputSteps = {} /\ InputSteps \cap OutputSteps = {}
    /\ SilverSteps \cap OutputSteps = {}
    /\ Working = SilverSteps \cup InputSteps \cup OutputSteps
BY DEF Working, Ended, Verdicts, SilverSteps, InputSteps, OutputSteps

LEMMA GotoDoes ==
    ASSUME TypeOK, NEW s \in Slots, NEW pc, Goto(s, pc)
    PROVE  /\ run'[s].pc = pc /\ run'[s].date = run[s].date /\ run'[s].job = run[s].job
           /\ run'[s].input = run[s].input /\ run'[s].passed = run[s].passed
           /\ run'[s].quarantined = run[s].quarantined
           /\ \A t \in Slots \ {s} : run'[t] = run[t]
BY DEF TypeOK, RunRecords, Goto

LEMMA EndRunDoes ==
    ASSUME TypeOK, NEW s \in Slots, NEW pc, EndRun(s, pc)
    PROVE  /\ run'[s].pc = pc /\ run'[s].date = run[s].date
           /\ \A t \in Slots \ {s} : run'[t] = run[t]
BY DEF TypeOK, RunRecords, EndRun, Over, Run

\* A step of a run: which one it can be, and where it leads.
LEMMA StepDoes ==
    ASSUME TypeOK, NEW s \in Slots, Step(s)
    PROVE  /\ run[s].pc \in Working /\ run'[s].date = run[s].date
           /\ \A t \in Slots \ {s} : run'[t] = run[t]
           /\ run[s].pc \in SilverSteps => run'[s].pc \in SilverSteps \cup Verdicts
           /\ run[s].pc \in InputSteps  => run'[s].pc \in InputSteps \cup Verdicts
           /\ run[s].pc \in OutputSteps => run'[s].pc \in OutputSteps \cup Verdicts
           /\ bronze' = bronze
<1> USE StepNames DEF SilverSteps, InputSteps, OutputSteps, Verdicts, At
<1>1. CASE WriteSilver(s)
  BY <1>1, GotoDoes, EndRunDoes DEF WriteSilver
<1>2. CASE WriteSilverQuarantine(s)
  BY <1>2, EndRunDoes DEF WriteSilverQuarantine
<1>3. CASE WriteInputQuarantine(s)
  BY <1>3, GotoDoes DEF WriteInputQuarantine
<1>4. CASE AssertInput(s)
  BY <1>4, GotoDoes, EndRunDoes DEF AssertInput
<1>5. CASE PublishInput(s)
  BY <1>5, EndRunDoes DEF PublishInput
<1>6. CASE WriteOutputQuarantine(s)
  BY <1>6, GotoDoes DEF WriteOutputQuarantine
<1>7. CASE AssertOutput(s)
  BY <1>7, GotoDoes, EndRunDoes DEF AssertOutput
<1>8. CASE Reconcile(s)
  BY <1>8, GotoDoes, EndRunDoes DEF Reconcile
<1>9. CASE PublishOutput(s)
  BY <1>9, EndRunDoes DEF PublishOutput
<1> QED  BY <1>1, <1>2, <1>3, <1>4, <1>5, <1>6, <1>7, <1>8, <1>9 DEF Step

\* The four ways for a run to start: where it starts, and what it holds.
LEMMA RunReplaced ==
    ASSUME TypeOK, NEW s \in Slots, NEW r, run' = [run EXCEPT ![s] = r]
    PROVE  run'[s] = r /\ \A t \in Slots \ {s} : run'[t] = run[t]
BY DEF TypeOK

LEMMA SilverStarts ==
    ASSUME TypeOK, NEW s \in Slots, NEW d \in Dates, StartSilver(s, d)
    PROVE  LET rows == {Conform(src) : src \in bronze[d]}
           IN  /\ run'[s].pc = "write_silver" /\ run'[s].date = d
               /\ run'[s].passed = SilverPassed(rows)
               /\ \A t \in Slots \ {s} : run'[t] = run[t]
               /\ UNCHANGED <<bronze, tables>>
<1> DEFINE rows == {Conform(src) : src \in bronze[d]}
           r == Run("silver_exposure", d, "write_silver", {}, SilverPassed(rows),
                    SilverQuarantined(rows))
<1>1. run' = [run EXCEPT ![s] = r] /\ UNCHANGED <<bronze, tables>>
  BY DEF StartSilver
<1>2. r.pc = "write_silver" /\ r.date = d /\ r.passed = SilverPassed(rows)
  BY DEF Run
<1> HIDE DEF r
<1> QED  BY <1>1, <1>2, RunReplaced

LEMMA SilverCannotStart ==
    ASSUME TypeOK, NEW s \in Slots, NEW d \in Dates, StartSilverWithoutBronze(s, d)
    PROVE  /\ run'[s].pc = "failed" /\ run'[s].date = d
           /\ \A t \in Slots \ {s} : run'[t] = run[t]
           /\ UNCHANGED <<bronze, tables>>
<1> DEFINE r == Over("silver_exposure", d, "failed")
<1>1. run' = [run EXCEPT ![s] = r] /\ UNCHANGED <<bronze, tables>>
  BY DEF StartSilverWithoutBronze
<1>2. r.pc = "failed" /\ r.date = d
  BY DEF Over, Run
<1> HIDE DEF r
<1> QED  BY <1>1, <1>2, RunReplaced

LEMMA InputStarts ==
    ASSUME TypeOK, NEW s \in Slots, NEW d \in Dates, StartInput(s, d)
    PROVE  /\ run'[s].pc = IF run'[s].quarantined = {} THEN "assert_input"
                                                       ELSE "write_input_quarantine"
           /\ run'[s].date = d
           /\ run'[s].passed = InputPassed(silver[d], d)
           /\ \A t \in Slots \ {s} : run'[t] = run[t]
           /\ UNCHANGED <<bronze, tables>>
<1> DEFINE passed      == InputPassed(silver[d], d)
           quarantined == InputQuarantined(silver[d], d)
           r == Run("gold_engine_input", d,
                    IF quarantined = {} THEN "assert_input" ELSE "write_input_quarantine",
                    {}, passed, quarantined)
<1>1. run' = [run EXCEPT ![s] = r] /\ UNCHANGED <<bronze, tables>>
  BY DEF StartInput
<1>2. /\ r.pc = IF r.quarantined = {} THEN "assert_input" ELSE "write_input_quarantine"
      /\ r.date = d /\ r.passed = passed
  BY DEF Run
<1> HIDE DEF r
<1> QED  BY <1>1, <1>2, RunReplaced

LEMMA OutputStarts ==
    ASSUME TypeOK, NEW s \in Slots, NEW d \in Dates, StartOutput(s, d)
    PROVE  /\ run'[s].pc \in {"assert_output", "write_output_quarantine"}
           /\ run'[s].date = d /\ run'[s].input = gold[d]
           /\ \E out \in EngineReturns(gold[d], d) : run'[s].passed = OutputPassed(out)
           /\ \E out \in EngineReturns(gold[d], d) : run'[s].quarantined = OutputQuarantined(out)
           /\ \A t \in Slots \ {s} : run'[t] = run[t]
           /\ UNCHANGED <<bronze, tables>>
<1>1. PICK out \in EngineReturns(gold[d], d) :
          run' = [run EXCEPT ![s] =
                     Run("rwa_output", d,
                         IF OutputQuarantined(out) = {} THEN "assert_output"
                                                        ELSE "write_output_quarantine",
                         gold[d], OutputPassed(out), OutputQuarantined(out))]
  BY DEF StartOutput
<1> DEFINE r == Run("rwa_output", d,
                    IF OutputQuarantined(out) = {} THEN "assert_output"
                                                   ELSE "write_output_quarantine",
                    gold[d], OutputPassed(out), OutputQuarantined(out))
<1>2. /\ r.pc \in {"assert_output", "write_output_quarantine"}
      /\ r.date = d /\ r.input = gold[d] /\ r.passed = OutputPassed(out)
      /\ r.quarantined = OutputQuarantined(out)
  BY DEF Run
<1>3. run' = [run EXCEPT ![s] = r]
  BY <1>1
<1>4. UNCHANGED <<bronze, tables>>
  BY DEF StartOutput
<1> HIDE DEF r
<1> QED  BY <1>2, <1>3, <1>4, RunReplaced

-----------------------------------------------------------------------------
(***************************************************************************)
(* The engine boundary: an engine that loses an exposure, returns one      *)
(* twice, distorts a figure or gets a row wrong that its contract rejects  *)
(* does not pass reconciliation.                                           *)
(***************************************************************************)
DetectedFaults == {"drop", "duplicate", "distort", "unsound"}

LEMMA EngineCounts ==
    ASSUME NEW d, NEW input \in SUBSET InputRows, EachExposureOnce(input)
    PROVE  /\ IsFiniteSet(RunEngine(input, d))
           /\ Cardinality(RunEngine(input, d)) = Cardinality(input)
<1> DEFINE f == [r \in input |-> OutputRow(r, d)]
<1>1. IsFiniteSet(input)
  <2>1. input \in SUBSET ExposureRows
    BY DEF InputRows
  <2> QED  BY <2>1, ExposureRowsFinite, FS_Subset
<1>2. \A r \in input : OutputRow(r, d).exposure_id = r.exposure_id
  BY DEF OutputRow
<1>3. f \in Surjection(input, RunEngine(input, d))
  BY Fun_IsSurj DEF RunEngine
<1>4. \A a, b \in input : f[a] = f[b] => a = b
  BY <1>2 DEF EachExposureOnce
<1>5. f \in Injection(input, RunEngine(input, d))
  <2>1. f \in [input -> RunEngine(input, d)]
    BY DEF RunEngine
  <2> HIDE DEF f
  <2> QED  BY <1>4, <2>1, Fun_IsInj
<1> HIDE DEF f
<1> QED  BY <1>1, <1>3, <1>5, FS_Surjection

\* The engine's own figures satisfy its contract.
LEMMA EadIsAmount ==
    ASSUME NEW d, NEW input \in SUBSET InputRows, NEW r \in input, Reportable(r, d)
    PROVE  Ead(r) \in Int /\ Ead(r) >= 0
<1>1. PICK src \in SourceRows : r = Conform(src)
  BY DEF InputRows, ExposureRows
<1>2. r.outstanding_amount \in Int /\ r.provision_amount \in Int
  <2>1. /\ r.outstanding_amount # Null /\ r.provision_amount # Null
    BY DEF Reportable, Required
  <2>2. /\ r.outstanding_amount = Money(src.outstanding_amount)
        /\ r.provision_amount = Money(src.provision_amount)
    BY <1>1 DEF Conform
  <2> QED  BY <2>1, <2>2 DEF Money
<1>3. 0 <= r.provision_amount /\ r.provision_amount <= r.outstanding_amount
  BY DEF Reportable
<1>4. CASE r.status = "defaulted"
  <2> DEFINE net == r.outstanding_amount - r.provision_amount
  <2>1. net \in Int /\ net >= 0
    BY <1>2, <1>3
  <2> HIDE DEF net
  <2>2. Max({net, 0}) = net
    BY <2>1 DEF Max
  <2> QED  BY <1>4, <2>1, <2>2 DEF Ead, net
<1>5. CASE r.status # "defaulted"
  BY <1>2, <1>3, <1>5 DEF Ead
<1> QED  BY <1>4, <1>5

LEMMA HonestRowsPass ==
    ASSUME NEW d, NEW input \in SUBSET InputRows, \A r \in input : Reportable(r, d)
    PROVE  OutputPassed(RunEngine(input, d)) = RunEngine(input, d)
<1> SUFFICES ASSUME NEW r \in input PROVE SatisfiesOutputContract(OutputRow(r, d))
  BY DEF OutputPassed, RunEngine
<1> QED  BY EadIsAmount DEF SatisfiesOutputContract, OutputRow

\* The sums reconciliation compares, as sums that may be taken in any order.
LEMMA SentIsSum ==
    ASSUME NEW input, IsFiniteSet(input), \A r \in input : Ead(r) \in Int
    PROVE  \E sum : /\ IsSum(sum, [r \in input |-> Ead(r)], input)
                    /\ SentEad(input) = sum[input]
<1> DEFINE value == [r \in input |-> Ead(r)]
           Fold(sum) == sum = [s \in SUBSET input |->
                          IF s = {} THEN 0
                          ELSE LET x == CHOOSE x \in s : TRUE IN Ead(x) + sum[s \ {x}]]
<1>1. \A sum : Fold(sum) <=> IsFold(sum, value, input)
  <2>1. \A sum : \A s \in SUBSET input :
           AddsOne(s, sum, value) =
              IF s = {} THEN 0 ELSE LET x == CHOOSE x \in s : TRUE IN Ead(x) + sum[s \ {x}]
    <3> SUFFICES ASSUME NEW s \in SUBSET input, s # {}
                 PROVE  value[CHOOSE x \in s : TRUE] = Ead(CHOOSE x \in s : TRUE)
      BY DEF AddsOne
    <3>1. (CHOOSE x \in s : TRUE) \in s
      OBVIOUS
    <3> QED  BY <3>1
  <2> SUFFICES ASSUME NEW sum PROVE Fold(sum) <=> IsFold(sum, value, input)
    OBVIOUS
  <2>2. [s \in SUBSET input |-> AddsOne(s, sum, value)]
         = [s \in SUBSET input |->
              IF s = {} THEN 0 ELSE LET x == CHOOSE x \in s : TRUE IN Ead(x) + sum[s \ {x}]]
    BY <2>1, Zenon
  <2> QED  BY <2>2, Zenon DEF IsFold
<1>2. SentEad(input) = (CHOOSE sum : Fold(sum))[input]
  BY DEF SentEad, MapThenSumSet, MapThenFoldSet
<1>3. value \in [input -> Int]
  OBVIOUS
<1> HIDE DEF Fold, value
<1>4. PICK sum : IsFold(sum, value, input)
  BY FoldExists
<1>5. Fold(CHOOSE f : Fold(f))
  BY <1>1, <1>4
<1>6. IsSum((CHOOSE f : Fold(f)), value, input)
  BY <1>1, <1>3, <1>5, FoldIsSum
<1> QED  BY <1>2, <1>6 DEF value

LEMMA ReturnedIsSum ==
    ASSUME NEW out, IsFiniteSet(out), \A o \in out : o.ead \in Int
    PROVE  \E sum : /\ IsSum(sum, [o \in out |-> o.ead], out)
                    /\ ReturnedEad(out) = sum[out]
<1> DEFINE value == [o \in out |-> o.ead]
           Fold(sum) == sum = [s \in SUBSET out |->
                          IF s = {} THEN 0
                          ELSE LET x == CHOOSE x \in s : TRUE IN x.ead + sum[s \ {x}]]
<1>1. \A sum : Fold(sum) <=> IsFold(sum, value, out)
  <2>1. \A sum : \A s \in SUBSET out :
           AddsOne(s, sum, value) =
              IF s = {} THEN 0 ELSE LET x == CHOOSE x \in s : TRUE IN x.ead + sum[s \ {x}]
    <3> SUFFICES ASSUME NEW s \in SUBSET out, s # {}
                 PROVE  value[CHOOSE x \in s : TRUE] = (CHOOSE x \in s : TRUE).ead
      BY DEF AddsOne
    <3>1. (CHOOSE x \in s : TRUE) \in s
      OBVIOUS
    <3> QED  BY <3>1
  <2> SUFFICES ASSUME NEW sum PROVE Fold(sum) <=> IsFold(sum, value, out)
    OBVIOUS
  <2>2. [s \in SUBSET out |-> AddsOne(s, sum, value)]
         = [s \in SUBSET out |->
              IF s = {} THEN 0 ELSE LET x == CHOOSE x \in s : TRUE IN x.ead + sum[s \ {x}]]
    BY <2>1, Zenon
  <2> QED  BY <2>2, Zenon DEF IsFold
<1>2. ReturnedEad(out) = (CHOOSE sum : Fold(sum))[out]
  BY DEF ReturnedEad, MapThenSumSet, MapThenFoldSet
<1>3. value \in [out -> Int]
  OBVIOUS
<1> HIDE DEF Fold, value
<1>4. PICK sum : IsFold(sum, value, out)
  BY FoldExists
<1>5. Fold(CHOOSE f : Fold(f))
  BY <1>1, <1>4
<1>6. IsSum((CHOOSE f : Fold(f)), value, out)
  BY <1>1, <1>3, <1>5, FoldIsSum
<1> QED  BY <1>2, <1>6 DEF value

\* A figure that is two off moves the total by two, whatever the other figures.
LEMMA DistortionShows ==
    ASSUME NEW d, NEW input \in SUBSET InputRows, PublishableInput(input, d),
           NEW r0 \in input, NEW p, p \notin RunEngine(input, d), p.ead = Ead(r0) + 2,
           NEW out, out = (RunEngine(input, d) \ {OutputRow(r0, d)}) \cup {p}
    PROVE  SentEad(input) - ReturnedEad(out) = 0 - 2
<1> DEFINE honest == RunEngine(input, d)
           D      == input \ {r0}
           h      == [r \in D |-> OutputRow(r, d)]
           value  == [r \in input |-> Ead(r)]
           worth  == [o \in out |-> o.ead]
<1>1. IsFiniteSet(input) /\ IsFiniteSet(out)
  <2>1. input \in SUBSET ExposureRows
    BY DEF InputRows
  <2>2. IsFiniteSet(input)
    BY <2>1, ExposureRowsFinite, FS_Subset
  <2>3. IsFiniteSet(honest)
    BY EngineCounts DEF PublishableInput
  <2> HIDE DEF honest
  <2>4. IsFiniteSet(honest \ {OutputRow(r0, d)})
    BY <2>3, FS_Subset
  <2> QED  BY <2>2, <2>4, FS_AddElement DEF honest
<1>2. \A r \in input : Ead(r) \in Int
  BY EadIsAmount DEF PublishableInput
<1>3. \A r \in input : OutputRow(r, d).ead = Ead(r) /\ OutputRow(r, d).exposure_id = r.exposure_id
  BY DEF OutputRow
<1>4. \A q, r \in input : OutputRow(q, d) = OutputRow(r, d) => q = r
  BY <1>3 DEF PublishableInput, EachExposureOnce
<1>5. honest \ {OutputRow(r0, d)} = {h[r] : r \in D}
  BY <1>4 DEF RunEngine
<1>6. \A o \in out : o.ead \in Int
  <2>1. \A o \in honest : \E r \in input : o = OutputRow(r, d)
    BY DEF RunEngine
  <2> HIDE DEF honest
  <2> QED  BY <1>2, <1>3, <2>1 DEF honest
<1>7. PICK sum : IsSum(sum, value, input) /\ SentEad(input) = sum[input]
  BY <1>1, <1>2, SentIsSum
<1>8. PICK total : IsSum(total, worth, out) /\ ReturnedEad(out) = total[out]
  BY <1>1, <1>6, ReturnedIsSum
<1>9. sum[D] = total[out \ {p}]
  <2>1. out \ {p} = {h[r] : r \in D}
    BY <1>5
  <2>2. h \in [D -> out] /\ D \in SUBSET input
    BY <1>5
  <2>3. \A q, r \in D : h[q] = h[r] => q = r
    BY <1>4
  <2>4. \A r \in D : worth[h[r]] = value[r]
    BY <1>3, <2>2
  <2> HIDE DEF h, D, value, worth
  <2>5. sum[D] = total[{h[r] : r \in D}]
    BY <1>1, <1>7, <1>8, <2>2, <2>3, <2>4, SumsAgree
  <2> QED  BY <2>1, <2>5
<1>10. sum[input] = Ead(r0) + sum[D]
  BY <1>7 DEF IsSum
<1>11. total[out] = Ead(r0) + 2 + total[out \ {p}]
  <2>1. p \in out /\ out \in SUBSET out
    OBVIOUS
  <2>2. worth[p] = Ead(r0) + 2
    BY <2>1
  <2> HIDE DEF worth
  <2>3. total[out] = worth[p] + total[out \ {p}]
    BY <1>8, <2>1 DEF IsSum
  <2> QED  BY <2>2, <2>3
<1>12. sum[D] \in Int /\ Ead(r0) \in Int
  BY <1>2, <1>7 DEF IsSum
<1> HIDE DEF D, h, value, worth, honest
<1> QED  BY <1>7, <1>8, <1>9, <1>10, <1>11, <1>12

\* What passes reconciliation is what the engine was to return.
LEMMA DetectedFaultsAreCaught ==
    ASSUME EngineFaults \subseteq DetectedFaults,
           NEW d, NEW input \in SUBSET InputRows, PublishableInput(input, d),
           NEW out \in EngineReturns(input, d), Reconciles(input, OutputPassed(out))
    PROVE  OutputPassed(out) = RunEngine(input, d)
<1> DEFINE honest == RunEngine(input, d)
<1>0. /\ Cardinality(input) = Cardinality(OutputPassed(out))
      /\ SentEad(input) - ReturnedEad(OutputPassed(out)) \in -1..1
  BY DEF Reconciles
<1>1. /\ IsFiniteSet(honest) /\ Cardinality(honest) = Cardinality(input)
      /\ OutputPassed(honest) = honest
  BY EngineCounts, HonestRowsPass DEF PublishableInput
<1>2. Cardinality(honest) \in Nat
  BY <1>1, FS_CardinalityType
<1>3. \A o \in honest : SatisfiesOutputContract(o) /\ o.ead >= 0 /\ o.sound
  BY <1>1 DEF OutputPassed, SatisfiesOutputContract
<1>4. \A o \in honest : \E r : o = OutputRow(r, d)
  BY DEF RunEngine
<1>5. out = honest \/ \E fault \in DetectedFaults : out \in Misreturns(fault, honest)
  BY DEF EngineReturns
<1> HIDE DEF honest
<1>6. CASE out = honest
  BY <1>1, <1>6 DEF honest
<1>7. CASE out \in Misreturns("drop", honest)
  <2>1. PICK o \in honest : out = honest \ {o}
    BY <1>7 DEF Misreturns
  <2>2. OutputPassed(out) = honest \ {o}
    BY <1>3, <2>1 DEF OutputPassed
  <2>3. Cardinality(honest \ {o}) = Cardinality(honest) - 1
    BY <1>1, FS_RemoveElement
  <2> QED  BY <1>0, <1>1, <1>2, <2>2, <2>3
<1>8. CASE out \in Misreturns("duplicate", honest)
  <2>1. PICK o \in honest : out = honest \cup {[o EXCEPT !.copy = @ + 1]}
    BY <1>8 DEF Misreturns
  <2> DEFINE p == [o EXCEPT !.copy = @ + 1]
  <2>2. p.ead = o.ead /\ p.sound = o.sound
    <3>1. PICK r : o = OutputRow(r, d)
      BY <1>4
    <3> QED  BY <3>1 DEF OutputRow
  <2>3. out = honest \cup {p}
    BY <2>1
  <2> HIDE DEF p
  <2>4. OutputPassed(out) = honest \cup {p}
    BY <1>3, <2>2, <2>3 DEF OutputPassed, SatisfiesOutputContract
  <2>5. Cardinality(honest \cup {p}) = IF p \in honest THEN Cardinality(honest)
                                                      ELSE Cardinality(honest) + 1
    BY <1>1, FS_AddElement
  <2>6. p \in honest
    BY <1>0, <1>1, <1>2, <2>4, <2>5
  <2> QED  BY <2>4, <2>6 DEF honest
<1>9. CASE out \in Misreturns("unsound", honest)
  <2>1. PICK o \in honest : out = Swap(honest, o, [o EXCEPT !.sound = FALSE])
    BY <1>9 DEF Misreturns
  <2> DEFINE p == [o EXCEPT !.sound = FALSE]
  <2>2. p.sound = FALSE
    <3>1. PICK r : o = OutputRow(r, d)
      BY <1>4
    <3> QED  BY <3>1 DEF OutputRow
  <2>3. out = (honest \ {o}) \cup {p}
    BY <2>1 DEF Swap
  <2> HIDE DEF p
  <2>4. OutputPassed(out) = honest \ {o}
    BY <1>3, <2>2, <2>3 DEF OutputPassed, SatisfiesOutputContract
  <2>5. Cardinality(honest \ {o}) = Cardinality(honest) - 1
    BY <1>1, FS_RemoveElement
  <2> QED  BY <1>0, <1>1, <1>2, <2>4, <2>5
<1>10. CASE out \in Misreturns("distort", honest)
  <2>1. PICK o \in honest : out = Swap(honest, o, [o EXCEPT !.ead = @ + 2])
    BY <1>10 DEF Misreturns
  <2>2. PICK r0 \in input : o = OutputRow(r0, d)
    BY DEF honest, RunEngine
  <2> DEFINE p == [o EXCEPT !.ead = @ + 2]
  <2>3. /\ p.ead = Ead(r0) + 2 /\ p.sound /\ p.exposure_id = r0.exposure_id
        /\ o.ead = Ead(r0)
    BY <2>2 DEF OutputRow
  <2>4. Ead(r0) \in Int /\ Ead(r0) >= 0
    BY EadIsAmount DEF PublishableInput
  <2>5. out = (honest \ {o}) \cup {p}
    BY <2>1 DEF Swap
  <2> HIDE DEF p
  <2>6. p \notin honest
    <3> SUFFICES ASSUME NEW r \in input, p = OutputRow(r, d) PROVE FALSE
      BY DEF honest, RunEngine
    <3>1. r = r0
      BY <2>3 DEF OutputRow, PublishableInput, EachExposureOnce
    <3> QED  BY <2>2, <2>3, <2>4, <3>1
  <2>7. OutputPassed(out) = out
    BY <1>3, <2>3, <2>4, <2>5 DEF OutputPassed, SatisfiesOutputContract
  <2>8. SentEad(input) - ReturnedEad(out) = 0 - 2
    BY <2>2, <2>3, <2>5, <2>6, DistortionShows DEF honest
  <2> QED  BY <1>0, <2>7, <2>8
<1> QED  BY <1>5, <1>6, <1>7, <1>8, <1>9, <1>10 DEF DetectedFaults

\* Publishing the engine's figures for a date replaces that date's report.
LEMMA PublicationReplaces ==
    ASSUME NEW d \in Dates, NEW input, input # {}
    PROVE  LET after == OverwritePartitions(rwa, ByReportingDate(RunEngine(input, d)))
           IN  after[d] = RunEngine(input, d) /\ \A e \in Dates \ {d} : after[e] = rwa[e]
<1> DEFINE rows == RunEngine(input, d)
<1>1. rows # {} /\ \A o \in rows : o.reporting_date = d
  <2>1. PICK r \in input : OutputRow(r, d) \in rows
    BY DEF RunEngine
  <2>2. \A q \in input : OutputRow(q, d).reporting_date = d
    BY DEF OutputRow
  <2>3. \A o \in rows : \E q \in input : o = OutputRow(q, d)
    BY DEF RunEngine
  <2> HIDE DEF rows
  <2> QED  BY <2>1, <2>2, <2>3
<1> HIDE DEF rows
<1>2. \A e \in Dates : ByReportingDate(rows)[e] = IF e = d THEN rows ELSE {}
  BY <1>1 DEF ByReportingDate
<1>3. \A e \in Dates : OverwritePartitions(rwa, ByReportingDate(rows))[e] =
                           IF e = d THEN rows ELSE rwa[e]
  BY <1>1, <1>2 DEF OverwritePartitions
<1> QED  BY <1>3 DEF rows

-----------------------------------------------------------------------------
(***************************************************************************)
(* The chain implements RegulatoryFigure.                                  *)
(***************************************************************************)

\* What a run of the RWA job holds was published for its date, and is what the
\* engine made of it.
ReturnHeld(r, record) ==
    /\ r.pc \in OutputSteps =>
          /\ PublishableInput(r.input, r.date)
          /\ r.input # {} => r.input \in record[r.date]
          /\ \E out \in EngineReturns(r.input, r.date) : r.passed = OutputPassed(out)
    /\ r.pc = "publish_output" => Reconciles(r.input, r.passed)

FiguresKnown ==
    /\ \A d \in Dates : gold[d] # {} => gold[d] \in published[d]
    /\ \A s \in Slots : ReturnHeld(run[s], published)

\* Publishing an engine input: what was validated replaces what was in force.
LEMMA InputPublished ==
    ASSUME SoundChain, NEW s \in Slots, PublishInput(s)
    PROVE  LET d == run[s].date IN
           /\ d \in Dates /\ run[s].passed \in SUBSET InputRows /\ run[s].passed # {}
           /\ PublishableInput(run[s].passed, d)
           /\ gold' = [gold EXCEPT ![d] = run[s].passed]
           /\ published' = [published EXCEPT ![d] = @ \cup {run[s].passed}]
<1>1. TypeOK /\ RunSound(run[s]) /\ run[s].pc = "publish_input"
  BY DEF SoundChain, PublishInput, At
<1>2. /\ run[s].date \in Dates /\ InputFit(run[s])
      /\ run[s].passed \subseteq InputRows /\ run[s].quarantined \subseteq ExposureRows
      /\ \A x \in run[s].passed : Reportable(x, run[s].date)
  BY <1>1 DEF RunSound, Working, InputSteps
<1>3. run[s].passed # {}
  BY <1>2, FitMeansNotEmpty
<1>4. EachExposureOnce(run[s].passed)
  <2>1. InputRows \subseteq ExposureRows
    BY DEF InputRows
  <2> QED  BY <1>2, <2>1, UniqueGrainMeansOnce DEF InputFit, DatasetFit
<1>5. gold' = [gold EXCEPT ![run[s].date] = run[s].passed]
  <2>1. gold' = OverwritePartitions(gold, OnDate(run[s].passed, run[s].date))
    BY DEF PublishInput
  <2>2. \A d \in Dates : gold'[d] = IF d = run[s].date THEN run[s].passed ELSE gold[d]
    BY <1>3, <2>1, OverwriteOnDateAt
  <2>3. gold' = [d \in Dates |-> gold'[d]]
    BY <2>1 DEF OverwritePartitions
  <2> QED  BY <1>1, <1>2, <2>2, <2>3 DEF TypeOK
<1>6. published' = [published EXCEPT ![run[s].date] = @ \cup {run[s].passed}]
  BY <1>1, <1>2, <1>5 DEF PublishInput, TypeOK
<1> QED  BY <1>2, <1>3, <1>4, <1>5, <1>6 DEF PublishableInput

\* What is on record stays on record.
LEMMA PublishedGrows ==
    ASSUME SoundChain, [Next]_vars
    PROVE  \A d \in Dates : published[d] \subseteq published'[d]
<1> USE DEF tables, silverTables, goldTables, rwaTables
<1>1. ASSUME NEW s \in Slots, PublishInput(s)
      PROVE  \A d \in Dates : published[d] \subseteq published'[d]
  BY <1>1, InputPublished DEF SoundChain, TypeOK
<1>2. ASSUME NEW s \in Slots, Step(s), ~PublishInput(s) PROVE published' = published
  BY <1>2 DEF Step, WriteSilver, WriteSilverQuarantine, WriteInputQuarantine, AssertInput,
              WriteOutputQuarantine, AssertOutput, Reconcile, PublishOutput
<1>3. ASSUME \/ \E s \in Slots : Crash(s)
             \/ \E s \in Slots, d \in Dates : Start(s, d)
             \/ \E d \in Dates, rows \in Deliveries : Deliver(d, rows)
             \/ UNCHANGED vars
      PROVE  published' = published
  BY <1>3 DEF Crash, Start, StartSilver, StartSilverWithoutBronze, StartInput, StartOutput,
              Deliver, vars
<1> QED  BY <1>1, <1>2, <1>3 DEF Next

\* A run goes on with what it holds, or lets go of it.
LEMMA HeldOn ==
    ASSUME NEW old, NEW new, NEW before, NEW after,
           ReturnHeld(old, before), old.pc \in OutputSteps => old.date \in Dates,
           new.pc \in OutputSteps => /\ old.pc \in OutputSteps
                                     /\ new.date = old.date /\ new.input = old.input
                                     /\ new.passed = old.passed,
           new.pc = "publish_output" => Reconciles(old.input, old.passed),
           \A d \in Dates : before[d] \subseteq after[d]
    PROVE  ReturnHeld(new, after)
<1>1. "publish_output" \in OutputSteps
  BY DEF OutputSteps
<1> QED  BY <1>1 DEF ReturnHeld

LEMMA FiguresKnownInit == Init => FiguresKnown
BY DEF Init, Empty, FiguresKnown, ReturnHeld, Over, Run, OutputSteps

LEMMA FiguresKnownStep ==
    ASSUME SoundChain, FiguresKnown, [Next]_vars
    PROVE  FiguresKnown'
<1> USE DEF tables, silverTables, goldTables, rwaTables
<1>1. /\ TypeOK /\ EngineInputSound /\ \A t \in Slots : RunSound(run[t])
      /\ \A t \in Slots : ReturnHeld(run[t], published)
      /\ \A d \in Dates : gold[d] # {} => gold[d] \in published[d]
      /\ \A d \in Dates : published[d] \subseteq published'[d]
  BY PublishedGrows DEF SoundChain, FiguresKnown
<1>2. \A t \in Slots : run[t].pc \in OutputSteps => run[t].date \in Dates
  BY <1>1 DEF RunSound, Working
<1>3. "publish_output" \in OutputSteps
  BY DEF OutputSteps
<1>4. \A t \in Slots : run'[t] = run[t] => ReturnHeld(run'[t], published')
  BY <1>1, <1>2, HeldOn DEF ReturnHeld
<1>5. \A t \in Slots : run'[t].pc \notin OutputSteps => ReturnHeld(run'[t], published')
  BY <1>3 DEF ReturnHeld
<1>6. ASSUME NEW s \in Slots, Step(s) PROVE FiguresKnown'
  <2>1. \A t \in Slots \ {s} : run'[t] = run[t]
    BY <1>1, <1>6, StepDoes
  <2>2. ReturnHeld(run'[s], published')
    <3>1. CASE run[s].pc \in OutputSteps
      <4>1. ~(WriteSilver(s) \/ WriteSilverQuarantine(s) \/ WriteInputQuarantine(s)
                \/ AssertInput(s) \/ PublishInput(s))
        BY <3>1 DEF OutputSteps, At, WriteSilver, WriteSilverQuarantine, WriteInputQuarantine,
                    AssertInput, PublishInput
      <4>2. CASE WriteOutputQuarantine(s)
        BY <1>1, <1>2, <3>1, <4>2, GotoDoes, HeldOn DEF WriteOutputQuarantine
      <4>3. CASE AssertOutput(s) /\ OutputFit(run[s])
        BY <1>1, <1>2, <3>1, <4>3, GotoDoes, HeldOn DEF AssertOutput
      <4>4. CASE AssertOutput(s) /\ ~OutputFit(run[s])
        BY <1>1, <1>5, <4>4, EndRunDoes DEF AssertOutput, OutputSteps
      <4>5. CASE Reconcile(s) /\ Reconciles(run[s].input, run[s].passed)
        BY <1>1, <1>2, <3>1, <4>5, GotoDoes, HeldOn DEF Reconcile
      <4>6. CASE Reconcile(s) /\ ~Reconciles(run[s].input, run[s].passed)
        BY <1>1, <1>5, <4>6, EndRunDoes DEF Reconcile, OutputSteps
      <4>7. CASE PublishOutput(s)
        BY <1>1, <1>5, <4>7, EndRunDoes DEF PublishOutput, OutputSteps
      <4> QED  BY <1>6, <4>1, <4>2, <4>3, <4>4, <4>5, <4>6, <4>7 DEF Step
    <3>2. CASE run[s].pc \notin OutputSteps
      BY <1>1, <1>5, <1>6, <3>2, StepDoes, StepNames DEF Verdicts, OutputSteps, InputSteps,
                                                        SilverSteps
    <3> QED  BY <3>1, <3>2
  <2>3. \A d \in Dates : gold'[d] # {} => gold'[d] \in published'[d]
    <3>1. CASE PublishInput(s)
      BY <1>1, <3>1, InputPublished DEF TypeOK
    <3>2. CASE ~PublishInput(s)
      <4>1. gold' = gold /\ published' = published
        BY <1>6, <3>2 DEF Step, WriteSilver, WriteSilverQuarantine, WriteInputQuarantine,
             AssertInput, WriteOutputQuarantine, AssertOutput, Reconcile, PublishOutput
      <4> QED  BY <1>1, <4>1
    <3> QED  BY <3>1, <3>2
  <2> QED  BY <1>4, <2>1, <2>2, <2>3 DEF FiguresKnown
<1>7. ASSUME NEW s \in Slots, NEW d \in Dates, StartOutput(s, d) PROVE FiguresKnown'
  <2>1. /\ run'[s].date = d /\ run'[s].input = gold[d]
        /\ run'[s].pc # "publish_output"
        /\ \E out \in EngineReturns(gold[d], d) : run'[s].passed = OutputPassed(out)
        /\ \A t \in Slots \ {s} : run'[t] = run[t]
        /\ gold' = gold /\ published' = published
    BY <1>1, <1>7, OutputStarts
  <2>2. ReturnHeld(run'[s], published')
    BY <1>1, <2>1 DEF ReturnHeld, EngineInputSound
  <2> QED  BY <1>1, <1>4, <2>1, <2>2 DEF FiguresKnown
<1>8. ASSUME NEW s \in Slots, NEW d \in Dates,
             StartSilver(s, d) \/ StartSilverWithoutBronze(s, d) \/ StartInput(s, d)
      PROVE  FiguresKnown'
  <2>1. run'[s].pc \notin OutputSteps /\ \A t \in Slots \ {s} : run'[t] = run[t]
    BY <1>1, <1>8, SilverStarts, SilverCannotStart, InputStarts DEF OutputSteps
  <2>2. gold' = gold /\ published' = published
    BY <1>8 DEF StartSilver, StartSilverWithoutBronze, StartInput
  <2> QED  BY <1>1, <1>4, <1>5, <2>1, <2>2 DEF FiguresKnown
<1>9. ASSUME NEW s \in Slots, Crash(s) PROVE FiguresKnown'
  <2>1. run'[s].pc \notin OutputSteps /\ \A t \in Slots \ {s} : run'[t] = run[t]
    BY <1>1, <1>9, EndRunDoes DEF Crash, OutputSteps
  <2>2. gold' = gold /\ published' = published
    BY <1>9 DEF Crash
  <2> QED  BY <1>1, <1>4, <1>5, <2>1, <2>2 DEF FiguresKnown
<1>10. ASSUME \/ \E d \in Dates, rows \in Deliveries : Deliver(d, rows)
              \/ UNCHANGED vars
       PROVE  FiguresKnown'
  BY <1>1, <1>4, <1>10 DEF Deliver, vars, FiguresKnown
<1> QED  BY <1>6, <1>7, <1>8, <1>9, <1>10 DEF Next, Start

\* What a run holds when it publishes is the engine's honest calculation.
LEMMA HeldIsHonest ==
    ASSUME EngineFaults \subseteq DetectedFaults, SoundChain, FiguresKnown,
           NEW s \in Slots, run[s].pc \in OutputSteps, Reconciles(run[s].input, run[s].passed)
    PROVE  run[s].passed = RunEngine(run[s].input, run[s].date)
<1>1. /\ PublishableInput(run[s].input, run[s].date) /\ run[s].input \in SUBSET InputRows
      /\ \E out \in EngineReturns(run[s].input, run[s].date) : run[s].passed = OutputPassed(out)
  BY DEF FiguresKnown, ReturnHeld, SoundChain, TypeOK, RunRecords
<1> QED  BY <1>1, DetectedFaultsAreCaught

\* The step from one state to the next is one of the figure's, or changes
\* nothing it speaks of.
LEMMA ChainStep ==
    ASSUME EngineFaults \subseteq DetectedFaults, SoundChain, FiguresKnown, [Next]_vars
    PROVE  [Figure!Next]_<<gold, published, rwa>>
<1> USE DEF tables, silverTables, goldTables, rwaTables
<1>1. TypeOK
  BY DEF SoundChain
<1>2. ASSUME NEW s \in Slots, PublishInput(s) PROVE Figure!Next
  <2>1. PICK d \in Dates : d = run[s].date
    BY <1>2, InputPublished
  <2>2. rwa' = rwa
    BY <1>2 DEF PublishInput
  <2>3. Figure!Publish(d)
    BY <1>2, <2>1, <2>2, InputPublished DEF Figure!Publish
  <2> QED  BY <2>3 DEF Figure!Next
<1>3. ASSUME NEW s \in Slots, PublishOutput(s)
      PROVE  Figure!Next \/ UNCHANGED <<gold, published, rwa>>
  <2>1. run[s].pc = "publish_output" /\ run[s].pc \in OutputSteps
    BY <1>3 DEF PublishOutput, At, OutputSteps
  <2>2. PICK d \in Dates : d = run[s].date
    BY <2>1 DEF SoundChain, RunSound, Working
  <2>3. PICK input : input = run[s].input
    OBVIOUS
  <2>4. run[s].passed = RunEngine(input, d)
    BY <2>1, <2>2, <2>3, HeldIsHonest DEF FiguresKnown, ReturnHeld
  <2>5. /\ rwa' = OverwritePartitions(rwa, ByReportingDate(RunEngine(input, d)))
        /\ gold' = gold /\ published' = published
    BY <1>3, <2>4 DEF PublishOutput
  <2>6. rwa \in [Dates -> SUBSET OutputRows]
    BY <1>1 DEF TypeOK
  <2>7. rwa' = [e \in Dates |-> rwa'[e]]
    BY <2>5 DEF OverwritePartitions
  <2>8. CASE input # {}
    <3>1. rwa'[d] = RunEngine(input, d) /\ \A e \in Dates \ {d} : rwa'[e] = rwa[e]
      BY <2>5, <2>8, PublicationReplaces
    <3>2. rwa' = [rwa EXCEPT ![d] = RunEngine(input, d)]
      BY <2>6, <2>7, <3>1
    <3>3. input \in published[d]
      BY <2>1, <2>2, <2>3, <2>8 DEF FiguresKnown, ReturnHeld
    <3> QED  BY <2>5, <3>2, <3>3 DEF Figure!Next, Figure!Report
  <2>9. CASE input = {}
    <3>1. \A e \in Dates : rwa'[e] = rwa[e]
      BY <2>5, <2>9 DEF OverwritePartitions, ByReportingDate, RunEngine
    <3>2. rwa' = rwa
      BY <2>6, <2>7, <3>1
    <3> QED  BY <2>5, <3>2
  <2> QED  BY <2>8, <2>9
<1>4. ASSUME NEW s \in Slots, Step(s), ~PublishInput(s), ~PublishOutput(s)
      PROVE  UNCHANGED <<gold, published, rwa>>
  BY <1>4 DEF Step, WriteSilver, WriteSilverQuarantine, WriteInputQuarantine, AssertInput,
              WriteOutputQuarantine, AssertOutput, Reconcile
<1>5. ASSUME \/ \E s \in Slots : Crash(s)
             \/ \E s \in Slots, d \in Dates : Start(s, d)
             \/ \E d \in Dates, rows \in Deliveries : Deliver(d, rows)
             \/ UNCHANGED vars
      PROVE  UNCHANGED <<gold, published, rwa>>
  BY <1>5 DEF Crash, Start, StartSilver, StartSilverWithoutBronze, StartInput, StartOutput,
              Deliver, vars
<1> QED  BY <1>2, <1>3, <1>4, <1>5 DEF Next

\* The invariant behind the refinement: a run publishes what it validated, and
\* reports on what was published.
THEOREM FiguresAreKnown == Spec => [](SoundChain /\ FiguresKnown)
<1>1. Init => SoundChain /\ FiguresKnown
  BY SoundInit, FiguresKnownInit
<1>2. SoundChain /\ FiguresKnown /\ [Next]_vars => (SoundChain /\ FiguresKnown)'
  BY SoundStep, FiguresKnownStep
<1> QED  BY <1>1, <1>2, PTL DEF Spec

\* The chain implements the abstract promise: a figure is replaced whole by a
\* publishable one, a report by the honest calculation of a published figure,
\* whichever of the faults the job's documentation names the engine commits.
THEOREM ChainImplementsFigure ==
    ASSUME EngineFaults \subseteq DetectedFaults
    PROVE  Spec => ChainPublishesFigures
<1>1. Init => Figure!Init
  BY DEF Init, Empty, Figure!Init
<1>2. SoundChain /\ FiguresKnown /\ [Next]_vars => [Figure!Next]_(Figure!vars)
  BY ChainStep DEF Figure!vars
<1> QED  BY <1>1, <1>2, FiguresAreKnown, PTL DEF Spec, ChainPublishesFigures, Figure!Spec

\* The engine's return passes reconciliation only if it is, exposure for
\* exposure, what the engine was to make of its input.
THEOREM ReturnIsExposureForExposure ==
    ASSUME EngineFaults \subseteq DetectedFaults
    PROVE  Spec => ExposureForExposure
<1> DEFINE Honest ==
      \A s \in Slots :
          run[s].pc = "reconcile" /\ run'[s].pc = "publish_output"
          => run[s].passed = RunEngine(run[s].input, run[s].date)
<1>1. SoundChain /\ FiguresKnown /\ [Next]_vars => [Honest]_vars
  <2> SUFFICES ASSUME SoundChain, FiguresKnown, Next, NEW s \in Slots,
                      run[s].pc = "reconcile", run'[s].pc = "publish_output"
               PROVE  run[s].passed = RunEngine(run[s].input, run[s].date)
    OBVIOUS
  <2>1. TypeOK /\ run[s].pc \in OutputSteps /\ run[s].pc \notin Ended
    BY DEF SoundChain, OutputSteps, Ended
  <2>2. ASSUME NEW t \in Slots, Step(t) PROVE t = s /\ Reconcile(s)
    <3>1. t = s
      BY <2>1, <2>2, StepDoes
    <3> QED  BY <2>2, <3>1 DEF Step, At, WriteSilver, WriteSilverQuarantine, WriteInputQuarantine,
              AssertInput, PublishInput, WriteOutputQuarantine, AssertOutput, PublishOutput
  <2>3. ASSUME NEW t \in Slots, NEW d \in Dates, Start(t, d) PROVE FALSE
    <3>1. t # s
      BY <2>1, <2>3 DEF Start, StartSilver, StartSilverWithoutBronze, StartInput, StartOutput, Free
    <3>2. run'[s] = run[s]
      BY <2>1, <2>3, <3>1, SilverStarts, SilverCannotStart, InputStarts, OutputStarts DEF Start
    <3> QED  BY <3>2
  <2>4. ASSUME NEW t \in Slots, Crash(t) PROVE FALSE
    BY <2>1, <2>4, EndRunDoes DEF Crash
  <2>5. ASSUME NEW d \in Dates, NEW rows \in Deliveries, Deliver(d, rows) PROVE FALSE
    BY <2>5 DEF Deliver
  <2>6. CASE Reconcile(s)
    <3>1. Reconciles(run[s].input, run[s].passed)
      BY <2>1, <2>6, EndRunDoes DEF Reconcile
    <3> QED  BY <2>1, <3>1, HeldIsHonest
  <2> QED  BY <2>2, <2>3, <2>4, <2>5, <2>6 DEF Next
<1> QED  BY <1>1, FiguresAreKnown, PTL DEF Spec, ExposureForExposure

-----------------------------------------------------------------------------
(***************************************************************************)
(* A run writes the partitions of its own date: whatever the engine's      *)
(* fault but one, its rows carry the date it was asked for.                *)
(***************************************************************************)
DatedFor(r) ==
    r.pc \in OutputSteps => \A o \in r.passed \cup r.quarantined : o.reporting_date = r.date

RowsDated == \A s \in Slots : DatedFor(run[s])

LEMMA ReturnIsDated ==
    ASSUME "redate" \notin EngineFaults,
           NEW input, NEW d, NEW out \in EngineReturns(input, d), NEW o \in out
    PROVE  o.reporting_date = d
<1> DEFINE honest == RunEngine(input, d)
<1>1. \A q \in honest : \E r : q = OutputRow(r, d)
  BY DEF RunEngine
<1>2. out = honest \/ \E fault \in DetectedFaults \cup {"shift"} : out \in Misreturns(fault, honest)
  BY FaultsAssumption DEF EngineReturns, AllEngineFaults, DetectedFaults
<1> HIDE DEF honest
<1>3. \A q \in honest : /\ q.reporting_date = d
                        /\ [q EXCEPT !.copy = @ + 1].reporting_date = d
                        /\ [q EXCEPT !.ead = @ + 2].reporting_date = d
                        /\ [q EXCEPT !.ead = @ - 2].reporting_date = d
                        /\ [q EXCEPT !.sound = FALSE].reporting_date = d
  BY <1>1 DEF OutputRow
<1>4. \/ o \in honest
      \/ \E q \in honest : \/ o = [q EXCEPT !.copy = @ + 1]
                           \/ o = [q EXCEPT !.ead = @ + 2]
                           \/ o = [q EXCEPT !.ead = @ - 2]
                           \/ o = [q EXCEPT !.sound = FALSE]
  <2>1. CASE out = honest
    BY <2>1
  <2>2. CASE out \in Misreturns("drop", honest)
    BY <2>2 DEF Misreturns
  <2>3. CASE out \in Misreturns("duplicate", honest)
    <3>1. PICK q \in honest : out = honest \cup {[q EXCEPT !.copy = @ + 1]}
      BY <2>3 DEF Misreturns
    <3> QED  BY <3>1
  <2>4. CASE out \in Misreturns("distort", honest)
    <3>1. PICK q \in honest : out = Swap(honest, q, [q EXCEPT !.ead = @ + 2])
      BY <2>4 DEF Misreturns
    <3> QED  BY <3>1 DEF Swap
  <2>5. CASE out \in Misreturns("unsound", honest)
    <3>1. PICK q \in honest : out = Swap(honest, q, [q EXCEPT !.sound = FALSE])
      BY <2>5 DEF Misreturns
    <3> QED  BY <3>1 DEF Swap
  <2>6. CASE out \in Misreturns("shift", honest)
    <3>1. PICK pair \in honest \X honest :
             out = Swap(Swap(honest, pair[1], [pair[1] EXCEPT !.ead = @ - 2]),
                        pair[2], [pair[2] EXCEPT !.ead = @ + 2])
      BY <2>6 DEF Misreturns
    <3>2. pair[1] \in honest /\ pair[2] \in honest
      OBVIOUS
    <3> QED  BY <3>1, <3>2 DEF Swap
  <2> QED  BY <1>2, <2>1, <2>2, <2>3, <2>4, <2>5, <2>6 DEF DetectedFaults
<1> QED  BY <1>3, <1>4

LEMMA RowsDatedStep ==
    ASSUME "redate" \notin EngineFaults, SoundChain, RowsDated, [Next]_vars
    PROVE  RowsDated'
<1>1. TypeOK /\ \A t \in Slots : DatedFor(run[t])
  BY DEF SoundChain, RowsDated
<1>2. ASSUME NEW s \in Slots, NEW d \in Dates, StartOutput(s, d) PROVE RowsDated'
  <2>1. /\ run'[s].date = d /\ \A t \in Slots \ {s} : run'[t] = run[t]
        /\ \E out \in EngineReturns(gold[d], d) : run'[s].passed = OutputPassed(out)
        /\ \E out \in EngineReturns(gold[d], d) : run'[s].quarantined = OutputQuarantined(out)
    BY <1>1, <1>2, OutputStarts
  <2>2. \A o \in run'[s].passed \cup run'[s].quarantined : o.reporting_date = d
    BY <2>1, ReturnIsDated DEF OutputPassed, OutputQuarantined
  <2> QED  BY <1>1, <2>1, <2>2 DEF RowsDated, DatedFor
<1>3. ASSUME NEW s \in Slots, NEW d \in Dates,
             StartSilver(s, d) \/ StartSilverWithoutBronze(s, d) \/ StartInput(s, d)
      PROVE  RowsDated'
  <2>1. run'[s].pc \notin OutputSteps /\ \A t \in Slots \ {s} : run'[t] = run[t]
    BY <1>1, <1>3, SilverStarts, SilverCannotStart, InputStarts DEF OutputSteps
  <2> QED  BY <1>1, <2>1 DEF RowsDated, DatedFor
<1>4. ASSUME NEW s \in Slots, Crash(s) PROVE RowsDated'
  <2>1. run'[s].pc \notin OutputSteps /\ \A t \in Slots \ {s} : run'[t] = run[t]
    BY <1>1, <1>4, EndRunDoes DEF Crash, OutputSteps
  <2> QED  BY <1>1, <2>1 DEF RowsDated, DatedFor
<1>5. ASSUME NEW s \in Slots, Step(s) PROVE RowsDated'
  <2>1. \A t \in Slots \ {s} : run'[t] = run[t]
    BY <1>1, <1>5, StepDoes
  <2>2. \/ run'[s].pc \notin OutputSteps
        \/ /\ run[s].pc \in OutputSteps /\ run'[s].date = run[s].date
           /\ run'[s].passed = run[s].passed /\ run'[s].quarantined = run[s].quarantined
    <3>1. CASE run[s].pc \notin OutputSteps
      BY <1>1, <1>5, <3>1, StepDoes, StepNames DEF Verdicts, OutputSteps, InputSteps, SilverSteps
    <3>2. CASE run[s].pc \in OutputSteps
      <4>1. WriteOutputQuarantine(s) \/ AssertOutput(s) \/ Reconcile(s) \/ PublishOutput(s)
        BY <1>5, <3>2 DEF Step, OutputSteps, At, WriteSilver, WriteSilverQuarantine,
              WriteInputQuarantine, AssertInput, PublishInput
      <4> QED  BY <1>1, <3>2, <4>1, GotoDoes, EndRunDoes
               DEF WriteOutputQuarantine, AssertOutput, Reconcile, PublishOutput, OutputSteps
    <3> QED  BY <3>1, <3>2
  <2> QED  BY <1>1, <2>1, <2>2 DEF RowsDated, DatedFor
<1>6. ASSUME \/ \E d \in Dates, rows \in Deliveries : Deliver(d, rows)
             \/ UNCHANGED vars
      PROVE  RowsDated'
  BY <1>1, <1>6 DEF Deliver, vars, RowsDated, DatedFor
<1> QED  BY <1>2, <1>3, <1>4, <1>5, <1>6 DEF Next, Start

\* A write of rows of one date leaves the partitions of the others.
LEMMA OtherDatesKept ==
    ASSUME NEW table, NEW rows, NEW d \in Dates, \A o \in rows : o.reporting_date # d
    PROVE  OverwritePartitions(table, ByReportingDate(rows))[d] = table[d]
<1>1. ByReportingDate(rows)[d] = {}
  BY DEF ByReportingDate
<1> QED  BY <1>1 DEF OverwritePartitions

LEMMA OnlyItsDate ==
    ASSUME SoundChain, RowsDated, NEW s \in Slots, Step(s), NEW d \in Dates, d # run[s].date
    PROVE  PartitionsAt(d)' = PartitionsAt(d)
<1> USE DEF tables, silverTables, goldTables, rwaTables
<1> SUFFICES /\ silver'[d] = silver[d] /\ silverQuarantine'[d] = silverQuarantine[d]
             /\ gold'[d] = gold[d] /\ goldQuarantine'[d] = goldQuarantine[d]
             /\ rwa'[d] = rwa[d] /\ rwaQuarantine'[d] = rwaQuarantine[d]
  BY DEF PartitionsAt
<1>1. CASE WriteSilver(s)
  <2>1. silver' = OverwritePartitions(silver, OnDate(run[s].passed, run[s].date))
    BY <1>1 DEF WriteSilver
  <2>2. silver'[d] = silver[d]
    BY <2>1, OverwriteOnDateAt
  <2> QED  BY <1>1, <2>2 DEF WriteSilver
<1>2. CASE WriteSilverQuarantine(s)
  <2>1. silverQuarantine' = OverwritePartitions(silverQuarantine, OnDate(run[s].quarantined, run[s].date))
    BY <1>2 DEF WriteSilverQuarantine
  <2>2. silverQuarantine'[d] = silverQuarantine[d]
    BY <2>1, OverwriteOnDateAt
  <2> QED  BY <1>2, <2>2 DEF WriteSilverQuarantine
<1>3. CASE WriteInputQuarantine(s)
  <2>1. goldQuarantine' = OverwritePartitions(goldQuarantine, OnDate(run[s].quarantined, run[s].date))
    BY <1>3 DEF WriteInputQuarantine
  <2>2. goldQuarantine'[d] = goldQuarantine[d]
    BY <2>1, OverwriteOnDateAt
  <2> QED  BY <1>3, <2>2 DEF WriteInputQuarantine
<1>4. CASE PublishInput(s)
  <2>1. gold' = OverwritePartitions(gold, OnDate(run[s].passed, run[s].date))
    BY <1>4 DEF PublishInput
  <2>2. gold'[d] = gold[d]
    BY <2>1, OverwriteOnDateAt
  <2> QED  BY <1>4, <2>2 DEF PublishInput
<1>5. CASE WriteOutputQuarantine(s)
  <2>1. rwaQuarantine' = OverwritePartitions(rwaQuarantine, ByReportingDate(run[s].quarantined))
    BY <1>5 DEF WriteOutputQuarantine
  <2>2. \A o \in run[s].quarantined : o.reporting_date = run[s].date
    BY <1>5 DEF RowsDated, DatedFor, WriteOutputQuarantine, At, OutputSteps
  <2>3. rwaQuarantine'[d] = rwaQuarantine[d]
    <3>1. \A o \in run[s].quarantined : o.reporting_date # d
      BY <2>2
    <3> QED  BY <2>1, <3>1, OtherDatesKept
  <2> QED  BY <1>5, <2>3 DEF WriteOutputQuarantine
<1>6. CASE PublishOutput(s)
  <2>1. rwa' = OverwritePartitions(rwa, ByReportingDate(run[s].passed))
    BY <1>6 DEF PublishOutput
  <2>2. \A o \in run[s].passed : o.reporting_date = run[s].date
    BY <1>6 DEF RowsDated, DatedFor, PublishOutput, At, OutputSteps
  <2>3. rwa'[d] = rwa[d]
    <3>1. \A o \in run[s].passed : o.reporting_date # d
      BY <2>2
    <3> QED  BY <2>1, <3>1, OtherDatesKept
  <2> QED  BY <1>6, <2>3 DEF PublishOutput
<1>7. CASE AssertInput(s) \/ AssertOutput(s) \/ Reconcile(s)
  BY <1>7 DEF AssertInput, AssertOutput, Reconcile
<1> QED  BY <1>1, <1>2, <1>3, <1>4, <1>5, <1>6, <1>7 DEF Step

\* A step moves the run that takes it.
LEMMA StepMoves ==
    ASSUME SoundChain, NEW s \in Slots, Step(s)
    PROVE  run'[s] # run[s]
<1> SUFFICES run'[s].pc # run[s].pc
  OBVIOUS
<1> USE DEF At
<1>1. TypeOK
  BY DEF SoundChain
<1>2. CASE WriteSilver(s)
  BY <1>1, <1>2, GotoDoes, EndRunDoes DEF WriteSilver
<1>3. CASE WriteSilverQuarantine(s)
  BY <1>1, <1>3, EndRunDoes DEF WriteSilverQuarantine
<1>4. CASE WriteInputQuarantine(s)
  BY <1>1, <1>4, GotoDoes DEF WriteInputQuarantine
<1>5. CASE AssertInput(s)
  BY <1>1, <1>5, GotoDoes, EndRunDoes DEF AssertInput
<1>6. CASE PublishInput(s)
  BY <1>1, <1>6, EndRunDoes DEF PublishInput
<1>7. CASE WriteOutputQuarantine(s)
  BY <1>1, <1>7, GotoDoes DEF WriteOutputQuarantine
<1>8. CASE AssertOutput(s)
  BY <1>1, <1>8, GotoDoes, EndRunDoes DEF AssertOutput
<1>9. CASE Reconcile(s)
  BY <1>1, <1>9, GotoDoes, EndRunDoes DEF Reconcile
<1>10. CASE PublishOutput(s)
  BY <1>1, <1>10, EndRunDoes DEF PublishOutput
<1> QED  BY <1>2, <1>3, <1>4, <1>5, <1>6, <1>7, <1>8, <1>9, <1>10 DEF Step

\* The partitions of a date change only in a step of a run for that date, unless
\* the engine returns exposures under another date.
THEOREM DatesStayApart ==
    ASSUME "redate" \notin EngineFaults
    PROVE  Spec => OtherDatesUndisturbed
<1> DEFINE Undisturbed ==
      \A d \in Dates :
          PartitionsAt(d)' # PartitionsAt(d)
          => \E s \in Slots : /\ run[s].pc \in Working
                              /\ run[s].date = d
                              /\ run'[s] # run[s]
<1>1. Init => SoundChain /\ RowsDated
  BY SoundInit DEF Init, RowsDated, DatedFor, Over, Run, OutputSteps
<1>2. SoundChain /\ RowsDated /\ [Next]_vars => (SoundChain /\ RowsDated)'
  BY SoundStep, RowsDatedStep
<1>3. SoundChain /\ RowsDated /\ [Next]_vars => [Undisturbed]_vars
  <2> SUFFICES ASSUME SoundChain, RowsDated, Next, NEW d \in Dates,
                      PartitionsAt(d)' # PartitionsAt(d)
               PROVE  \E s \in Slots : /\ run[s].pc \in Working /\ run[s].date = d
                                       /\ run'[s] # run[s]
    OBVIOUS
  <2>1. ASSUME \/ \E s \in Slots : Crash(s)
               \/ \E s \in Slots, e \in Dates : Start(s, e)
               \/ \E e \in Dates, rows \in Deliveries : Deliver(e, rows)
        PROVE  FALSE
    BY <2>1 DEF Crash, Start, StartSilver, StartSilverWithoutBronze, StartInput, StartOutput,
                Deliver, PartitionsAt, tables, silverTables, goldTables, rwaTables
  <2>2. PICK s \in Slots : Step(s)
    BY <2>1 DEF Next
  <2>3. run[s].date = d
    BY <2>2, OnlyItsDate
  <2>4. run[s].pc \in Working /\ run'[s] # run[s]
    BY <2>2, StepDoes, StepMoves DEF SoundChain
  <2> QED  BY <2>3, <2>4
<1> QED  BY <1>1, <1>2, <1>3, PTL DEF Spec, OtherDatesUndisturbed

-----------------------------------------------------------------------------
(***************************************************************************)
(* The schedule is correct: every step of it is a step of the jobs, and    *)
(* the active DAG run's task is the only one that works.                   *)
(***************************************************************************)

\* The Glue run a task waits for is a run of that task's job, for the active
\* date, that is under way or has ended.
Attended ==
    /\ active # 0 => outcome[active] = "none"
    /\ active = 0 => slot = NoSlot
    /\ slot # NoSlot =>
          /\ run[slot].date = active
          /\ task = 1 => run[slot].pc \in SilverSteps \cup Verdicts
          /\ task = 2 => run[slot].pc \in InputSteps \cup Verdicts
          /\ task = 3 => run[slot].pc \in OutputSteps \cup Verdicts

Scheduled == DagTypeOK /\ Attended

\* Before the engine-input job asserts, what it rejects is in quarantine.
EvidenceWritten ==
    \A s \in Slots :
        run[s].pc \in {"assert_input", "publish_input"} /\ run[s].quarantined # {}
            => goldQuarantine[run[s].date] = run[s].quarantined

\* What each task hands to the next one: silver holds the delivery's rows, the
\* engine input is made of silver, the report of the engine input.
SilverCarries(d) ==
    SilverPassed(Delivered(d)) # {} => silver[d] = SilverPassed(Delivered(d))
InputCarries(d)  == gold[d] = InputPassed(silver[d], d) /\ gold[d] # {}
OutputCarries(d) == rwa[d] = RunEngine(gold[d], d)

SilverTaskCarries ==
    /\ run[slot].pc = "write_silver" => run[slot].passed = SilverPassed(Delivered(active))
    /\ run[slot].pc \in {"write_silver_quarantine", "succeeded"} => SilverCarries(active)

InputTaskCarries ==
    /\ run[slot].pc \in InputSteps => run[slot].passed = InputPassed(silver[active], active)
    /\ run[slot].pc = "succeeded" => InputCarries(active)

OutputTaskCarries ==
    /\ run[slot].pc \in OutputSteps =>
          /\ run[slot].input = gold[active]
          /\ \E out \in EngineReturns(run[slot].input, active) :
                run[slot].passed = OutputPassed(out)
    /\ run[slot].pc = "publish_output" => Reconciles(run[slot].input, run[slot].passed)
    /\ run[slot].pc = "succeeded" => OutputCarries(active)

\* A date whose run is over and succeeded has been carried all the way, and the
\* active one as far as its tasks have come.
Carried ==
    /\ \A d \in Dates : outcome[d] = "success" =>
                            SilverCarries(d) /\ InputCarries(d) /\ OutputCarries(d)
    /\ active # 0 =>
          /\ task \in {2, 3} => SilverCarries(active)
          /\ task = 3 => InputCarries(active)
    /\ slot # NoSlot =>
          /\ task = 1 => SilverTaskCarries
          /\ task = 2 => InputTaskCarries
          /\ task = 3 => OutputTaskCarries

LEMMA ScheduleInit == DagInit => SoundChain /\ Scheduled /\ EvidenceWritten /\ Carried
<1> SUFFICES ASSUME DagInit PROVE SoundChain /\ Scheduled /\ EvidenceWritten /\ Carried
  OBVIOUS
<1>1. Init /\ SoundChain
  BY SoundInit DEF DagInit
<1>2. \A s \in Slots : run[s].pc = "idle"
  BY <1>1 DEF Init, Over, Run
<1>3. Retries \in Nat
  BY ScheduleAssumption
<1>4. /\ outcome = [d \in Dates |-> "none"] /\ active = 0 /\ task = 1 /\ try = 1
      /\ slot = NoSlot /\ source = [d \in Dates |-> NoPartition]
  BY DEF DagInit
<1>5. DagTypeOK
  <2>1. \A s \in Slots : run[s].pc \notin Working
    BY <1>2, StepNames DEF Ended
  <2> QED  BY <1>3, <1>4, <2>1 DEF DagTypeOK, Tasks
<1>6. Attended /\ EvidenceWritten /\ Carried
  BY <1>2, <1>4 DEF Attended, EvidenceWritten, Carried
<1> QED  BY <1>1, <1>5, <1>6 DEF Scheduled

LEMMA DagStepIsJobStep ==
    ASSUME DagTypeOK, [DagNext]_allVars
    PROVE  [Next]_vars
<1>1. ASSUME NEW s \in Slots, StartTask(s) PROVE Next
  <2>1. active \in Dates
    BY <1>1 DEF StartTask, DagTypeOK
  <2> QED  BY <1>1, <2>1 DEF StartTask, Next, Start
<1>2. ASSUME NEW s \in Slots, RunSteps(s) \/ RunDies(s) PROVE Next
  BY <1>2 DEF RunSteps, RunDies, Next
<1>3. ASSUME NEW d \in Dates, NEW rows \in Deliveries, SourceDelivers(d, rows) PROVE Next
  BY <1>3 DEF SourceDelivers, Next
<1>4. ASSUME \/ \E d \in Dates : BeginDagRun(d) \/ Rerun(d)
             \/ TaskSucceeds \/ TaskFails
      PROVE  UNCHANGED vars
  BY <1>4 DEF BeginDagRun, Rerun, TaskSucceeds, TaskFails
<1>5. CASE UNCHANGED allVars
  BY <1>5 DEF allVars
<1> QED  BY <1>1, <1>2, <1>3, <1>4, <1>5 DEF DagNext, Progress, Airflow, Environment

\* Only the run of the active task moves while it works.
LEMMA OnlyTheTaskWorks ==
    ASSUME Scheduled, NEW s \in Slots, run[s].pc \in Working
    PROVE  s = slot /\ slot # NoSlot /\ run[s].date = active /\ active \in Dates
<1>1. s = slot /\ run[s].date = active
  BY DEF Scheduled, DagTypeOK
<1>2. slot # NoSlot
  BY <1>1, ScheduleAssumption
<1>3. active \in Dates
  BY <1>2 DEF Scheduled, DagTypeOK, Attended
<1> QED  BY <1>1, <1>2, <1>3

LEMMA ScheduledStep ==
    ASSUME SoundChain, Scheduled, [DagNext]_allVars
    PROVE  Scheduled'
<1>1. /\ TypeOK /\ DagTypeOK /\ Attended /\ Retries \in Nat /\ NoSlot \notin Slots
      /\ 0 \notin Dates
  BY ScheduleAssumption, DatesAssumption DEF SoundChain, Scheduled
<1>2. ASSUME NEW d \in Dates, BeginDagRun(d) PROVE Scheduled'
  <2>1. /\ active = 0 /\ active' = d /\ task' = 1 /\ try' = 1 /\ slot' = NoSlot
        /\ outcome[d] = "none"
        /\ UNCHANGED <<vars, outcome, spent, source>>
    BY <1>2 DEF BeginDagRun
  <2>2. slot = NoSlot /\ run' = run
    BY <1>1, <2>1 DEF Attended, vars
  <2>3. \A s \in Slots : run[s].pc \notin Working
    BY <1>1, <2>2 DEF DagTypeOK
  <2> QED  BY <1>1, <2>1, <2>2, <2>3 DEF Scheduled, DagTypeOK, Attended, Tasks
<1>3. ASSUME NEW s \in Slots, StartTask(s) PROVE Scheduled'
  <2>1. /\ active # 0 /\ slot = NoSlot /\ slot' = s
        /\ UNCHANGED <<outcome, active, task, try, spent>>
    BY <1>3 DEF StartTask
  <2>2. active \in Dates /\ s # NoSlot
    BY <1>1, <2>1 DEF DagTypeOK
  <2>3. \A t \in Slots : run[t].pc \notin Working
    BY <1>1, <2>1 DEF DagTypeOK
  <2>4. CASE task = 1
    <3>1. /\ StartSilver(s, active) \/ StartSilverWithoutBronze(s, active)
          /\ source' = [source EXCEPT ![active] = bronze[active]]
      BY <1>3, <2>4 DEF StartTask
    <3>2. /\ run'[s].date = active /\ run'[s].pc \in SilverSteps \cup Verdicts
          /\ \A t \in Slots \ {s} : run'[t] = run[t]
      BY <1>1, <2>2, <3>1, SilverStarts, SilverCannotStart DEF SilverSteps, Verdicts
    <3>3. source' \in [Dates -> Deliveries \cup {NoPartition}]
      BY <1>1, <2>2, <3>1 DEF DagTypeOK, TypeOK
    <3> QED  BY <1>1, <2>1, <2>2, <2>3, <2>4, <3>2, <3>3
             DEF Scheduled, DagTypeOK, Attended
  <2>5. CASE task = 2
    <3>1. StartInput(s, active) /\ source' = source
      BY <1>3, <2>5 DEF StartTask
    <3>2. /\ run'[s].date = active /\ run'[s].pc \in InputSteps \cup Verdicts
          /\ \A t \in Slots \ {s} : run'[t] = run[t]
      BY <1>1, <2>2, <3>1, InputStarts DEF InputSteps
    <3> QED  BY <1>1, <2>1, <2>2, <2>3, <2>5, <3>1, <3>2 DEF Scheduled, DagTypeOK, Attended
  <2>6. CASE task = 3
    <3>1. StartOutput(s, active) /\ source' = source
      BY <1>3, <2>6 DEF StartTask
    <3>2. /\ run'[s].date = active /\ run'[s].pc \in OutputSteps \cup Verdicts
          /\ \A t \in Slots \ {s} : run'[t] = run[t]
      BY <1>1, <2>2, <3>1, OutputStarts DEF OutputSteps
    <3> QED  BY <1>1, <2>1, <2>2, <2>3, <2>6, <3>1, <3>2 DEF Scheduled, DagTypeOK, Attended
  <2> QED  BY <1>3, <2>4, <2>5, <2>6 DEF StartTask
<1>4. CASE TaskSucceeds
  <2>1. /\ slot # NoSlot /\ run[slot].pc = "succeeded" /\ slot \in Slots
        /\ try' = 1 /\ slot' = NoSlot /\ run' = run /\ source' = source
    BY <1>1, <1>4 DEF TaskSucceeds, vars, DagTypeOK
  <2>2. \A s \in Slots : run[s].pc \notin Working
    BY <1>1, <2>1, StepNames DEF DagTypeOK, Verdicts
  <2>3. active \in Dates /\ task \in Tasks
    BY <1>1, <2>1 DEF Attended, DagTypeOK
  <2>4. CASE task = 3
    <3>1. outcome' = [outcome EXCEPT ![active] = "success"] /\ active' = 0 /\ task' = 1
      BY <1>4, <2>4 DEF TaskSucceeds
    <3>2. outcome' \in [Dates -> {"none", "success", "failed"}]
      BY <1>1, <3>1 DEF DagTypeOK
    <3> QED  BY <1>1, <2>1, <2>2, <3>1, <3>2 DEF Scheduled, DagTypeOK, Attended, Tasks
  <2>5. CASE task # 3
    <3>1. task' = task + 1 /\ UNCHANGED <<outcome, active>>
      BY <1>4, <2>5 DEF TaskSucceeds
    <3>2. task' \in Tasks
      BY <2>3, <2>5, <3>1 DEF Tasks
    <3> QED  BY <1>1, <2>1, <2>2, <3>1, <3>2 DEF Scheduled, DagTypeOK, Attended
  <2> QED  BY <2>4, <2>5
<1>5. CASE TaskFails
  <2>1. /\ slot # NoSlot /\ run[slot].pc \in {"halted", "failed"} /\ slot \in Slots
        /\ slot' = NoSlot /\ run' = run /\ source' = source
    BY <1>1, <1>5 DEF TaskFails, vars, DagTypeOK
  <2>2. \A s \in Slots : run[s].pc \notin Working
    BY <1>1, <2>1, StepNames DEF DagTypeOK, Verdicts
  <2>3. CASE try <= Retries
    <3>1. try' = try + 1 /\ UNCHANGED <<outcome, active, task>>
      BY <1>5, <2>3 DEF TaskFails
    <3>2. try' \in 1..(Retries + 1)
      BY <1>1, <2>3, <3>1 DEF DagTypeOK
    <3> QED  BY <1>1, <2>1, <2>2, <3>1, <3>2 DEF Scheduled, DagTypeOK, Attended
  <2>4. CASE ~(try <= Retries)
    <3>1. /\ outcome' = [outcome EXCEPT ![active] = "failed"]
          /\ active' = 0 /\ task' = 1 /\ try' = 1
      BY <1>5, <2>4 DEF TaskFails
    <3>2. outcome' \in [Dates -> {"none", "success", "failed"}]
      BY <1>1, <3>1 DEF DagTypeOK
    <3> QED  BY <1>1, <2>1, <2>2, <3>1, <3>2 DEF Scheduled, DagTypeOK, Attended, Tasks
  <2> QED  BY <2>3, <2>4
<1>6. ASSUME NEW d \in Dates, Rerun(d) PROVE Scheduled'
  <2>1. /\ outcome[d] # "none" /\ outcome' = [outcome EXCEPT ![d] = "none"]
        /\ UNCHANGED <<run, active, task, try, slot, source>>
    BY <1>6 DEF Rerun, vars
  <2>2. /\ outcome' \in [Dates -> {"none", "success", "failed"}]
        /\ active # 0 => outcome'[active] = "none"
    BY <1>1, <2>1 DEF DagTypeOK, Attended
  <2> QED  BY <1>1, <2>1, <2>2 DEF Scheduled, DagTypeOK, Attended
<1>7. ASSUME NEW d \in Dates, NEW rows \in Deliveries, SourceDelivers(d, rows) PROVE Scheduled'
  BY <1>1, <1>7 DEF SourceDelivers, Deliver, dagVars, Scheduled, DagTypeOK, Attended
<1>8. ASSUME NEW s \in Slots, RunDies(s) PROVE Scheduled'
  <2>1. /\ run[s].pc \in Working /\ EndRun(s, "failed")
        /\ UNCHANGED <<outcome, active, task, try, slot, source>>
    BY <1>8 DEF RunDies, Crash, dagVars
  <2>2. s = slot /\ slot # NoSlot /\ active \in Dates
    BY <2>1, OnlyTheTaskWorks
  <2>3. /\ run'[s].pc = "failed" /\ run'[s].date = run[s].date
        /\ \A t \in Slots \ {s} : run'[t] = run[t]
    BY <1>1, <2>1, EndRunDoes
  <2>4. run'[s].pc \in Verdicts /\ run'[s].pc \notin Working
    BY <2>3, StepNames DEF Verdicts
  <2> QED  BY <1>1, <2>1, <2>2, <2>3, <2>4 DEF Scheduled, DagTypeOK, Attended
<1>9. ASSUME NEW s \in Slots, RunSteps(s) PROVE Scheduled'
  <2>1. Step(s) /\ UNCHANGED <<outcome, active, task, try, slot, source>>
    BY <1>9 DEF RunSteps, dagVars
  <2>2. /\ run[s].pc \in Working /\ run'[s].date = run[s].date
        /\ \A t \in Slots \ {s} : run'[t] = run[t]
        /\ run[s].pc \in SilverSteps => run'[s].pc \in SilverSteps \cup Verdicts
        /\ run[s].pc \in InputSteps  => run'[s].pc \in InputSteps \cup Verdicts
        /\ run[s].pc \in OutputSteps => run'[s].pc \in OutputSteps \cup Verdicts
    BY <1>1, <2>1, StepDoes
  <2>3. s = slot /\ slot # NoSlot /\ active \in Dates
    BY <2>2, OnlyTheTaskWorks
  <2>4. /\ task = 1 => run[s].pc \in SilverSteps
        /\ task = 2 => run[s].pc \in InputSteps
        /\ task = 3 => run[s].pc \in OutputSteps
    BY <1>1, <2>2, <2>3, StepNames DEF Attended
  <2> QED  BY <1>1, <2>1, <2>2, <2>3, <2>4 DEF Scheduled, DagTypeOK, Attended
<1>10. CASE UNCHANGED allVars
  BY <1>1, <1>10 DEF allVars, dagVars, vars, Scheduled, DagTypeOK, Attended
<1> QED  BY <1>2, <1>3, <1>4, <1>5, <1>6, <1>7, <1>8, <1>9, <1>10
         DEF DagNext, Progress, Airflow, Environment

-----------------------------------------------------------------------------
(***************************************************************************)
(* The evidence: with one run at work on a date, nothing replaces what it  *)
(* put in quarantine before it comes to its verdict.                       *)
(***************************************************************************)
LEMMA EvidenceStep ==
    ASSUME SoundChain, Scheduled, EvidenceWritten, [DagNext]_allVars
    PROVE  EvidenceWritten'
<1>1. TypeOK /\ DagTypeOK
  BY DEF SoundChain, Scheduled
<1>2. ASSUME UNCHANGED <<run, goldQuarantine>> PROVE EvidenceWritten'
  BY <1>2 DEF EvidenceWritten
<1>3. ASSUME NEW s \in Slots, StartTask(s) PROVE EvidenceWritten'
  <2>1. active \in Dates
    BY <1>1, <1>3 DEF StartTask, DagTypeOK
  <2>2. /\ \A t \in Slots \ {s} : run'[t] = run[t]
        /\ run'[s].pc \in {"assert_input", "publish_input"} => run'[s].quarantined = {}
        /\ goldQuarantine' = goldQuarantine
    <3>1. CASE StartSilver(s, active)
      BY <1>1, <2>1, <3>1, SilverStarts DEF tables, goldTables
    <3>2. CASE StartSilverWithoutBronze(s, active)
      BY <1>1, <2>1, <3>2, SilverCannotStart DEF tables, goldTables
    <3>3. CASE StartInput(s, active)
      BY <1>1, <2>1, <3>3, InputStarts DEF tables, goldTables
    <3>4. CASE StartOutput(s, active)
      BY <1>1, <2>1, <3>4, OutputStarts DEF tables, goldTables
    <3> QED  BY <1>3, <3>1, <3>2, <3>3, <3>4 DEF StartTask
  <2> QED  BY <2>2 DEF EvidenceWritten
<1>4. ASSUME NEW s \in Slots, RunDies(s) PROVE EvidenceWritten'
  <2>1. EndRun(s, "failed") /\ goldQuarantine' = goldQuarantine
    BY <1>4 DEF RunDies, Crash, tables, goldTables
  <2>2. run'[s].pc = "failed" /\ \A t \in Slots \ {s} : run'[t] = run[t]
    BY <1>1, <2>1, EndRunDoes
  <2> QED  BY <2>1, <2>2 DEF EvidenceWritten
<1>5. ASSUME NEW s \in Slots, RunSteps(s) PROVE EvidenceWritten'
  <2>1. Step(s)
    BY <1>5 DEF RunSteps
  <2>2. run[s].pc \in Working /\ \A t \in Slots \ {s} : run'[t] = run[t] /\ run[t].pc \notin Working
    BY <1>1, <2>1, StepDoes, OnlyTheTaskWorks
  <2>3. ASSUME NEW t \in Slots \ {s} PROVE run'[t].pc \notin {"assert_input", "publish_input"}
    BY <2>2 DEF Working, InputSteps
  <2>4. run'[s].pc \in {"assert_input", "publish_input"} /\ run'[s].quarantined # {}
          => goldQuarantine'[run'[s].date] = run'[s].quarantined
    <3>1. CASE WriteInputQuarantine(s)
      <4>1. run[s].date \in Dates
        BY <2>2 DEF SoundChain, RunSound
      <4>2. /\ run'[s].date = run[s].date /\ run'[s].quarantined = run[s].quarantined
            /\ goldQuarantine' = OverwritePartitions(goldQuarantine,
                                                     OnDate(run[s].quarantined, run[s].date))
        BY <1>1, <3>1, GotoDoes DEF WriteInputQuarantine
      <4> QED  BY <4>1, <4>2, OverwriteOnDateAt
    <3>2. CASE AssertInput(s)
      <4>1. run[s].pc = "assert_input" /\ goldQuarantine' = goldQuarantine
        BY <3>2 DEF AssertInput, At, tables, goldTables
      <4>2. CASE InputFit(run[s])
        BY <1>1, <3>2, <4>1, <4>2, GotoDoes DEF AssertInput, EvidenceWritten
      <4>3. CASE ~InputFit(run[s])
        BY <1>1, <3>2, <4>3, EndRunDoes DEF AssertInput
      <4> QED  BY <4>2, <4>3
    <3>3. CASE ~(WriteInputQuarantine(s) \/ AssertInput(s))
      <4>1. run'[s].pc \notin {"assert_input", "publish_input"}
        <5>1. CASE WriteSilver(s)
          BY <1>1, <5>1, GotoDoes, EndRunDoes DEF WriteSilver
        <5>2. CASE WriteSilverQuarantine(s)
          BY <1>1, <5>2, EndRunDoes DEF WriteSilverQuarantine
        <5>3. CASE PublishInput(s)
          BY <1>1, <5>3, EndRunDoes DEF PublishInput
        <5>4. CASE WriteOutputQuarantine(s)
          BY <1>1, <5>4, GotoDoes DEF WriteOutputQuarantine
        <5>5. CASE AssertOutput(s)
          BY <1>1, <5>5, GotoDoes, EndRunDoes DEF AssertOutput
        <5>6. CASE Reconcile(s)
          BY <1>1, <5>6, GotoDoes, EndRunDoes DEF Reconcile
        <5>7. CASE PublishOutput(s)
          BY <1>1, <5>7, EndRunDoes DEF PublishOutput
        <5> QED  BY <2>1, <3>3, <5>1, <5>2, <5>3, <5>4, <5>5, <5>6, <5>7 DEF Step
      <4> QED  BY <4>1
    <3> QED  BY <3>1, <3>2, <3>3
  <2> QED  BY <2>3, <2>4 DEF EvidenceWritten
<1>6. CASE \/ \E d \in Dates : BeginDagRun(d) \/ Rerun(d)
           \/ \E d \in Dates, rows \in Deliveries : SourceDelivers(d, rows)
           \/ TaskSucceeds \/ TaskFails
  BY <1>2, <1>6 DEF BeginDagRun, Rerun, SourceDelivers, Deliver, TaskSucceeds, TaskFails, vars,
                    tables, goldTables
<1>7. CASE UNCHANGED allVars
  BY <1>2, <1>7 DEF allVars, vars, tables, goldTables
<1> QED  BY <1>3, <1>4, <1>5, <1>6, <1>7 DEF DagNext, Progress, Airflow, Environment

-----------------------------------------------------------------------------
(***************************************************************************)
(* A delivery is carried from task to task.                                *)
(***************************************************************************)
Finished == \A d \in Dates : outcome[d] = "success" =>
                SilverCarries(d) /\ InputCarries(d) /\ OutputCarries(d)
Handed   == active # 0 => /\ task \in {2, 3} => SilverCarries(active)
                          /\ task = 3 => InputCarries(active)
InHand   == slot # NoSlot => /\ task = 1 => SilverTaskCarries
                             /\ task = 2 => InputTaskCarries
                             /\ task = 3 => OutputTaskCarries

LEMMA CarriedParts == Carried <=> Finished /\ Handed /\ InHand
BY DEF Carried, Finished, Handed, InHand

\* What is finished or handed over stays so while a run changes nothing of it.
LEMMA CarriesSame ==
    ASSUME NEW d \in Dates, silver'[d] = silver[d], gold'[d] = gold[d], rwa'[d] = rwa[d],
           source'[d] = source[d]
    PROVE  /\ SilverCarries(d)' = SilverCarries(d)
           /\ InputCarries(d)' = InputCarries(d)
           /\ OutputCarries(d)' = OutputCarries(d)
BY DEF SilverCarries, InputCarries, OutputCarries, Delivered

\* Nothing finished or handed over is lost while the tables keep their rows.
LEMMA NothingLost ==
    ASSUME Finished, Handed, active \in Dates,
           UNCHANGED <<silver, gold, rwa, source, outcome, active, task>>
    PROVE  Finished' /\ Handed'
<1>1. \A d \in Dates : /\ SilverCarries(d)' = SilverCarries(d)
                       /\ InputCarries(d)' = InputCarries(d)
                       /\ OutputCarries(d)' = OutputCarries(d)
  BY CarriesSame
<1>2. Finished'
  BY <1>1 DEF Finished
<1>3. Handed'
  BY DEF Handed, SilverCarries, InputCarries, Delivered
<1> QED  BY <1>2, <1>3

LEMMA CarriedAtStart ==
    ASSUME SoundChain, Scheduled, Carried, NEW s \in Slots, StartTask(s)
    PROVE  Carried'
<1>1. PICK a \in Dates : a = active
  BY DEF StartTask, Scheduled, DagTypeOK
<1>2. /\ TypeOK /\ DagTypeOK /\ Attended /\ Finished /\ Handed
      /\ slot' = s /\ active' = a /\ task' = task /\ outcome' = outcome
      /\ outcome[a] = "none" /\ a # 0
  BY <1>1, CarriedParts, DatesAssumption
     DEF SoundChain, Scheduled, StartTask, Attended
<1>3. CASE task = 1
  <2>1. /\ StartSilver(s, a) \/ StartSilverWithoutBronze(s, a)
        /\ source' = [source EXCEPT ![a] = bronze[a]]
    BY <1>1, <1>3 DEF StartTask
  <2>2. UNCHANGED <<silver, gold, rwa>>
    BY <1>2, <2>1, SilverStarts, SilverCannotStart DEF tables, silverTables, goldTables, rwaTables
  <2>3. source'[a] = bronze[a] /\ \A d \in Dates \ {a} : source'[d] = source[d]
    BY <1>2, <2>1 DEF DagTypeOK
  <2>4. Finished'
    <3> SUFFICES ASSUME NEW d \in Dates, outcome[d] = "success"
                 PROVE  SilverCarries(d)' /\ InputCarries(d)' /\ OutputCarries(d)'
      BY <1>2 DEF Finished
    <3>1. source'[d] = source[d]
      BY <1>2, <2>3
    <3> QED  BY <1>2, <2>2, <3>1, CarriesSame DEF Finished
  <2>5. SilverTaskCarries'
    <3>1. CASE StartSilver(s, a)
      <4>1. /\ run'[s].pc = "write_silver"
            /\ run'[s].passed = SilverPassed({Conform(src) : src \in bronze[a]})
        BY <1>2, <3>1, SilverStarts
      <4>2. Delivered(a)' = {Conform(src) : src \in bronze[a]}
        BY <2>3 DEF Delivered
      <4> QED  BY <1>2, <4>1, <4>2 DEF SilverTaskCarries, Delivered
    <3>2. CASE StartSilverWithoutBronze(s, a)
      BY <1>2, <3>2, SilverCannotStart DEF SilverTaskCarries
    <3> QED  BY <2>1, <3>1, <3>2
  <2> QED  BY <1>2, <1>3, <2>4, <2>5 DEF Carried, Finished
<1>4. CASE task = 2
  <2>1. StartInput(s, a) /\ source' = source
    BY <1>1, <1>4 DEF StartTask
  <2>2. /\ UNCHANGED <<silver, gold, rwa>>
        /\ run'[s].passed = InputPassed(silver[a], a) /\ run'[s].pc # "succeeded"
    BY <1>2, <2>1, InputStarts DEF tables, silverTables, goldTables, rwaTables
  <2>3. Finished' /\ Handed'
    BY <1>1, <1>2, <2>1, <2>2, NothingLost
  <2>4. InputTaskCarries'
    BY <1>2, <2>2 DEF InputTaskCarries
  <2> QED  BY <1>2, <1>4, <2>3, <2>4 DEF Carried, Finished, Handed
<1>5. CASE task = 3
  <2>1. StartOutput(s, a) /\ source' = source
    BY <1>1, <1>5 DEF StartTask
  <2>2. /\ UNCHANGED <<silver, gold, rwa>>
        /\ run'[s].input = gold[a]
        /\ \E out \in EngineReturns(gold[a], a) : run'[s].passed = OutputPassed(out)
        /\ run'[s].pc \in {"assert_output", "write_output_quarantine"}
    BY <1>2, <2>1, OutputStarts DEF tables, silverTables, goldTables, rwaTables
  <2>3. Finished' /\ Handed'
    BY <1>1, <1>2, <2>1, <2>2, NothingLost
  <2>4. OutputTaskCarries'
    BY <1>2, <2>2 DEF OutputTaskCarries
  <2> QED  BY <1>2, <1>5, <2>3, <2>4 DEF Carried, Finished, Handed
<1> QED  BY <1>3, <1>4, <1>5 DEF StartTask

\* The steps of the schedule that touch no table: a task ends, and hands over.
LEMMA CarriedWhenTaskEnds ==
    ASSUME SoundChain, Scheduled, Carried, TaskSucceeds
    PROVE  Carried'
<1>1. PICK a \in Dates : a = active
  BY DEF TaskSucceeds, Scheduled, DagTypeOK, Attended
<1>2. /\ DagTypeOK /\ Finished /\ Handed /\ InHand
      /\ slot # NoSlot /\ run[slot].pc = "succeeded" /\ slot' = NoSlot
      /\ UNCHANGED <<silver, gold, rwa, source>> /\ task \in Tasks /\ a # 0
  BY <1>1, CarriedParts, DatesAssumption
     DEF Scheduled, TaskSucceeds, vars, tables, silverTables, goldTables, rwaTables, DagTypeOK
<1>3. \A d \in Dates : /\ SilverCarries(d)' = SilverCarries(d)
                       /\ InputCarries(d)' = InputCarries(d)
                       /\ OutputCarries(d)' = OutputCarries(d)
  BY <1>2, CarriesSame
<1>4. CASE task = 3
  <2>1. outcome' = [outcome EXCEPT ![a] = "success"] /\ active' = 0
    BY <1>1, <1>4 DEF TaskSucceeds
  <2>2. SilverCarries(a) /\ InputCarries(a) /\ OutputCarries(a)
    BY <1>1, <1>2, <1>4 DEF Handed, InHand, OutputTaskCarries
  <2>3. Finished'
    <3> SUFFICES ASSUME NEW d \in Dates, outcome'[d] = "success"
                 PROVE  SilverCarries(d) /\ InputCarries(d) /\ OutputCarries(d)
      BY <1>3 DEF Finished
    <3>1. d = a \/ outcome[d] = "success"
      BY <1>2, <2>1 DEF DagTypeOK
    <3> QED  BY <1>2, <2>2, <3>1 DEF Finished
  <2>4. Handed' /\ InHand'
    BY <1>2, <2>1 DEF Handed, InHand
  <2> QED  BY <2>3, <2>4 DEF Carried, Finished, Handed, InHand
<1>5. CASE task # 3
  <2>1. outcome' = outcome /\ active' = a /\ task' = task + 1
    BY <1>1, <1>5 DEF TaskSucceeds
  <2>2. Finished'
    BY <1>2, <1>3, <2>1 DEF Finished
  <2>3. SilverCarries(a)
    BY <1>1, <1>2, <1>5 DEF Handed, InHand, SilverTaskCarries, Tasks
  <2>4. task' = 3 => InputCarries(a)
    <3>1. task' = 3 => task = 2
      BY <1>2, <2>1 DEF Tasks
    <3> QED  BY <1>1, <1>2, <3>1 DEF InHand, InputTaskCarries
  <2>5. SilverCarries(a)' /\ (task' = 3 => InputCarries(a)')
    BY <1>3, <2>3, <2>4
  <2>6. Handed'
    BY <2>1, <2>5 DEF Handed, SilverCarries, InputCarries, Delivered
  <2>7. InHand'
    BY <1>2 DEF InHand
  <2> QED  BY <2>2, <2>6, <2>7 DEF Carried, Finished, Handed, InHand
<1> QED  BY <1>4, <1>5

\* What a task in hand carries, while nothing but deliveries changes.
LEMMA NothingMoves ==
    ASSUME Scheduled, Carried, UNCHANGED <<silver, gold, rwa, source, run>>,
           UNCHANGED <<outcome, active, task, slot>>
    PROVE  Carried'
<1>1. CASE active = 0
  <2>1. slot = NoSlot
    BY <1>1 DEF Scheduled, Attended
  <2>2. \A d \in Dates : /\ SilverCarries(d)' = SilverCarries(d)
                         /\ InputCarries(d)' = InputCarries(d)
                         /\ OutputCarries(d)' = OutputCarries(d)
    BY CarriesSame
  <2> QED  BY <1>1, <2>1, <2>2 DEF Carried
<1>2. CASE active # 0
  <2>1. Finished' /\ Handed'
    BY <1>2, CarriedParts, NothingLost DEF Scheduled, DagTypeOK
  <2>2. /\ SilverTaskCarries => SilverTaskCarries'
        /\ InputTaskCarries => InputTaskCarries'
        /\ OutputTaskCarries => OutputTaskCarries'
    BY DEF SilverTaskCarries, InputTaskCarries, OutputTaskCarries, SilverCarries,
           InputCarries, OutputCarries, Delivered
  <2>3. InHand'
    BY <2>2, CarriedParts DEF InHand
  <2> QED  BY <2>1, <2>3 DEF Carried, Finished, Handed, InHand
<1> QED  BY <1>1, <1>2

LEMMA CarriedWhenTaskFails ==
    ASSUME Scheduled, Carried, TaskFails
    PROVE  Carried'
<1>1. PICK a \in Dates : a = active
  BY DEF TaskFails, Scheduled, DagTypeOK, Attended
<1>2. /\ DagTypeOK /\ Finished /\ Handed /\ slot' = NoSlot
      /\ UNCHANGED <<silver, gold, rwa, source>>
  BY CarriedParts DEF Scheduled, TaskFails, vars, tables, silverTables, goldTables, rwaTables
<1>3. CASE try <= Retries
  BY <1>1, <1>2, <1>3, NothingLost DEF TaskFails, Carried, Finished, Handed
<1>4. CASE ~(try <= Retries)
  <2>1. outcome' = [outcome EXCEPT ![a] = "failed"] /\ active' = 0
    BY <1>1, <1>4 DEF TaskFails
  <2>2. \A d \in Dates : outcome'[d] = "success" => outcome[d] = "success"
    BY <1>2, <2>1 DEF DagTypeOK
  <2>3. \A d \in Dates : /\ SilverCarries(d)' = SilverCarries(d)
                         /\ InputCarries(d)' = InputCarries(d)
                         /\ OutputCarries(d)' = OutputCarries(d)
    BY <1>2, CarriesSame
  <2> QED  BY <1>2, <2>1, <2>2, <2>3 DEF Carried, Finished
<1> QED  BY <1>3, <1>4

LEMMA CarriedWhenBegun ==
    ASSUME NEW d \in Dates, Carried, BeginDagRun(d)
    PROVE  Carried'
<1>1. /\ UNCHANGED <<silver, gold, rwa, source, outcome>> /\ task' = 1 /\ slot' = NoSlot
  BY DEF BeginDagRun, vars, tables, silverTables, goldTables, rwaTables
<1>2. \A e \in Dates : /\ SilverCarries(e)' = SilverCarries(e)
                       /\ InputCarries(e)' = InputCarries(e)
                       /\ OutputCarries(e)' = OutputCarries(e)
  BY <1>1, CarriesSame
<1> QED  BY <1>1, <1>2 DEF Carried

LEMMA CarriedWhenCleared ==
    ASSUME NEW d \in Dates, Scheduled, Carried, Rerun(d)
    PROVE  Carried'
<1>1. /\ UNCHANGED <<silver, gold, rwa, source, run, active, task, slot>>
      /\ outcome' = [outcome EXCEPT ![d] = "none"]
  BY DEF Rerun, vars, tables, silverTables, goldTables, rwaTables
<1>2. \A e \in Dates : outcome'[e] = "success" => outcome[e] = "success"
  BY <1>1 DEF Scheduled, DagTypeOK
<1>3. \A e \in Dates : /\ SilverCarries(e)' = SilverCarries(e)
                       /\ InputCarries(e)' = InputCarries(e)
                       /\ OutputCarries(e)' = OutputCarries(e)
  BY <1>1, CarriesSame
<1>4. Finished'
  BY <1>2, <1>3, CarriedParts DEF Finished
<1>5. active # 0 => Handed'
  BY <1>1, CarriedParts DEF Handed, SilverCarries, InputCarries, Delivered
<1>6. InHand'
  <2>1. /\ SilverTaskCarries => SilverTaskCarries'
        /\ InputTaskCarries => InputTaskCarries'
        /\ OutputTaskCarries => OutputTaskCarries'
    BY <1>1 DEF SilverTaskCarries, InputTaskCarries, OutputTaskCarries, SilverCarries,
           InputCarries, OutputCarries, Delivered
  <2> QED  BY <1>1, <2>1, CarriedParts DEF InHand
<1>7. Handed'
  BY <1>1, <1>5 DEF Handed
<1> QED  BY <1>4, <1>6, <1>7 DEF Carried, Finished, Handed, InHand

\* A run in hand, seen from outside: a job writes the active date and no other.
LEMMA CarriedWhenRunMoves ==
    ASSUME Scheduled, Carried, NEW a \in Dates, active = a, slot # NoSlot,
           UNCHANGED <<source, outcome, active, task, slot>>,
           \A d \in Dates \ {a} :
              silver'[d] = silver[d] /\ gold'[d] = gold[d] /\ rwa'[d] = rwa[d],
           task \in {2, 3} => silver'[a] = silver[a],
           task = 3 => gold'[a] = gold[a],
           task = 1 => SilverTaskCarries',
           task = 2 => InputTaskCarries',
           task = 3 => OutputTaskCarries'
    PROVE  Carried'
<1>1. Finished /\ Handed /\ outcome[a] = "none" /\ active' = a /\ task' = task
  BY CarriedParts, DatesAssumption DEF Scheduled, Attended
<1>2. \A d \in Dates \ {a} : /\ SilverCarries(d)' = SilverCarries(d)
                             /\ InputCarries(d)' = InputCarries(d)
                             /\ OutputCarries(d)' = OutputCarries(d)
  BY CarriesSame
<1>3. Finished'
  BY <1>1, <1>2 DEF Finished
<1>4. Handed'
  <2>1. task \in {2, 3} => SilverCarries(a)'
    BY <1>1, DatesAssumption DEF Handed, SilverCarries, Delivered
  <2>2. task = 3 => InputCarries(a)'
    BY <1>1, DatesAssumption DEF Handed, InputCarries
  <2> QED  BY <1>1, <2>1, <2>2 DEF Handed, SilverCarries, InputCarries, Delivered
<1>5. InHand'
  BY <1>1 DEF InHand
<1> QED  BY <1>3, <1>4, <1>5 DEF Carried, Finished, Handed, InHand

LEMMA CarriedWhenRunDies ==
    ASSUME SoundChain, Scheduled, Carried, NEW s \in Slots, RunDies(s)
    PROVE  Carried'
<1>1. run[s].pc \in Working /\ EndRun(s, "failed")
  BY DEF RunDies, Crash
<1>2. s = slot /\ slot # NoSlot /\ active \in Dates
  BY <1>1, OnlyTheTaskWorks
<1>3. run'[slot].pc = "failed"
  BY <1>1, <1>2, EndRunDoes DEF SoundChain
<1>4. UNCHANGED <<silver, gold, rwa, source, outcome, active, task, slot>>
  BY DEF RunDies, Crash, tables, silverTables, goldTables, rwaTables, dagVars
<1>5. SilverTaskCarries' /\ InputTaskCarries' /\ OutputTaskCarries'
  BY <1>3, <1>4 DEF SilverTaskCarries, InputTaskCarries, OutputTaskCarries, InputSteps,
                    OutputSteps
<1> QED  BY <1>2, <1>4, <1>5, CarriedWhenRunMoves

\* The silver task: what it split is what it writes.
LEMMA CarriedBySilver ==
    ASSUME SoundChain, Scheduled, Carried, NEW s \in Slots, RunSteps(s),
           WriteSilver(s) \/ WriteSilverQuarantine(s)
    PROVE  Carried'
<1>1. /\ TypeOK /\ Step(s) /\ UNCHANGED <<source, outcome, active, task, slot>>
      /\ UNCHANGED <<gold, rwa>>
  BY DEF RunSteps, SoundChain, dagVars, WriteSilver, WriteSilverQuarantine, goldTables, rwaTables
<1>2. run[s].pc \in SilverSteps /\ run[s].pc \in Working
  BY DEF WriteSilver, WriteSilverQuarantine, At, SilverSteps, Working
<1>3. PICK a \in Dates : a = active /\ run[s].date = a /\ s = slot /\ slot # NoSlot
  BY <1>2, OnlyTheTaskWorks
<1>4. task = 1
  BY <1>2, <1>3, StepNames DEF Scheduled, Attended, DagTypeOK, Tasks
<1>5. SilverTaskCarries
  BY <1>3, <1>4 DEF Carried
<1>6. CASE WriteSilver(s)
  <2>1. /\ run[s].pc = "write_silver" /\ run'[s].pc \in {"succeeded", "write_silver_quarantine"}
        /\ silver' = OverwritePartitions(silver, OnDate(run[s].passed, a))
    BY <1>1, <1>3, <1>6, GotoDoes, EndRunDoes DEF WriteSilver, At
  <2>2. \A d \in Dates : silver'[d] = IF d = a /\ run[s].passed # {} THEN run[s].passed
                                                                     ELSE silver[d]
    BY <2>1, OverwriteOnDateAt
  <2>3. run[s].passed = SilverPassed(Delivered(a))
    BY <1>3, <1>5, <2>1 DEF SilverTaskCarries
  <2>4. SilverCarries(a)'
    BY <1>1, <2>2, <2>3 DEF SilverCarries, Delivered
  <2>5. SilverCarries(active)'
    BY <1>1, <1>3, <2>4 DEF SilverCarries, Delivered
  <2>6. SilverTaskCarries'
    BY <1>1, <1>3, <2>1, <2>5 DEF SilverTaskCarries
  <2> QED  BY <1>1, <1>3, <1>4, <2>2, <2>6, CarriedWhenRunMoves
<1>7. CASE WriteSilverQuarantine(s)
  <2>1. /\ run[s].pc = "write_silver_quarantine" /\ run'[s].pc = "succeeded"
        /\ silver' = silver
    BY <1>1, <1>7, EndRunDoes DEF WriteSilverQuarantine, At
  <2>2. SilverTaskCarries'
    BY <1>1, <1>3, <1>5, <2>1 DEF SilverTaskCarries, SilverCarries, Delivered
  <2> QED  BY <1>1, <1>3, <1>4, <2>1, <2>2, CarriedWhenRunMoves
<1> QED  BY <1>6, <1>7

\* The engine-input task: what it checked is what it publishes, and it is not
\* empty, so that the publication replaces what was there.
LEMMA CarriedByInput ==
    ASSUME SoundChain, Scheduled, Carried, NEW s \in Slots, RunSteps(s),
           WriteInputQuarantine(s) \/ AssertInput(s) \/ PublishInput(s)
    PROVE  Carried'
<1>1. /\ TypeOK /\ UNCHANGED <<source, outcome, active, task, slot>>
      /\ UNCHANGED <<silver, rwa>> /\ RunSound(run[s])
  BY DEF RunSteps, SoundChain, dagVars, WriteInputQuarantine, AssertInput, PublishInput,
         tables, silverTables, rwaTables
<1>2. run[s].pc \in InputSteps /\ run[s].pc \in Working
  BY DEF WriteInputQuarantine, AssertInput, PublishInput, At, InputSteps, Working
<1>3. PICK a \in Dates : a = active /\ run[s].date = a /\ s = slot /\ slot # NoSlot
  BY <1>2, OnlyTheTaskWorks
<1>4. task = 2
  BY <1>2, <1>3, StepNames DEF Scheduled, Attended, DagTypeOK, Tasks
<1>5. run[s].passed = InputPassed(silver[a], a)
  BY <1>2, <1>3, <1>4 DEF Carried, InputTaskCarries
<1>6. CASE WriteInputQuarantine(s) \/ AssertInput(s)
  <2>1. gold' = gold /\ run'[s].pc # "succeeded"
    BY <1>1, <1>6, GotoDoes, EndRunDoes
       DEF WriteInputQuarantine, AssertInput, tables, goldTables
  <2>2. run'[s].pc \in InputSteps => run'[s].passed = run[s].passed
    BY <1>1, <1>6, GotoDoes, EndRunDoes DEF WriteInputQuarantine, AssertInput, InputSteps
  <2>3. InputTaskCarries'
    BY <1>1, <1>3, <1>5, <2>1, <2>2 DEF InputTaskCarries
  <2> QED  BY <1>1, <1>3, <1>4, <2>1, <2>3, CarriedWhenRunMoves
<1>7. CASE PublishInput(s)
  <2>1. /\ run[s].pc = "publish_input" /\ run'[s].pc = "succeeded"
        /\ gold' = OverwritePartitions(gold, OnDate(run[s].passed, a))
    BY <1>1, <1>3, <1>7, EndRunDoes DEF PublishInput, At
  <2>2. run[s].passed # {}
    BY <1>1, <2>1, FitMeansNotEmpty DEF RunSound, InputSteps
  <2>3. \A d \in Dates : gold'[d] = IF d = a THEN run[s].passed ELSE gold[d]
    BY <2>1, <2>2, OverwriteOnDateAt
  <2>4. InputCarries(a)'
    BY <1>1, <1>5, <2>2, <2>3 DEF InputCarries
  <2>5. InputTaskCarries'
    BY <1>1, <1>3, <2>1, <2>4 DEF InputTaskCarries, InputCarries, InputSteps
  <2> QED  BY <1>1, <1>3, <1>4, <2>3, <2>5, CarriedWhenRunMoves
<1> QED  BY <1>6, <1>7

\* The RWA task: what passes reconciliation is what the engine was to return.
LEMMA CarriedByOutput ==
    ASSUME EngineFaults \subseteq DetectedFaults,
           SoundChain, Scheduled, Carried, NEW s \in Slots, RunSteps(s),
           WriteOutputQuarantine(s) \/ AssertOutput(s) \/ Reconcile(s) \/ PublishOutput(s)
    PROVE  Carried'
<1>1. /\ TypeOK /\ UNCHANGED <<source, outcome, active, task, slot>>
      /\ UNCHANGED <<silver, gold>> /\ EngineInputSound
  BY DEF RunSteps, SoundChain, dagVars, WriteOutputQuarantine, AssertOutput, Reconcile,
         PublishOutput, tables, silverTables, goldTables
<1>2. run[s].pc \in OutputSteps /\ run[s].pc \in Working
  BY DEF WriteOutputQuarantine, AssertOutput, Reconcile, PublishOutput, At, OutputSteps, Working
<1>3. PICK a \in Dates : a = active /\ run[s].date = a /\ s = slot /\ slot # NoSlot
  BY <1>2, OnlyTheTaskWorks
<1>4. task = 3
  BY <1>2, <1>3, StepNames DEF Scheduled, Attended, DagTypeOK, Tasks
<1>5. /\ run[s].input = gold[a]
      /\ \E out \in EngineReturns(gold[a], a) : run[s].passed = OutputPassed(out)
      /\ run[s].pc = "publish_output" => Reconciles(run[s].input, run[s].passed)
  BY <1>2, <1>3, <1>4 DEF Carried, OutputTaskCarries
<1>6. InputCarries(a)
  BY <1>3, <1>4, DatesAssumption DEF Carried
<1>7. CASE WriteOutputQuarantine(s) \/ AssertOutput(s) \/ Reconcile(s)
  <2>1. rwa' = rwa /\ run'[s].pc # "succeeded"
    BY <1>1, <1>7, GotoDoes, EndRunDoes
       DEF WriteOutputQuarantine, AssertOutput, Reconcile, tables, rwaTables
  <2>2. run'[s].pc \in OutputSteps => run'[s].passed = run[s].passed /\ run'[s].input = run[s].input
    BY <1>1, <1>7, GotoDoes, EndRunDoes
       DEF WriteOutputQuarantine, AssertOutput, Reconcile, OutputSteps
  <2>3. run'[s].pc = "publish_output" => Reconciles(run[s].input, run[s].passed)
    BY <1>1, <1>7, GotoDoes, EndRunDoes DEF WriteOutputQuarantine, AssertOutput, Reconcile
  <2>4. "publish_output" \in OutputSteps
    BY DEF OutputSteps
  <2>5. OutputTaskCarries'
    BY <1>1, <1>3, <1>5, <2>1, <2>2, <2>3, <2>4 DEF OutputTaskCarries
  <2> QED  BY <1>1, <1>3, <1>4, <2>1, <2>5, CarriedWhenRunMoves
<1>8. CASE PublishOutput(s)
  <2>1. /\ run[s].pc = "publish_output" /\ run'[s].pc = "succeeded"
        /\ rwa' = OverwritePartitions(rwa, ByReportingDate(run[s].passed))
    BY <1>1, <1>8, EndRunDoes DEF PublishOutput, At
  <2>2. run[s].passed = RunEngine(gold[a], a)
    <3>1. PICK out \in EngineReturns(gold[a], a) : run[s].passed = OutputPassed(out)
      BY <1>5
    <3>2. Reconciles(gold[a], OutputPassed(out))
      BY <1>5, <2>1, <3>1
    <3>3. gold[a] \in SUBSET InputRows /\ PublishableInput(gold[a], a)
      BY <1>1 DEF TypeOK, EngineInputSound
    <3> QED  BY <3>1, <3>2, <3>3, DetectedFaultsAreCaught
  <2>3. rwa'[a] = RunEngine(gold[a], a) /\ \A d \in Dates \ {a} : rwa'[d] = rwa[d]
    BY <1>6, <2>1, <2>2, PublicationReplaces DEF InputCarries
  <2>4. OutputTaskCarries'
    BY <1>1, <1>3, <2>1, <2>3 DEF OutputTaskCarries, OutputCarries, OutputSteps
  <2> QED  BY <1>1, <1>3, <1>4, <2>3, <2>4, CarriedWhenRunMoves
<1> QED  BY <1>7, <1>8

LEMMA CarriedStep ==
    ASSUME EngineFaults \subseteq DetectedFaults,
           SoundChain, Scheduled, Carried, [DagNext]_allVars
    PROVE  Carried'
<1>1. ASSUME NEW d \in Dates, NEW rows \in Deliveries, SourceDelivers(d, rows) PROVE Carried'
  BY <1>1, NothingMoves DEF SourceDelivers, Deliver, dagVars, tables, silverTables, goldTables,
                            rwaTables
<1>2. CASE UNCHANGED allVars
  BY <1>2, NothingMoves DEF allVars, vars, dagVars, tables, silverTables, goldTables, rwaTables
<1>3. ASSUME NEW s \in Slots, RunSteps(s) PROVE Carried'
  BY <1>3, CarriedBySilver, CarriedByInput, CarriedByOutput DEF RunSteps, Step
<1> QED  BY <1>1, <1>2, <1>3, CarriedWhenBegun, CarriedAtStart, CarriedWhenTaskEnds,
            CarriedWhenTaskFails, CarriedWhenCleared, CarriedWhenRunDies
         DEF DagNext, Progress, Airflow, Environment

-----------------------------------------------------------------------------
(***************************************************************************)
(* The theorems.                                                           *)
(***************************************************************************)

\* The jobs keep their invariant under the schedule, and the schedule attends
\* to one run at a time.
THEOREM ScheduleIsSound == DagSpec => [](SoundChain /\ Scheduled)
<1>1. DagInit => SoundChain /\ Scheduled
  BY ScheduleInit
<1>2. SoundChain /\ Scheduled /\ [DagNext]_allVars => (SoundChain /\ Scheduled)'
  <2> SUFFICES ASSUME SoundChain, Scheduled, [DagNext]_allVars
               PROVE  SoundChain' /\ Scheduled'
    OBVIOUS
  <2>1. [Next]_vars
    BY DagStepIsJobStep DEF Scheduled
  <2> QED  BY <2>1, SoundStep, ScheduledStep
<1> QED  BY <1>1, <1>2, PTL DEF DagSpec

\* Type correctness of the schedule, and that a task never finds the run of
\* another task or of an earlier attempt still at work.
THEOREM ScheduleIsTyped == DagSpec => []DagTypeOK
<1>1. Scheduled => DagTypeOK
  BY DEF Scheduled
<1> QED  BY <1>1, ScheduleIsSound, PTL

\* A run of the engine-input job that stops at its contract leaves the rows
\* that explain why in quarantine.
THEOREM EvidenceIsOnDisk == DagSpec => EvidenceOnDisk
<1> DEFINE OnDisk ==
      \A s \in Slots :
          run[s].pc = "assert_input" /\ run'[s].pc = "halted" /\ run[s].quarantined # {}
          => goldQuarantine[run[s].date] = run[s].quarantined
<1>1. DagInit => EvidenceWritten
  BY ScheduleInit
<1>2. SoundChain /\ Scheduled /\ EvidenceWritten /\ [DagNext]_allVars => EvidenceWritten'
  BY EvidenceStep
<1>3. EvidenceWritten => OnDisk
  BY DEF EvidenceWritten
<1>4. DagSpec => []EvidenceWritten
  BY <1>1, <1>2, ScheduleIsSound, PTL DEF DagSpec
<1>5. EvidenceWritten /\ [DagNext]_allVars => [OnDisk]_allVars
  BY <1>3
<1> QED  BY <1>4, <1>5, PTL DEF DagSpec, EvidenceOnDisk

\* A date whose run succeeded reports what the delivery its silver task found
\* says, and nothing that earlier runs, retries or crashes left behind, whichever
\* of the faults the job's documentation names the engine commits.
THEOREM ReportIsOfTheDelivery ==
    ASSUME EngineFaults \subseteq DetectedFaults
    PROVE  DagSpec => []ReportFollowsDelivery
<1>1. DagInit => Carried
  BY ScheduleInit
<1>2. SoundChain /\ Scheduled /\ Carried /\ [DagNext]_allVars => Carried'
  BY CarriedStep
<1>3. Carried => ReportFollowsDelivery
  BY DEF Carried, ReportFollowsDelivery, Done, SilverCarries, InputCarries, OutputCarries,
         FullInput
<1> QED  BY <1>1, <1>2, <1>3, ScheduleIsSound, PTL DEF DagSpec
=============================================================================
