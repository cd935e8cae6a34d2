--------------------------- MODULE MonitoredBronze --------------------------
(***************************************************************************)
(* From the bucket to the drift monitor.  The loader replaces the bronze   *)
(* partitions, the silver job conforms whatever it finds under a date, at  *)
(* any time, and the monitor of exp05 and the engine run of exp06 read the *)
(* silver table: what they make of a period that was read from a partition *)
(* left incomplete, read while it was replaced, or never read again, and   *)
(* of faults that leave a period consistent with itself.                   *)
(*                                                                         *)
(* Nothing orders a load and the silver job: load_bronze is started by     *)
(* hand and the job by its own schedule.                                   *)
(***************************************************************************)
EXTENDS BronzeLoader, Drift

ASSUME PeriodsAssumption == SnapshotDates \subseteq MonthEnds
ASSUME FilesAssumption ==
    /\ IsFiniteSet(FileNames)
    /\ \A v \in Deliveries : \A f \in DOMAIN v : IsFiniteSet(v[f].rows)

VARIABLES
    silver,    \* silver_credit_risk.exposure: its rows of each snapshot date
    mixed      \* history: the dates whose rows were read from a torn partition
monitoredVars == <<loaderVars, silver, mixed>>

Contents == UNION {Range(v) : v \in Deliveries}

\* conform() and the passing half of validate(), which go row by row.
ConformedFile == [c \in Contents |-> SilverPassed({Conform(r) : r \in c.rows})]
Conformed(objects) == UNION {ConformedFile[objects[f]] : f \in DOMAIN objects}

MonitoredInit ==
    /\ LoaderInit
    /\ silver = [d \in SnapshotDates |-> {}]
    /\ mixed = {}

\* The silver job over one date.  It fails where there is nothing to read, and
\* overwritePartitions of no rows replaces nothing.
ConformPartition(d) ==
    /\ Conformed(remote[d]) # {}
    /\ silver' = [silver EXCEPT ![d] = Conformed(remote[d])]
    /\ mixed' = IF d \in torn THEN mixed \cup {d} ELSE mixed \ {d}
    /\ UNCHANGED loaderVars

MonitoredNext == \/ LoaderNext /\ UNCHANGED <<silver, mixed>>
                 \/ \E d \in SnapshotDates : ConformPartition(d)

MonitoredSpec == MonitoredInit /\ [][MonitoredNext]_monitoredVars

-----------------------------------------------------------------------------
(***************************************************************************)
(* What is read of a date depends on its silver rows alone, so it is given *)
(* by functions of all the books that files of the deliveries make up.     *)
(***************************************************************************)
Books == {UNION {ConformedFile[c] : c \in files} : files \in SUBSET Contents}

PeriodOf   == [book \in Books |-> Period(book)]
MeasuresOf == [book \in Books |-> Measure(Period(book))]
EndsOf     == [book \in Books |-> [d \in SnapshotDates |-> OutcomesOf(Period(book), d)]]

Breaches(before, after) == Compare(MeasuresOf[before], MeasuresOf[after])

\* The book a delivery stands for.
DueOf == [v \in Deliveries |-> Conformed(v)]

\* More than two fifths are missing of a period that by itself would not have
\* moved up from the one before.
LossFrom(before, due, found) ==
    before > 0 /\ 4 * due <= 5 * before /\ 5 * (due - found) > 2 * due

\* The monitor counts rows of one delivery: what silver has of a date is part of
\* the book that some delivery of the date stands for, never rows of two that
\* make up for each other, unless the source delivered during an upload.  So
\* when more than two fifths of that delivery's period are not there the count
\* has drifted from any period it had not outgrown; and where nothing is left to
\* send, the input contract halts the run (exp06).  Which delivery it is the
\* monitor cannot tell: of an emptied partition silver keeps the book before.
LossIsReported ==
    \A d \in SnapshotDates :
        /\ PeriodOf[silver[d]] = {} => EndsOf[silver[d]][d] = {"input contract"}
        /\ (d \notin mixed /\ silver[d] # {}) => \E v \in delivered[d] :
             /\ silver[d] \subseteq DueOf[v]
             /\ \A p \in SnapshotDates :
                  LossFrom(Cardinality(PeriodOf[silver[p]]), Cardinality(PeriodOf[DueOf[v]]),
                           Cardinality(PeriodOf[silver[d]]))
                     => <<"exposure_count", "drift">> \in Breaches(silver[p], silver[d])

\* exp04 and exp05: one factor on every amount of a period.  The contract's
\* verdict changes on none of its rows, nor on the period as a whole.
Faulty(book) == Scaled(PeriodOf[book], 100)
Unseen == [book \in Books |-> \A d \in SnapshotDates :
               /\ Accepted(Faulty(book), d) = Scaled(Accepted(PeriodOf[book], d), 100)
               /\ InputFits(Faulty(book), d) = InputFits(PeriodOf[book], d)]
FaultyMeasuresOf == [book \in Books |-> Measure(Faulty(book))]

\* The contract sees nothing of it, while against any period from which the true
\* one had not drifted it is reported.
UniformFaultsShowUpAsDrift ==
    \A p, d \in SnapshotDates : p < d =>
        /\ Unseen[silver[d]]
        /\ Breaches(silver[p], silver[d]) = {} =>
              <<"total_outstanding", "drift">> \in
                  Compare(MeasuresOf[silver[p]], FaultyMeasuresOf[silver[d]])
=============================================================================
