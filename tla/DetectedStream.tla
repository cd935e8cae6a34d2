---------------------------- MODULE DetectedStream --------------------------
(***************************************************************************)
(* From the file the producer is given to the alerts of the rules: the     *)
(* producer and its client, the topic they write, the bronze and silver    *)
(* streams behind it, and what the windowed rules find in the table that   *)
(* leaves.  No job of the repository runs these rules on the stream; they  *)
(* are put over silver here as the alert job puts the sweep rule.          *)
(***************************************************************************)
EXTENDS Producer, DetectionRules

CONSTANTS
    MaxMessages, MaxCrashes, MaxLosses,    \* bounds, as in TxnStream,
    MaxMishaps                             \* and on faults, deaths and losses in all

ASSUME StreamAssumption ==
    /\ \A t \in CsvRows : DOMAIN t = Fields /\ \A field \in MoneyFields : t[field] \in Int \cup {Null}
    /\ {MaxMessages, MaxCrashes, MaxLosses} \subseteq Nat

VARIABLES bronze, landing, bronzeRun, silver, quarantine, conforming, silverRun, spent
streamVars   == <<bronze, landing, bronzeRun, silver, quarantine, conforming, silverRun, spent>>
detectedVars == <<producerVars, streamVars>>

\* The stream of this producer's topic, on which no alert job runs.
Stream == INSTANCE TxnStream WITH
    Transactions <- CsvRows,
    log          <- [p \in Partitions |-> [o \in DOMAIN topic[p] |-> Row(topic[p][o])]],
    alerts       <- 0,
    alertRun     <- [pc |-> "idle", target |-> 0]

DetectedInit == ProducerInit /\ Stream!StreamInit

\* What the broker writes is what the stream finds on the topic.
Arrives(k) ==
    LET m == flight[k][1]
    IN  Write(k) /\ Stream!Produce(PartitionOfMessage(m), Row(m))

ClientSteps ==
    \/ Produce \/ Finish \/ Crash \/ Rerun
    \/ Send \/ Acknowledged \/ Retry \/ Expire
    \/ \E k \in DOMAIN flight : Reject(k)

StreamSteps ==
    \/ Stream!StartBronze \/ Stream!BronzeSteps
    \/ Stream!BronzeDies \/ Stream!BronzeCheckpointLost
    \/ Stream!StartSilver \/ Stream!SilverSteps
    \/ Stream!SilverDies \/ Stream!SilverCheckpointLost

Mishaps == faults + Stream!Crashes + Stream!Losses

DetectedNext ==
    /\ \/ \E k \in DOMAIN flight : Arrives(k)
       \/ ClientSteps /\ UNCHANGED streamVars
       \/ UNCHANGED producerVars /\ StreamSteps
    /\ Mishaps' <= MaxMishaps

DetectedSpec == DetectedInit /\ [][DetectedNext]_detectedVars

-----------------------------------------------------------------------------
\* The silver table.  A row of it is known by the append it came with, the
\* bronze append that read, and the partition and offset that holds; it drops
\* the partition (silver_stream.py), and rows alike in all else still count.
SilverRows ==
    {row \in (DOMAIN silver) \X (DOMAIN bronze) \X Stream!Messages :
        /\ silver[row[1]].from < row[2] /\ row[2] <= silver[row[1]].to
        /\ Stream!Holds(bronze[row[2]], row[3])
        /\ Passes(Stream!PayloadAt(row[3]))}
SilverTable == [row \in SilverRows |-> ConformTxn(Stream!PayloadAt(row[3]))]

\* The rows of the published file that belong there.
Accepted == [m \in {o \in Messages : Passes(Row(o))} |-> ConformTxn(Row(m))]

\* Both queries have committed all that is upstream of them.
CaughtUp == landing.done = Stream!Ends /\ conforming.done = Len(bronze)

\* However often requests fail, runs are repeated and queries die, and however
\* the stream cuts the topic into batches: once all is through, an account that
\* bursts is flagged, wherever the burst falls; one that splits its transfers is
\* flagged once a stretch as long as a window has too many for two windows to
\* share below the count.
BurstsAreFlagged ==
    (status = "done" /\ expired = {} /\ CaughtUp) =>
        \A m \in DOMAIN Accepted :
            LET account == Accepted[m].name_orig
                from    == Accepted[m].step
            IN  /\ Bursts(Accepted, account, from)
                      => Flagged(account, VelocityAlerts(SilverTable))
                /\ Cardinality(Splits(Accepted, account, from)) > 2 * (MinCount - 1)
                      => Flagged(account, StructuringAlerts(SilverTable))

\* An account is flagged falsely only where rows repeat: after a message of its
\* own came through twice, a silver query died, or a checkpoint was lost.  A
\* bronze query may die at any step.  Short of that an account is flagged for
\* what is in the file, transfers each below the report and together above it,
\* or a burst.
AlarmsAreDeserved ==
    spent.silverCrashes + spent.silverLosses + spent.bronzeLosses = 0 =>
        \A account \in {Row(m).name_orig : m \in Messages} :
            Repeated \cap {m \in Messages : Row(m).name_orig = account} = {} =>
                /\ Flagged(account, StructuringAlerts(SilverTable)) =>
                      \E m \in DOMAIN Accepted :
                          LET rows == Splits(Accepted, account, Accepted[m].step)
                          IN  /\ Cardinality(rows) >= MinCount
                              /\ Amounts(Accepted, rows) > Threshold
                /\ Flagged(account, VelocityAlerts(SilverTable)) =>
                      \E m \in DOMAIN Accepted : Bursts(Accepted, account, Accepted[m].step)
=============================================================================
