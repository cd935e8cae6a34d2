----------------------------- MODULE TxnStream ------------------------------
(***************************************************************************)
(* The transaction stream: Kafka -> bronze -> silver -> alerts.            *)
(*                                                                         *)
(*   bronze_stream  appends what arrived on the topic to the bronze table  *)
(*   silver_stream  splits each micro-batch of bronze with the contract    *)
(*                  and appends one half to silver, the other to quarantine *)
(*   alert_job      runs the sweep rule over silver, overwrites the alerts *)
(*                                                                         *)
(* The two streams are Spark queries with a checkpoint on disk, in which a *)
(* batch is planned (its end offsets written) before it runs and marked    *)
(* done after; a query that restarts runs a planned batch again.  The      *)
(* stages are independent processes here: any of them may be started,      *)
(* make a step or die at any time.  TxnDag adds the schedule.              *)
(*                                                                         *)
(* A table is the sequence of the appends committed to it, and an append   *)
(* is the range of its source that it holds: a bronze append holds offsets *)
(* from+1..to of each partition, a silver or quarantine append the passing *)
(* or failing rows of bronze appends from+1..to.  The rows follow, and so  *)
(* does how often each occurs.  Offsets count from 1.                      *)
(***************************************************************************)
EXTENDS TxnRules, SequencesExt

CONSTANTS
    Partitions,      \* of the topic
    Transactions,    \* payloads the producer may send, Unparsed for garbage
    MaxMessages,     \* bounds: messages sent, stages that die, checkpoints lost
    MaxCrashes,
    MaxLosses

ASSUME TransactionsAssumption ==
    \A t \in Transactions :
        /\ DOMAIN t = Fields
        /\ \A field \in MoneyFields \cup {"step"} : t[field] \in Int \cup {Null}
ASSUME BoundsAssumption == {MaxMessages, MaxCrashes, MaxLosses} \subseteq Nat

VARIABLES
    log,           \* the topic: per partition, the messages sent
    bronze,        \* appends, each stamped with the query and epoch that made it
    landing,       \* checkpoint of the bronze stream
    bronzeRun,
    silver, quarantine,
    conforming,    \* checkpoint of the silver stream
    silverRun,
    alerts,        \* how many silver appends the alert table was computed from
    alertRun,
    spent          \* what the environment has done, per kind

bronzeVars == <<bronze, landing, bronzeRun>>
silverVars == <<silver, quarantine, conforming, silverRun>>
alertVars  == <<alerts, alertRun>>
streamVars == <<log, bronzeVars, silverVars, alertVars, spent>>

Ended   == {"idle", "succeeded", "failed"}
Nowhere == [p \in Partitions |-> 0]
Ends    == [p \in Partitions |-> Len(log[p])]

\* A batch is planned when `planned` is ahead of `done`.
Fresh(query, start) == [query |-> query, epoch |-> 0, done |-> start, planned |-> start]
PendingNever(checkpoint) == FALSE    \* a slip: a restart plans its batch anew
Pending(checkpoint) == checkpoint.planned # checkpoint.done
Plan(checkpoint, end) == [checkpoint EXCEPT !.planned = end]
Mark(checkpoint) == [checkpoint EXCEPT !.done = checkpoint.planned, !.epoch = @ + 1]

StreamInit ==
    /\ log = [p \in Partitions |-> <<>>]
    /\ bronze = <<>> /\ landing = Fresh(0, Nowhere)
    /\ bronzeRun = [pc |-> "idle", target |-> Nowhere]
    /\ silver = <<>> /\ quarantine = <<>> /\ conforming = Fresh(0, 0)
    /\ silverRun = [pc |-> "idle", target |-> 0]
    /\ alerts = 0 /\ alertRun = [pc |-> "idle", target |-> 0]
    /\ spent = [messages |-> 0, bronzeCrashes |-> 0, silverCrashes |-> 0,
                alertCrashes |-> 0, bronzeLosses |-> 0, silverLosses |-> 0]

Spend(what) == spent' = [spent EXCEPT ![what] = @ + 1]
Crashes     == spent.bronzeCrashes + spent.silverCrashes + spent.alertCrashes
Losses      == spent.bronzeLosses + spent.silverLosses

\* The producer's message is in the log of its account's partition.
Produce(p, t) ==
    /\ spent.messages < MaxMessages
    /\ log' = [log EXCEPT ![p] = Append(@, t)]
    /\ Spend("messages")
    /\ UNCHANGED <<bronzeVars, silverVars, alertVars>>

-----------------------------------------------------------------------------
(***************************************************************************)
(* bronze_stream.run(once=True): availableNow processes what is in the     *)
(* topic when the query starts, then stops.                                *)
(***************************************************************************)
StartBronze ==
    /\ bronzeRun.pc \in Ended
    /\ bronzeRun' = [pc |-> "select", target |-> Ends]
    /\ UNCHANGED <<log, bronze, landing, silverVars, alertVars, spent>>

\* The next batch: the one the checkpoint still has planned, else what is left.
BronzePlans ==
    /\ bronzeRun.pc = "select"
    /\ Pending(landing) \/ landing.done # bronzeRun.target
    /\ landing' = IF Pending(landing) THEN landing ELSE Plan(landing, bronzeRun.target)
    /\ bronzeRun' = [bronzeRun EXCEPT !.pc = "write"]
    /\ UNCHANGED <<log, bronze, silverVars, alertVars, spent>>

BronzeDone ==
    /\ bronzeRun.pc = "select"
    /\ ~Pending(landing) /\ landing.done = bronzeRun.target
    /\ bronzeRun' = [bronzeRun EXCEPT !.pc = "succeeded"]
    /\ UNCHANGED <<log, bronze, landing, silverVars, alertVars, spent>>

\* The Iceberg sink stamps an append with the query and the epoch, and skips
\* an epoch of this query that the table already holds.
LandedNever == FALSE    \* a slip: the sink appends whatever it is handed
Landed == \E i \in DOMAIN bronze : /\ bronze[i].query = landing.query
                                   /\ bronze[i].epoch >= landing.epoch

BronzeWrites ==
    /\ bronzeRun.pc = "write"
    /\ bronze' = IF Landed THEN bronze
                 ELSE Append(bronze, [query |-> landing.query, epoch |-> landing.epoch,
                                      from |-> landing.done, to |-> landing.planned])
    /\ bronzeRun' = [bronzeRun EXCEPT !.pc = "commit"]
    /\ UNCHANGED <<log, landing, silverVars, alertVars, spent>>

BronzeCommits ==
    /\ bronzeRun.pc = "commit"
    /\ landing' = Mark(landing)
    /\ bronzeRun' = [bronzeRun EXCEPT !.pc = "select"]
    /\ UNCHANGED <<log, bronze, silverVars, alertVars, spent>>

BronzeDies ==
    /\ bronzeRun.pc \notin Ended
    /\ Crashes < MaxCrashes
    /\ bronzeRun' = [bronzeRun EXCEPT !.pc = "failed"]
    /\ Spend("bronzeCrashes")
    /\ UNCHANGED <<log, bronze, landing, silverVars, alertVars>>

\* The checkpoint directory is gone: the next start is a new query, from the
\* earliest offset.
BronzeCheckpointLost ==
    /\ bronzeRun.pc \in Ended
    /\ Losses < MaxLosses
    /\ landing' = Fresh(landing.query + 1, Nowhere)
    /\ Spend("bronzeLosses")
    /\ UNCHANGED <<log, bronze, bronzeRun, silverVars, alertVars>>

BronzeSteps == BronzePlans \/ BronzeDone \/ BronzeWrites \/ BronzeCommits

-----------------------------------------------------------------------------
(***************************************************************************)
(* silver_stream.run(once=True): a stream over the appends of the bronze   *)
(* table, each micro-batch handed to foreachBatch.                         *)
(***************************************************************************)

\* The messages a bronze append holds, by partition and offset.
Messages == {po \in Partitions \X (1..MaxMessages) : po[2] <= Len(log[po[1]])}
Holds(append, po) == append.from[po[1]] < po[2] /\ po[2] <= append.to[po[1]]
PayloadAt(po)     == log[po[1]][po[2]]

\* Does a range of bronze appends hold a message that fails the contract?
Refuses(from, to) ==
    \E i \in from + 1..to, po \in Messages :
        Holds(bronze[i], po) /\ ~Passes(PayloadAt(po))

\* The bronze table is there once a bronze query has started.
StartSilver ==
    /\ silverRun.pc \in Ended
    /\ silverRun' = [pc     |-> IF bronzeRun.pc = "idle" THEN "failed" ELSE "select",
                     target |-> Len(bronze)]
    /\ UNCHANGED <<log, bronzeVars, silver, quarantine, conforming, alertVars, spent>>

SilverPlans ==
    /\ silverRun.pc = "select"
    /\ Pending(conforming) \/ conforming.done # silverRun.target
    /\ conforming' = IF Pending(conforming) THEN conforming
                     ELSE Plan(conforming, silverRun.target)
    /\ silverRun' = [silverRun EXCEPT !.pc = "write"]
    /\ UNCHANGED <<log, bronzeVars, silver, quarantine, alertVars, spent>>

SilverDone ==
    /\ silverRun.pc = "select"
    /\ ~Pending(conforming) /\ conforming.done = silverRun.target
    /\ silverRun' = [silverRun EXCEPT !.pc = "succeeded"]
    /\ UNCHANGED <<log, bronzeVars, silver, quarantine, conforming, alertVars, spent>>

BatchInclusive == [from |-> IF conforming.done = 0 THEN 0 ELSE conforming.done - 1,
                   to |-> conforming.planned]    \* a slip: the start is inclusive
Batch          == [from |-> conforming.done, to |-> conforming.planned]

\* A slip: a batch whose passing half is in silver already is taken for done.
SilverWritesOnce ==
    /\ silverRun.pc = "write"
    /\ IF \E i \in DOMAIN silver : silver[i] = Batch
       THEN /\ silverRun' = [silverRun EXCEPT !.pc = "commit"]
            /\ UNCHANGED silver
       ELSE /\ silver' = Append(silver, Batch)
            /\ silverRun' = [silverRun EXCEPT !.pc = IF Refuses(Batch.from, Batch.to)
                                                     THEN "quarantine" ELSE "commit"]
    /\ UNCHANGED <<log, bronzeVars, quarantine, conforming, alertVars, spent>>

\* handle: append the passing half, empty or not ...
SilverWrites ==
    /\ silverRun.pc = "write"
    /\ silver' = Append(silver, Batch)
    /\ silverRun' = [silverRun EXCEPT !.pc = IF Refuses(Batch.from, Batch.to)
                                             THEN "quarantine" ELSE "commit"]
    /\ UNCHANGED <<log, bronzeVars, quarantine, conforming, alertVars, spent>>

\* ... then the failing half, if there is one.
SilverQuarantines ==
    /\ silverRun.pc = "quarantine"
    /\ quarantine' = Append(quarantine, Batch)
    /\ silverRun' = [silverRun EXCEPT !.pc = "commit"]
    /\ UNCHANGED <<log, bronzeVars, silver, conforming, alertVars, spent>>

SilverCommits ==
    /\ silverRun.pc = "commit"
    /\ conforming' = Mark(conforming)
    /\ silverRun' = [silverRun EXCEPT !.pc = "select"]
    /\ UNCHANGED <<log, bronzeVars, silver, quarantine, alertVars, spent>>

SilverDies ==
    /\ silverRun.pc \notin Ended
    /\ Crashes < MaxCrashes
    /\ silverRun' = [silverRun EXCEPT !.pc = "failed"]
    /\ Spend("silverCrashes")
    /\ UNCHANGED <<log, bronzeVars, silver, quarantine, conforming, alertVars>>

SilverCheckpointLost ==
    /\ silverRun.pc \in Ended
    /\ Losses < MaxLosses
    /\ conforming' = Fresh(conforming.query + 1, 0)
    /\ Spend("silverLosses")
    /\ UNCHANGED <<log, bronzeVars, silver, quarantine, silverRun, alertVars>>

SilverSteps == SilverPlans \/ SilverDone \/ SilverWrites \/ SilverQuarantines \/ SilverCommits

-----------------------------------------------------------------------------
(***************************************************************************)
(* alert_job.run                                                           *)
(***************************************************************************)

\* The bronze appends that silver appends 1..n hold, and whether they carry a
\* message the sweep rule flags.
Conformed(n)      == UNION {silver[i].from + 1..silver[i].to : i \in 1..n}
HasAlerts(n)      == \E i \in Conformed(n), po \in Messages :
                         Holds(bronze[i], po) /\ Alerting(PayloadAt(po))

StartAlerts ==
    /\ alertRun.pc \in Ended
    /\ alertRun' = [pc |-> IF silver = <<>> THEN "failed"    \* no table to read
                                           ELSE "write",
                    target |-> Len(silver)]
    /\ UNCHANGED <<log, bronzeVars, silverVars, alerts, spent>>

\* A slip: the alerts are appended as a partition only once.
AlertsWriteOnce ==
    /\ alertRun.pc = "write"
    /\ alerts' = IF HasAlerts(alertRun.target) /\ alerts = 0 THEN alertRun.target ELSE alerts
    /\ alertRun' = [alertRun EXCEPT !.pc = "succeeded"]
    /\ UNCHANGED <<log, bronzeVars, silverVars, spent>>

\* overwritePartitions by rule; an empty report replaces nothing.
AlertsWrite ==
    /\ alertRun.pc = "write"
    /\ alerts' = IF HasAlerts(alertRun.target) THEN alertRun.target ELSE alerts
    /\ alertRun' = [alertRun EXCEPT !.pc = "succeeded"]
    /\ UNCHANGED <<log, bronzeVars, silverVars, spent>>

AlertsDie ==
    /\ alertRun.pc \notin Ended
    /\ Crashes < MaxCrashes
    /\ alertRun' = [alertRun EXCEPT !.pc = "failed"]
    /\ Spend("alertCrashes")
    /\ UNCHANGED <<log, bronzeVars, silverVars, alerts>>

-----------------------------------------------------------------------------
Outside ==
    \/ \E p \in Partitions, t \in Transactions : Produce(p, t)
    \/ BronzeDies \/ SilverDies \/ AlertsDie
    \/ BronzeCheckpointLost \/ SilverCheckpointLost

StreamNext ==
    \/ Outside
    \/ StartBronze \/ BronzeSteps
    \/ StartSilver \/ SilverSteps
    \/ StartAlerts \/ AlertsWrite

StreamSpec == StreamInit /\ [][StreamNext]_streamVars

-----------------------------------------------------------------------------
(***************************************************************************)
(* Properties.                                                             *)
(***************************************************************************)

Positions  == [Partitions -> 0..MaxMessages]
Ranges(S)  == [from : S, to : S]
Checkpoints(S, losses) ==
    [query : 0..losses, epoch : Nat, done : S, planned : S]
Runs(S, steps) == [pc : Ended \cup steps, target : S]

\* Type correctness: the tables hold ranges of what their source has, and the
\* checkpoints are positions in it.
StreamTypeOK ==
    /\ log \in [Partitions -> Seq(Transactions)]
    /\ landing \in Checkpoints(Positions, MaxLosses)
    /\ \A p \in Partitions : /\ landing.done[p] <= landing.planned[p]
                             /\ landing.planned[p] <= Len(log[p])
    /\ bronzeRun \in Runs(Positions, {"select", "write", "commit"})
    /\ \A i \in DOMAIN bronze :
          bronze[i] \in [query : 0..MaxLosses, epoch : Nat, from : Positions, to : Positions]
    /\ conforming \in Checkpoints(0..Len(bronze), MaxLosses)
    /\ silverRun \in Runs(0..Len(bronze), {"select", "write", "quarantine", "commit"})
    /\ \A i \in DOMAIN silver : silver[i] \in Ranges(0..Len(bronze))
    /\ \A i \in DOMAIN quarantine : quarantine[i] \in Ranges(0..Len(bronze))
    /\ alerts \in 0..Len(silver)
    /\ alertRun \in Runs(0..Len(silver), {"write"})

\* How many rows of bronze are copies of one message.
BronzeCopies(po) == Cardinality({i \in DOMAIN bronze : Holds(bronze[i], po)})

\* "Exactly-once - a restart resumes from the last committed offset rather
\* than reprocessing or dropping messages" (bronze_stream.py): every message
\* behind the checkpoint is in bronze, and no message is there more often than
\* once per life of the checkpoint, wherever the query died.
BronzeExactlyOnce ==
    \A po \in Messages :
        /\ po[2] <= landing.done[po[1]] => BronzeCopies(po) >= 1
        /\ BronzeCopies(po) <= 1 + spent.bronzeLosses

\* How many appends of a table hold the rows of one bronze append.
Appends(table, i) == Cardinality({a \in DOMAIN table : table[a].from < i /\ i <= table[a].to})

\* Nothing is dropped between bronze and silver: what is behind the silver
\* checkpoint has been written, its failing messages to quarantine, even if
\* the query died between the two writes of a batch.
NothingDropped ==
    \A i \in 1..conforming.done :
        /\ Appends(silver, i) >= 1
        /\ Refuses(i - 1, i) => Appends(quarantine, i) >= 1

\* A row is repeated in silver or in quarantine only because its batch was run
\* again: at most once for every death of the query or loss of its checkpoint.
RepeatsOnlyOnReplay ==
    \A i \in DOMAIN bronze, table \in {silver, quarantine} :
        Appends(table, i) <= 1 + spent.silverCrashes + spent.silverLosses

InSilver(po)     == \E i \in Conformed(Len(silver)) : Holds(bronze[i], po)
InQuarantine(po) == \E a \in DOMAIN quarantine :
                        \E i \in quarantine[a].from + 1..quarantine[a].to : Holds(bronze[i], po)

\* "A malformed transaction must not reach the rules"
\* (txn_monitoring_transaction.yaml:2-3): what the alert job finds in silver is
\* complete, in range and consistent, although a rule over an absent field is
\* neither true nor false and breaks nothing.
ScreenedRowsAreMeaningful ==
    \A po \in Messages :
        InSilver(po) /\ Passes(PayloadAt(po)) => Meaningful(ConformTxn(PayloadAt(po)))

\* As long as its checkpoint survives, bronze implements an exactly-once
\* landing: the rows it holds of a partition, one append after the other, are
\* what was sent there up to some offset.
RowsOf(p) == FlattenSeq([i \in DOMAIN bronze |->
                            SubSeq(log[p], bronze[i].from[p] + 1, bronze[i].to[p])])
Log == INSTANCE LandedLog WITH Payloads <- Transactions, sent <- log,
                               landed <- [p \in Partitions |-> RowsOf(p)]
BronzeLandsTheLog == Log!LogSpec

(***************************************************************************)
(* What documents say of the stream, and the code does not do.             *)
(***************************************************************************)

\* "Each stage is idempotent [...] so a retried run converges"
\* (txn_monitoring_stream.py:11-12): once the silver query is done, it holds
\* each row once.
SilverConverges ==
    silverRun.pc = "succeeded" => \A i \in 1..conforming.done : Appends(silver, i) = 1
=============================================================================
