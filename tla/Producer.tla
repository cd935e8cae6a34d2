------------------------------ MODULE Producer ------------------------------
(***************************************************************************)
(* producer.py in the detail TxnStream leaves out: the client it publishes *)
(* through.  Messages wait in the client's queue, go out in requests of    *)
(* which several may be unanswered, and come back to the queue when a      *)
(* request fails.  The client, librdkafka with the defaults the producer   *)
(* keeps, is external: it does not make retries idempotent, and gives a    *)
(* message up after its timeout.  A request carries one message here.      *)
(*                                                                         *)
(* A message is known by its position in the rows to publish.              *)
(***************************************************************************)
EXTENDS Integers, SequencesExt

CONSTANTS
    Csvs,            \* the files the producer may be given
    Limit,           \* --limit, zero for none
    Partitions,
    PartitionOf,     \* the partitioner: from a key to a partition
    QueueCapacity,   \* messages the client holds, sent or not
    FlushEvery,      \* a hundred thousand in the code
    MaxFaults        \* bound: requests that fail, timeouts, crashes

ASSUME ProducerAssumption ==
    /\ QueueCapacity \in Nat \ {0} /\ FlushEvery \in Nat \ {0} /\ Limit \in Nat
    /\ IsFiniteSet(Partitions)
    /\ \A file \in Csvs :
          /\ file \in Seq(Range(file))
          /\ \A i \in DOMAIN file : /\ file[i].step \in Int
                                    /\ PartitionOf[file[i].name_orig] \in Partitions

VARIABLES
    df,        \* the rows to publish, of the file read
    status,    \* the producer: running, done or dead
    sent,      \* messages handed to the client in this run
    queue,     \* waiting in the client
    flight,    \* requests sent and not answered: <<message, what the broker did>>
    topic,     \* per partition, the messages the broker wrote
    retried,   \* history: messages sent out more than once,
    expired,   \*          given up,
    faults     \*          and the faults so far
producerVars == <<df, status, sent, queue, flight, topic, retried, expired, faults>>

\* df.sort_values("step", kind="stable"): in place k, the row before which k - 1
\* rows belong.
Earlier(file, i, j) == \/ file[i].step < file[j].step
                       \/ file[i].step = file[j].step /\ i < j
Place(file, i) == Cardinality({j \in DOMAIN file : Earlier(file, j, i)}) + 1
EventTimeOrder(file) ==
    [k \in DOMAIN file |-> CHOOSE i \in DOMAIN file : Place(file, i) = k]

RowsInEventTime(file) ==
    LET order == EventTimeOrder(file)
        n     == IF Limit = 0 \/ Limit > Len(file) THEN Len(file) ELSE Limit
    IN  [i \in 1..n |-> file[order[i]]]

CsvRows       == UNION {Range(file) : file \in Csvs}
Row(m)        == df[m]
Messages      == DOMAIN df
RoundRobin(m) ==    \* a slip: no key
    CHOOSE p \in Partitions : (p - m) % Cardinality(Partitions) = 0
PartitionOfMessage(m) == PartitionOf[Row(m).name_orig]
Outstanding   == Len(queue) + Len(flight)

ProducerInit ==
    /\ df \in {RowsInEventTime(file) : file \in Csvs}
    /\ status = "running" /\ sent = 0
    /\ queue = <<>> /\ flight = <<>>
    /\ topic = [p \in Partitions |-> <<>>]
    /\ retried = {} /\ expired = {} /\ faults = 0

Fault == faults < MaxFaults /\ faults' = faults + 1

-----------------------------------------------------------------------------
(***************************************************************************)
(* run().  A full queue makes produce() raise, and the loop polls until    *)
(* there is room; flush() waits until nothing is outstanding.              *)
(***************************************************************************)
Flushing == sent > 0 /\ sent % FlushEvery = 0 /\ Outstanding > 0

Produce ==
    /\ status = "running" /\ sent + 1 \in Messages
    /\ Outstanding < QueueCapacity /\ ~Flushing
    /\ queue' = Append(queue, sent + 1)
    /\ sent' = sent + 1
    /\ UNCHANGED <<df, status, flight, topic, retried, expired, faults>>

FinishUnflushed ==    \* a slip: the last flush is missing, and what waits is gone
    /\ status = "running" /\ sent + 1 \notin Messages
    /\ status' = "done"
    /\ queue' = <<>> /\ flight' = <<>>
    /\ UNCHANGED <<df, sent, topic, retried, expired, faults>>

Finish ==
    /\ status = "running" /\ sent + 1 \notin Messages /\ Outstanding = 0
    /\ status' = "done"
    /\ UNCHANGED <<df, sent, queue, flight, topic, retried, expired, faults>>

\* What was outstanding is gone; a rerun starts the file over.
Crash ==
    /\ status = "running" /\ Fault
    /\ status' = "dead"
    /\ queue' = <<>> /\ flight' = <<>>
    /\ UNCHANGED <<df, sent, topic, retried, expired>>

Rerun ==
    /\ status = "dead"
    /\ status' = "running" /\ sent' = 0
    /\ retried' = retried \cup 1..sent
    /\ UNCHANGED <<df, queue, flight, topic, expired, faults>>

-----------------------------------------------------------------------------
(***************************************************************************)
(* The client and the broker.                                              *)
(***************************************************************************)
Send ==
    /\ queue # <<>>
    /\ queue' = Tail(queue) /\ flight' = Append(flight, <<Head(queue), "sent">>)
    /\ UNCHANGED <<df, status, sent, topic, retried, expired, faults>>

\* Requests of a connection are handled in turn.
NextRequest(k) == flight[k][2] = "sent" /\ \A j \in 1..k - 1 : flight[j][2] # "sent"

Write(k) ==
    /\ NextRequest(k)
    /\ flight' = [flight EXCEPT ![k][2] = "written"]
    /\ LET p == PartitionOfMessage(flight[k][1])
       IN  topic' = [topic EXCEPT ![p] = Append(@, flight[k][1])]
    /\ UNCHANGED <<df, status, sent, queue, retried, expired, faults>>

Reject(k) ==
    /\ NextRequest(k) /\ Fault
    /\ flight' = [flight EXCEPT ![k][2] = "rejected"]
    /\ UNCHANGED <<df, status, sent, queue, topic, retried, expired>>

Acknowledged ==
    /\ flight # <<>> /\ Head(flight)[2] = "written"
    /\ flight' = Tail(flight)
    /\ UNCHANGED <<df, status, sent, queue, topic, retried, expired, faults>>

\* A rejected request, or one whose acknowledgement is lost.
Retry ==
    /\ flight # <<>>
    /\ \/ Head(flight)[2] = "rejected" /\ UNCHANGED faults
       \/ Head(flight)[2] = "written" /\ Fault
    /\ flight' = Tail(flight)
    /\ queue' = <<Head(flight)[1]>> \o queue
    /\ retried' = retried \cup {Head(flight)[1]}
    /\ UNCHANGED <<df, status, sent, topic, expired>>

\* Nobody asked for delivery reports: run() does not get to know.
Expire ==
    /\ queue # <<>> /\ Fault
    /\ queue' = Tail(queue)
    /\ expired' = expired \cup {Head(queue)}
    /\ UNCHANGED <<df, status, sent, flight, topic, retried>>

ProducerNext ==
    \/ Produce \/ Finish \/ Crash \/ Rerun
    \/ Send \/ Acknowledged \/ Retry \/ Expire
    \/ \E k \in DOMAIN flight : Write(k) \/ Reject(k)

ProducerSpec ==
    /\ ProducerInit /\ [][ProducerNext]_producerVars

-----------------------------------------------------------------------------
Written == UNION {Range(topic[p]) : p \in Partitions}
Repeated == {m \in Messages : \E p \in Partitions :
                \E i, j \in DOMAIN topic[p] : i # j /\ topic[p][i] = m /\ topic[p][j] = m}

\* A run that reports `done` has every message of the file on the topic: the
\* client's timeout is the only way to lose one.
FlushedMeansWritten == status = "done" => Messages \subseteq Written \cup expired

\* "All of an account's transactions land on one partition and a stateful rule
\* downstream sees them in order" (producer.py:7-8): so it is for messages the
\* client did not have to send again, each of which is there at most once.
AccountsInOrder ==
    \A p, q \in Partitions : \A i \in DOMAIN topic[p], j \in DOMAIN topic[q] :
        LET m == topic[p][i]
            o == topic[q][j]
        IN  (/\ Row(m).name_orig = Row(o).name_orig /\ <<p, i>> # <<q, j>>
             /\ {m, o} \cap retried = {})
            => p = q /\ (i < j => m < o /\ Row(m).step <= Row(o).step)
=============================================================================
