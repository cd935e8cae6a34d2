------------------------ MODULE DetectedStreamProofs ------------------------
(***************************************************************************)
(* Proofs about DetectedStream: that its parts keep to the specifications  *)
(* of the producer and of the stream; from what is proved of those, that   *)
(* the silver table shows the published file, and each row once unless a   *)
(* query or the client repeated it; and what the windowed rules find in    *)
(* such a table, for any thresholds and windows.                           *)
(***************************************************************************)
EXTENDS DetectedStream, ProducerProofs

(***************************************************************************)
(* The parts keep to their specifications.                                 *)
(***************************************************************************)
Proved == INSTANCE TxnProofs WITH
    Transactions <- CsvRows,
    log          <- [p \in Partitions |-> [o \in DOMAIN topic[p] |-> Row(topic[p][o])]],
    alerts       <- 0,
    alertRun     <- [pc |-> "idle", target |-> 0],
    stage <- 0, try <- 1, started <- FALSE, outcome <- "none", Retries <- 0

\* The instances judge a message alike.
LEMMA OneContract ==
    \A t : /\ Stream!Passes(t) <=> Passes(t)
           /\ Proved!Passes(t) <=> Passes(t)
           /\ Proved!ConformTxn(t) = ConformTxn(t)
<1>1. /\ Stream!MoneyFields = MoneyFields
      /\ Proved!MoneyFields = MoneyFields
  BY DEF MoneyFields, Stream!MoneyFields, Proved!MoneyFields
<1>2. \A t : /\ Stream!ConformTxn(t) = ConformTxn(t)
             /\ Proved!ConformTxn(t) = ConformTxn(t)
  BY DEF ConformTxn, Stream!ConformTxn, Proved!ConformTxn, Fields, Stream!Fields,
     Proved!Fields, MoneyFields, Stream!MoneyFields, Proved!MoneyFields, Decimal,
     Stream!Decimal, Proved!Decimal
<1>3. \A a, b : /\ Stream!AtLeast(a, b) = AtLeast(a, b)
                /\ Proved!AtLeast(a, b) = AtLeast(a, b)
  BY DEF AtLeast, Stream!AtLeast, Proved!AtLeast, Known, Stream!Known, Proved!Known
<1>4. \A a, S : /\ Stream!IsIn(a, S) = IsIn(a, S)
                /\ Proved!IsIn(a, S) = IsIn(a, S)
  BY DEF IsIn, Stream!IsIn, Proved!IsIn, Known, Stream!Known, Proved!Known
<1>5. \A t : /\ Stream!TxnConditions(t) = TxnConditions(t)
             /\ Proved!TxnConditions(t) = TxnConditions(t)
  BY DEF TxnConditions, Stream!TxnConditions, Proved!TxnConditions, Above, Stream!Above,
     Proved!Above, IsNotNull, Stream!IsNotNull, Proved!IsNotNull, Or, Stream!Or, Proved!Or,
     Not, Stream!Not, Proved!Not, IsIn, Stream!IsIn, Proved!IsIn, Known, Stream!Known,
     Proved!Known, DebitSide, Stream!DebitSide, Proved!DebitSide, Within, Stream!Within,
     Proved!Within, Minus, Stream!Minus, Proved!Minus, Cents100, Stream!Cents100,
     Proved!Cents100, Equal, Stream!Equal, Proved!Equal
<1>6. /\ Stream!Lowest = Lowest
      /\ Proved!Lowest = Lowest
  BY DEF Lowest, Stream!Lowest, Proved!Lowest, MoneyFields, Stream!MoneyFields,
     Proved!MoneyFields
<1>7. /\ Stream!AllowedValues = AllowedValues
      /\ Proved!AllowedValues = AllowedValues
  BY DEF AllowedValues, Stream!AllowedValues, Proved!AllowedValues, TxnTypes, Stream!TxnTypes,
     Proved!TxnTypes
<1>8. \A t : /\ Stream!FieldRulesBroken(t) = FieldRulesBroken(t)
             /\ Proved!FieldRulesBroken(t) = FieldRulesBroken(t)
  BY <1>3, <1>4, <1>6, <1>7 DEF FieldRulesBroken, Stream!FieldRulesBroken,
     Proved!FieldRulesBroken, Fields, Stream!Fields, Proved!Fields, IsNotNull,
     Stream!IsNotNull, Proved!IsNotNull, Violated, Stream!Violated, Proved!Violated
<1>9. \A t : /\ Stream!RulesBroken(t) = RulesBroken(t)
             /\ Proved!RulesBroken(t) = RulesBroken(t)
  BY <1>5, <1>8 DEF RulesBroken, Stream!RulesBroken, Proved!RulesBroken, Violated,
     Stream!Violated, Proved!Violated
<1> QED  BY <1>2, <1>9 DEF Passes, Stream!Passes, Proved!Passes

\* A step here is one of the producer and its client, or none of theirs.
LEMMA DetectedIsProduced == DetectedSpec => ProducerSpec
<1>1. DetectedInit => ProducerInit
  BY DEF DetectedInit
<1>2. [DetectedNext]_detectedVars => [ProducerNext]_producerVars
  <2> SUFFICES ASSUME [DetectedNext]_detectedVars PROVE [ProducerNext]_producerVars
    OBVIOUS
  <2>1. CASE UNCHANGED detectedVars
    BY <2>1 DEF detectedVars
  <2>2. ASSUME NEW k \in DOMAIN flight, Arrives(k) PROVE ProducerNext
    BY <2>2 DEF Arrives, ProducerNext
  <2>3. CASE ClientSteps
    BY <2>3 DEF ClientSteps, ProducerNext
  <2>4. CASE UNCHANGED producerVars
    BY <2>4
  <2> QED  BY <2>1, <2>2, <2>3, <2>4 DEF DetectedNext
<1> QED  BY <1>1, <1>2, PTL DEF DetectedSpec, ProducerSpec

\* And it is one of the stream, or none of its: what a message leaves on the topic
\* is a payload of the file, in its partition.
LEMMA DetectedIsStreamed == DetectedSpec => Proved!StreamSpec
<1>1. ClientInvariant => \A k \in DOMAIN flight : /\ Row(flight[k][1]) \in CsvRows
                                                  /\ PartitionOfMessage(flight[k][1]) \in Partitions
  <2> SUFFICES ASSUME ClientInvariant, NEW k \in DOMAIN flight
               PROVE  /\ Row(flight[k][1]) \in CsvRows
                      /\ PartitionOfMessage(flight[k][1]) \in Partitions
    OBVIOUS
  <2>1. ClientTypes
    BY DEF ClientInvariant
  <2>2. flight[k][1] \in Messages
    BY <2>1, ClientFacts DEF ClientTypes
  <2> QED  BY <2>1, <2>2, ClientFacts DEF ClientTypes, Ordered, Row, Messages
<1>2. DetectedInit => Proved!StreamInit
  BY DEF DetectedInit, Stream!StreamInit, Proved!StreamInit, Stream!Fresh, Proved!Fresh,
         Stream!Nowhere, Proved!Nowhere
<1>3. ClientInvariant /\ [DetectedNext]_detectedVars => [Proved!StreamNext]_Proved!streamVars
  <2> SUFFICES ASSUME ClientInvariant, [DetectedNext]_detectedVars
               PROVE  [Proved!StreamNext]_Proved!streamVars
    OBVIOUS
  <2>1. CASE UNCHANGED <<df, topic, streamVars>>
    BY <2>1 DEF streamVars, Proved!streamVars, Proved!bronzeVars, Proved!silverVars,
       Proved!alertVars, Row
  <2>2. ASSUME NEW k \in DOMAIN flight, Arrives(k) PROVE Proved!StreamNext
    <3>1. Row(flight[k][1]) \in CsvRows /\ PartitionOfMessage(flight[k][1]) \in Partitions
      BY <1>1
    <3>2. Proved!Outside
      BY <2>2, <3>1, Zenon DEF Arrives, Stream!Produce, Proved!Produce, Stream!Spend,
         Proved!Spend,
         Stream!bronzeVars, Proved!bronzeVars, Stream!silverVars, Proved!silverVars,
         Stream!alertVars, Proved!alertVars, Proved!Outside
    <3> QED  BY <3>2, Zenon DEF Proved!StreamNext
  <2>3. CASE ClientSteps /\ UNCHANGED streamVars
    <3>1. UNCHANGED <<df, topic>>
      BY <2>3 DEF ClientSteps, Produce, Finish, Crash, Rerun, Send, Acknowledged, Retry,
         Expire, Reject
    <3> QED  BY <2>1, <2>3, <3>1
  <2>4. CASE StreamSteps
    <3> USE DEF Stream!bronzeVars, Proved!bronzeVars, Stream!silverVars, Proved!silverVars,
            Stream!alertVars, Proved!alertVars, Stream!Ended, Proved!Ended
    <3>1. Stream!StartBronze => Proved!StartBronze
      BY DEF Stream!StartBronze, Proved!StartBronze, Stream!Ends, Proved!Ends
    <3>2. Stream!BronzePlans => Proved!BronzePlans
      BY DEF Stream!BronzePlans, Proved!BronzePlans, Stream!Pending, Proved!Pending,
         Stream!Plan, Proved!Plan
    <3>3. Stream!BronzeDone => Proved!BronzeDone
      BY DEF Stream!BronzeDone, Proved!BronzeDone, Stream!Pending, Proved!Pending
    <3>4. Stream!BronzeWrites => Proved!BronzeWrites
      BY DEF Stream!BronzeWrites, Proved!BronzeWrites, Stream!Landed, Proved!Landed
    <3>5. Stream!BronzeCommits => Proved!BronzeCommits
      BY DEF Stream!BronzeCommits, Proved!BronzeCommits, Stream!Mark, Proved!Mark
    <3>6. Stream!BronzeDies => Proved!BronzeDies
      BY DEF Stream!BronzeDies, Proved!BronzeDies, Stream!Spend, Proved!Spend, Stream!Crashes,
         Proved!Crashes
    <3>7. Stream!BronzeCheckpointLost => Proved!BronzeCheckpointLost
      BY DEF Stream!BronzeCheckpointLost, Proved!BronzeCheckpointLost, Stream!Spend,
         Proved!Spend, Stream!Losses, Proved!Losses, Stream!Fresh, Proved!Fresh,
         Stream!Nowhere, Proved!Nowhere
    <3>8. Stream!StartSilver => Proved!StartSilver
      BY DEF Stream!StartSilver, Proved!StartSilver
    <3>9. Stream!SilverPlans => Proved!SilverPlans
      BY DEF Stream!SilverPlans, Proved!SilverPlans, Stream!Pending, Proved!Pending,
         Stream!Plan, Proved!Plan
    <3>10. Stream!SilverDone => Proved!SilverDone
      BY DEF Stream!SilverDone, Proved!SilverDone, Stream!Pending, Proved!Pending
    <3>11. Stream!SilverWrites => Proved!SilverWrites
      <4>1. Stream!Batch = Proved!Batch
        BY DEF Stream!Batch, Proved!Batch
      <4>2. Stream!Refuses(Stream!Batch.from, Stream!Batch.to)
            <=> Proved!Refuses(Proved!Batch.from, Proved!Batch.to)
        <5>1. \A po : Stream!PayloadAt(po) = Proved!PayloadAt(po)
          BY DEF Stream!PayloadAt, Proved!PayloadAt
        <5>2. \A append, po : Stream!Holds(append, po) <=> Proved!Holds(append, po)
          BY DEF Stream!Holds, Proved!Holds
        <5>3. Stream!Messages = Proved!Messages
          BY DEF Stream!Messages, Proved!Messages
        <5> QED  BY <4>1, <5>1, <5>2, <5>3, OneContract, Zenon DEF Stream!Refuses,
                    Proved!Refuses
      <4> QED  BY <4>1, <4>2, Zenon DEF Stream!SilverWrites, Proved!SilverWrites
    <3>12. Stream!SilverQuarantines => Proved!SilverQuarantines
      BY DEF Stream!SilverQuarantines, Proved!SilverQuarantines, Stream!Batch, Proved!Batch
    <3>13. Stream!SilverCommits => Proved!SilverCommits
      BY DEF Stream!SilverCommits, Proved!SilverCommits, Stream!Mark, Proved!Mark
    <3>14. Stream!SilverDies => Proved!SilverDies
      BY DEF Stream!SilverDies, Proved!SilverDies, Stream!Spend, Proved!Spend, Stream!Crashes,
         Proved!Crashes
    <3>15. Stream!SilverCheckpointLost => Proved!SilverCheckpointLost
      BY DEF Stream!SilverCheckpointLost, Proved!SilverCheckpointLost, Stream!Spend,
         Proved!Spend, Stream!Losses, Proved!Losses, Stream!Fresh, Proved!Fresh
    <3>16. Stream!BronzeSteps => Proved!BronzeSteps
      BY <3>2, <3>3, <3>4, <3>5 DEF Stream!BronzeSteps, Proved!BronzeSteps
    <3>17. Stream!SilverSteps => Proved!SilverSteps
      BY <3>9, <3>10, <3>11, <3>12, <3>13 DEF Stream!SilverSteps, Proved!SilverSteps
    <3> QED  BY <2>4, <3>1, <3>6, <3>7, <3>8, <3>14, <3>15, <3>16, <3>17, Zenon DEF
                StreamSteps, Proved!StreamNext, Proved!Outside
  <2> QED  BY <2>1, <2>2, <2>3, <2>4 DEF DetectedNext, detectedVars, producerVars
<1> QED  BY <1>1, <1>2, <1>3, DetectedIsProduced, ClientIsSound, PTL DEF DetectedSpec,
            Proved!StreamSpec

\* What the proofs about the stream assume of the payloads and the bounds.
LEMMA PayloadsAreTyped ==
    /\ 0 \in Nat /\ {MaxMessages, MaxCrashes, MaxLosses} \subseteq Nat
    /\ \A t \in CsvRows :
          /\ DOMAIN t = Proved!Fields
          /\ \A field \in Proved!MoneyFields \cup {"step"} : t[field] \in Int \cup {Null}
<1>1. ASSUME NEW t \in CsvRows PROVE t.step \in Int
  BY ProducerAssumption DEF CsvRows, Range
<1>2. \A t \in CsvRows :
         /\ DOMAIN t = Proved!Fields
         /\ \A field \in Proved!MoneyFields \cup {"step"} : t[field] \in Int \cup {Null}
  BY <1>1, StreamAssumption DEF Fields, Proved!Fields, MoneyFields, Proved!MoneyFields
<1> QED  BY <1>2, StreamAssumption

\* What the contract passes.
LEMMA PassingRows ==
    ASSUME NEW t \in CsvRows, Passes(t)
    PROVE  /\ ConformTxn(t).step \in Nat /\ ConformTxn(t).amount \in Nat
           /\ ConformTxn(t).type # Null /\ ConformTxn(t).name_orig = t.name_orig
<1> DEFINE c == ConformTxn(t)
<1>1. Proved!Passes(t) /\ Proved!ConformTxn(t) = c
  BY OneContract
<1>2. /\ 0 \in Nat /\ {MaxMessages, MaxCrashes, MaxLosses} \subseteq Nat
      /\ \A u \in CsvRows :
            /\ DOMAIN u = Proved!Fields
            /\ \A field \in Proved!MoneyFields \cup {"step"} : u[field] \in Int \cup {Null}
  BY PayloadsAreTyped
<1>3. Proved!Meaningful(Proved!ConformTxn(t))
  BY <1>1, <1>2, NullAssumption, MaxCentsAssumption, Proved!ContractMakesMeaningful
<1>4. c.step = t.step /\ c.name_orig = t.name_orig
  BY DEF ConformTxn, Fields, MoneyFields
<1>5. t.step \in Int
  BY ProducerAssumption DEF CsvRows, Range
<1> HIDE DEF c
<1>6. c.step >= 1 /\ c.amount \in 0..MaxCents /\ c.type # Null
  BY <1>1, <1>3 DEF Proved!Meaningful, Proved!MoneyFields, Proved!Fields
<1> QED  BY <1>4, <1>5, <1>6, MaxCentsAssumption DEF c

(***************************************************************************)
(* The silver table shows the published file.                              *)
(***************************************************************************)
Sound ==
    /\ ClientInvariant /\ FlushedMeansWritten
    /\ Proved!Topic /\ Proved!SoundBronze /\ Proved!SoundSilver
    /\ Proved!BronzeExactlyOnce /\ Proved!NothingDropped /\ Proved!RepeatsOnlyOnReplay

\* So all that is proved of the parts holds of the whole.
LEMMA DetectedIsSound == DetectedSpec => []Sound
<1>1. /\ 0 \in Nat /\ {MaxMessages, MaxCrashes, MaxLosses} \subseteq Nat
      /\ \A t \in CsvRows :
            /\ DOMAIN t = Proved!Fields
            /\ \A field \in Proved!MoneyFields \cup {"step"} : t[field] \in Int \cup {Null}
  BY PayloadsAreTyped
<1>2. Proved!StreamSpec => [](Proved!Topic /\ Proved!SoundBronze /\ Proved!SoundSilver)
  BY Proved!SilverIsSound, NullAssumption, MaxCentsAssumption, <1>1, PTL
<1>3. Proved!StreamSpec => []Proved!BronzeExactlyOnce
  BY Proved!BronzeLandsOnce, NullAssumption, MaxCentsAssumption, <1>1, PTL
<1>4. Proved!StreamSpec => []Proved!NothingDropped
  BY Proved!NothingIsDropped, NullAssumption, MaxCentsAssumption, <1>1, PTL
<1>5. Proved!StreamSpec => []Proved!RepeatsOnlyOnReplay
  BY Proved!RepeatsArePaidFor, NullAssumption, MaxCentsAssumption, <1>1, PTL
<1> QED  BY DetectedIsProduced, DetectedIsStreamed, ClientIsSound, NothingIsLostInTheClient,
            <1>2, <1>3, <1>4, <1>5, PTL DEF Sound

\* The message a row of silver comes from.
MessageOf(row) == topic[row[3][1]][row[3][2]]

\* What the types of the tables come to.
LEMMA TablesAreFinite ==
    ASSUME Sound
    PROVE  /\ IsFiniteSet(DOMAIN bronze) /\ IsFiniteSet(DOMAIN silver)
           /\ DOMAIN bronze = 1..Len(bronze) /\ Len(bronze) \in Nat
<1>1. DOMAIN bronze = 1..Len(bronze) /\ Len(bronze) \in Nat
  BY DEF Sound, Proved!SoundBronze, Proved!BronzeTypes
<1>2. DOMAIN silver = 1..Len(silver) /\ Len(silver) \in Nat
  BY DEF Sound, Proved!SoundSilver, Proved!SilverTypes
<1>3. IsFiniteSet(1..Len(bronze)) /\ IsFiniteSet(1..Len(silver))
  BY <1>1, <1>2, FS_Interval
<1> QED  BY <1>1, <1>2, <1>3

\* The places on the topic.
LEMMA PlacesOnTopic ==
    ASSUME ClientTypes, NEW po
    PROVE  po \in Stream!Messages <=>
              \E p \in Partitions : \E o \in DOMAIN topic[p] : po = <<p, o>> /\ o <= MaxMessages
<1>1. po \in Stream!Messages <=>
         \E p \in Partitions : \E o \in 1..MaxMessages : po = <<p, o>> /\ o <= Len(topic[p])
  BY ClientFacts DEF Stream!Messages
<1>2. MaxMessages \in Nat
  BY StreamAssumption
<1>3. \A p \in Partitions : DOMAIN topic[p] = 1..Len(topic[p]) /\ Len(topic[p]) \in Nat
  BY ClientFacts
<1> QED  BY <1>1, <1>2, <1>3

\* The rows of the table and the messages they come from.
LEMMA RowsOfFile ==
    ASSUME Sound
    PROVE  /\ IsFiniteSet(DOMAIN Accepted) /\ IsFiniteSet(SilverRows)
           /\ DOMAIN SilverTable = SilverRows
           /\ \A at \in SilverRows : /\ MessageOf(at) \in DOMAIN Accepted
                                     /\ SilverTable[at] = Accepted[MessageOf(at)]
           /\ \A m \in DOMAIN Accepted :
                 /\ Accepted[m].step \in Nat /\ Accepted[m].step \in Int
                 /\ Accepted[m].amount \in Nat /\ Accepted[m].type # Null
                 /\ Accepted[m].name_orig = Row(m).name_orig /\ m \in Messages
<1>1. ClientTypes
  BY DEF Sound, ClientInvariant
<1>2. IsFiniteSet(Messages)
  <2>1. PICK n \in Nat : Messages = 1..n
    BY <1>1 DEF ClientTypes, Ordered, Messages
  <2> QED  BY <2>1, FS_Interval
<1>3. DOMAIN Accepted = {m \in Messages : Passes(Row(m))}
  BY DEF Accepted
<1>4. \A m \in DOMAIN Accepted : /\ m \in Messages /\ Row(m) \in CsvRows /\ Passes(Row(m))
                                 /\ Accepted[m] = ConformTxn(Row(m))
  BY <1>1, <1>3 DEF Accepted, ClientTypes, Ordered, Messages, Row
<1>5. \A m \in DOMAIN Accepted :
         /\ Accepted[m].step \in Nat /\ Accepted[m].amount \in Nat
         /\ Accepted[m].type # Null /\ Accepted[m].name_orig = Row(m).name_orig
  BY <1>4, PassingRows
<1>6. ASSUME NEW at \in SilverRows
      PROVE  /\ MessageOf(at) \in DOMAIN Accepted
             /\ SilverTable[at] = Accepted[MessageOf(at)]
  <2>1. at[3] \in Stream!Messages /\ Passes(Stream!PayloadAt(at[3]))
    BY DEF SilverRows
  <2>2. at[3][1] \in Partitions /\ at[3][2] \in DOMAIN topic[at[3][1]]
    BY <1>1, <2>1, PlacesOnTopic
  <2>3. Stream!PayloadAt(at[3]) = Row(MessageOf(at))
    BY <2>2 DEF Stream!PayloadAt, MessageOf
  <2>4. MessageOf(at) \in Messages
    BY <1>1, <2>2, ClientFacts DEF MessageOf
  <2> QED  BY <2>1, <2>3, <2>4 DEF SilverTable, Accepted
<1>7. IsFiniteSet(SilverRows)
  <2> DEFINE A == DOMAIN silver
             B == DOMAIN bronze
             C == Stream!Messages
  <2>1. IsFiniteSet(A)
    BY TablesAreFinite
  <2>2. IsFiniteSet(B)
    BY TablesAreFinite
  <2>3. IsFiniteSet(C)
    <3>1. IsFiniteSet(Partitions) /\ IsFiniteSet(1..MaxMessages)
      BY ProducerAssumption, StreamAssumption, FS_Interval
    <3>2. IsFiniteSet(Partitions \X (1..MaxMessages))
      BY <3>1, FS_Product
    <3> QED  BY <3>2, FS_Subset DEF Stream!Messages
  <2> DEFINE flat == [row \in SilverRows |-> <<row[1], <<row[2], row[3]>>>>]
  <2>4. flat \in Injection(SilverRows, A \X (B \X C))
    <3>1. \A row \in SilverRows : /\ row[1] \in A /\ row[2] \in B /\ row[3] \in C
                                  /\ row = <<row[1], row[2], row[3]>>
      BY DEF SilverRows
    <3> HIDE DEF A, B, C
    <3> QED  BY <3>1 DEF Injection, IsInjective
  <2> HIDE DEF A, B, C, flat
  <2>5. IsFiniteSet(A \X (B \X C))
    BY <2>1, <2>2, <2>3, FS_Product
  <2> QED  BY <2>4, <2>5, FS_Injection
<1>8. IsFiniteSet(DOMAIN Accepted)
  BY <1>2, <1>3, FS_Subset
<1>9. DOMAIN SilverTable = SilverRows
  BY DEF SilverTable
<1> QED  BY <1>4, <1>5, <1>6, <1>7, <1>8, <1>9

\* Every message the contract passes is in a row.
AllThrough == \A m \in DOMAIN Accepted : \E at \in SilverRows : MessageOf(at) = m

\* So it is once the producer and the queries are done.
LEMMA EverythingComesThrough ==
    ASSUME Sound, status = "done", expired = {}, CaughtUp
    PROVE  AllThrough
<1> SUFFICES ASSUME NEW m \in DOMAIN Accepted
             PROVE  \E at \in SilverRows : MessageOf(at) = m
  BY DEF AllThrough
<1>1. ClientTypes /\ m \in Messages
  BY RowsOfFile DEF Sound, ClientInvariant
<1>2. m \in Written
  BY <1>1 DEF Sound, FlushedMeansWritten
<1>3. PICK p \in Partitions : \E o \in DOMAIN topic[p] : topic[p][o] = m
  BY <1>2 DEF Written, Range
<1>4. PICK o \in DOMAIN topic[p] : topic[p][o] = m
  BY <1>3
<1> DEFINE po   == <<p, o>>
           sent1 == [q \in Partitions |-> [n \in DOMAIN topic[q] |-> Row(topic[q][n])]]
<1>5. /\ Len(topic[p]) \in Nat /\ DOMAIN topic[p] = 1..Len(topic[p]) /\ o \in 1..Len(topic[p])
  BY <1>1, <1>4, ClientFacts
<1>6. Len(sent1[p]) = Len(topic[p])
  <2>1. sent1[p] = [n \in 1..Len(topic[p]) |-> Row(topic[p][n])]
    BY <1>5
  <2> QED  BY <1>5, <2>1
<1>7. o <= MaxMessages
  <2>1. Len(sent1[p]) <= spent.messages /\ spent.messages <= MaxMessages /\ spent.messages \in Nat
    BY DEF Sound, Proved!Topic, Proved!Budget
  <2> HIDE DEF sent1
  <2> QED  BY <1>5, <1>6, <2>1, StreamAssumption
<1>8. po \in Stream!Messages
  BY <1>1, <1>4, <1>7, PlacesOnTopic
<1>9. landing.done[p] = Len(topic[p]) /\ conforming.done = Len(bronze)
  BY <1>6 DEF CaughtUp, Stream!Ends
<1>10. PICK i \in DOMAIN bronze : Proved!Holds(bronze[i], po)
  BY <1>5, <1>9 DEF Sound, Proved!SoundBronze, Proved!NoGapBehindCheckpoint
<1>11. i \in 1..conforming.done
  BY <1>9, TablesAreFinite
<1>12. PICK a \in DOMAIN silver : silver[a].from < i /\ i <= silver[a].to
  BY <1>11 DEF Sound, Proved!SoundSilver, Proved!NothingBehind, Proved!Covers
<1>13. Passes(Stream!PayloadAt(po))
  <2>1. Stream!PayloadAt(po) = Row(m)
    BY <1>4 DEF Stream!PayloadAt
  <2> QED  BY <2>1 DEF Accepted
<1>14. Stream!Holds(bronze[i], po)
  BY <1>10 DEF Stream!Holds, Proved!Holds
<1> DEFINE at == <<a, i, po>>
<1>15. at \in SilverRows
  BY <1>8, <1>12, <1>13, <1>14 DEF SilverRows
<1>16. MessageOf(at) = m
  BY <1>4 DEF MessageOf
<1> QED  BY <1>15, <1>16

\* No message of an account is in two rows.
OnceEach(account) ==
    \A a, b \in SilverRows :
        MessageOf(a) = MessageOf(b) /\ Row(MessageOf(a)).name_orig = account => a = b
NoneRepeated(account) ==
    Repeated \cap {m \in Messages : Row(m).name_orig = account} = {}

\* The instance counts alike.
LEMMA OneCount == \A S : Proved!Cardinality(S) = Cardinality(S)
  BY DEF Proved!Cardinality, Cardinality

\* Two members of a set of one.
LEMMA AtMostOne ==
    ASSUME NEW S, IsFiniteSet(S), Cardinality(S) <= 1, NEW x \in S, NEW y \in S
    PROVE  x = y
<1> DEFINE rest == S \ {x}
<1>1. IsFiniteSet(rest) /\ Cardinality(rest) = Cardinality(S) - 1 /\ Cardinality(S) \in Nat
  BY FS_RemoveElement, FS_CardinalityType
<1>2. Cardinality(rest) \in Nat
  BY <1>1, FS_CardinalityType
<1>3. Cardinality(rest) = 0
  BY <1>1, <1>2
<1> HIDE DEF rest
<1>4. rest = {}
  BY <1>1, <1>3, FS_EmptySet
<1> QED  BY <1>4 DEF rest

\* A message is written to bronze once, by a query that kept its checkpoint, and
\* read from there once, by one that did not die.
LEMMA EachRowIsOnce ==
    ASSUME Sound, spent.silverCrashes + spent.silverLosses + spent.bronzeLosses = 0,
           NEW account, NoneRepeated(account)
    PROVE  OnceEach(account)
<1> SUFFICES ASSUME NEW a \in SilverRows, NEW b \in SilverRows, MessageOf(a) = MessageOf(b),
                    Row(MessageOf(a)).name_orig = account
             PROVE  a = b
  BY DEF OnceEach
<1>1. ClientTypes /\ InPartition
  BY DEF Sound, ClientInvariant
<1>2. spent.silverCrashes + spent.silverLosses = 0 /\ spent.bronzeLosses = 0
  BY DEF Sound, Proved!Topic, Proved!Budget
<1>3. \A r \in SilverRows :
         /\ r = <<r[1], r[2], r[3]>> /\ r[1] \in DOMAIN silver /\ r[2] \in DOMAIN bronze
         /\ r[3] \in Stream!Messages /\ Stream!Holds(bronze[r[2]], r[3])
         /\ silver[r[1]].from < r[2] /\ r[2] <= silver[r[1]].to
  BY DEF SilverRows
<1>4. \A r \in SilverRows : /\ r[3] = <<r[3][1], r[3][2]>> /\ r[3][1] \in Partitions
                            /\ r[3][2] \in DOMAIN topic[r[3][1]]
  BY <1>1, <1>3, PlacesOnTopic
<1>5. a[3] = b[3]
  <2>1. a[3][1] = b[3][1]
    BY <1>1, <1>4 DEF InPartition, MessageOf
  <2>2. MessageOf(a) \in Messages /\ MessageOf(a) \notin Repeated
    BY RowsOfFile DEF NoneRepeated
  <2>3. a[3][2] = b[3][2]
    BY <1>4, <2>1, <2>2 DEF Repeated, MessageOf
  <2> QED  BY <1>4, <2>1, <2>3
<1>6. a[2] = b[2]
  <2> DEFINE S == {i \in DOMAIN bronze : Proved!Holds(bronze[i], a[3])}
  <2>1. a[3] \in Proved!Messages
    BY <1>3 DEF Stream!Messages, Proved!Messages
  <2>2. Cardinality(S) <= 1
    <3>1. Proved!BronzeCopies(a[3]) <= 1 + spent.bronzeLosses
      BY <2>1 DEF Sound, Proved!BronzeExactlyOnce
    <3>2. Proved!BronzeCopies(a[3]) = Cardinality(S)
      BY OneCount DEF Proved!BronzeCopies
    <3> HIDE DEF S
    <3> QED  BY <1>2, <3>1, <3>2
  <2>3. IsFiniteSet(S)
    BY TablesAreFinite, FS_Subset
  <2>4. a[2] \in S /\ b[2] \in S
    BY <1>3, <1>5 DEF Stream!Holds, Proved!Holds
  <2> HIDE DEF S
  <2> QED  BY <2>2, <2>3, <2>4, AtMostOne
<1>7. a[1] = b[1]
  <2> DEFINE S == {c \in DOMAIN silver : silver[c].from < a[2] /\ a[2] <= silver[c].to}
  <2>1. Cardinality(S) <= 1
    <3>1. Proved!Appends(silver, a[2]) <= 1 + spent.silverCrashes + spent.silverLosses
      BY <1>3 DEF Sound, Proved!RepeatsOnlyOnReplay
    <3>2. Proved!Appends(silver, a[2]) = Cardinality(S)
      BY OneCount DEF Proved!Appends
    <3>3. 1 + spent.silverCrashes + spent.silverLosses = 1
      BY <1>2 DEF Sound, Proved!Topic, Proved!Budget
    <3> HIDE DEF S
    <3> QED  BY <3>1, <3>2, <3>3
  <2>2. IsFiniteSet(S)
    BY TablesAreFinite, FS_Subset
  <2>3. a[1] \in S /\ b[1] \in S
    BY <1>3, <1>6
  <2> HIDE DEF S
  <2> QED  BY <2>1, <2>2, <2>3, AtMostOne
<1> QED  BY <1>3, <1>5, <1>6, <1>7

(***************************************************************************)
(* What the windowed rules make of silver.                                 *)
(***************************************************************************)

\* The amounts a rule adds up, as a sum that may be taken in any order.
LEMMA AmountsAreSum ==
    ASSUME NEW table, NEW rows, IsFiniteSet(rows), \A i \in rows : table[i].amount \in Int
    PROVE  \E sum : /\ IsSum(sum, [i \in rows |-> table[i].amount], rows)
                    /\ Amounts(table, rows) = sum[rows]
<1> DEFINE value == [i \in rows |-> table[i].amount]
           Fold(sum) == sum = [s \in SUBSET rows |->
                          IF s = {} THEN 0
                          ELSE LET x == CHOOSE x \in s : TRUE IN table[x].amount + sum[s \ {x}]]
<1>1. \A sum : Fold(sum) <=> IsFold(sum, value, rows)
  <2>1. \A sum : \A s \in SUBSET rows :
           AddsOne(s, sum, value) =
              IF s = {} THEN 0
              ELSE LET x == CHOOSE x \in s : TRUE IN table[x].amount + sum[s \ {x}]
    <3> SUFFICES ASSUME NEW s \in SUBSET rows, s # {}
                 PROVE  value[CHOOSE x \in s : TRUE] = table[CHOOSE x \in s : TRUE].amount
      BY DEF AddsOne
    <3>1. (CHOOSE x \in s : TRUE) \in s
      OBVIOUS
    <3> QED  BY <3>1
  <2> SUFFICES ASSUME NEW sum PROVE Fold(sum) <=> IsFold(sum, value, rows)
    OBVIOUS
  <2>2. [s \in SUBSET rows |-> AddsOne(s, sum, value)]
         = [s \in SUBSET rows |->
              IF s = {} THEN 0
              ELSE LET x == CHOOSE x \in s : TRUE IN table[x].amount + sum[s \ {x}]]
    BY <2>1, Zenon
  <2> QED  BY <2>2, Zenon DEF IsFold
<1>2. Amounts(table, rows) = (CHOOSE sum : Fold(sum))[rows]
  BY DEF Amounts, MapThenSumSet, MapThenFoldSet
<1>3. value \in [rows -> Int]
  OBVIOUS
<1> HIDE DEF Fold, value
<1>4. PICK sum : IsFold(sum, value, rows)
  BY FoldExists
<1>5. Fold(CHOOSE f : Fold(f))
  BY <1>1, <1>4
<1>6. IsSum((CHOOSE f : Fold(f)), value, rows)
  BY <1>1, <1>3, <1>5, FoldIsSum
<1> QED  BY <1>2, <1>6 DEF value

\* Rows that match one to one rows of another table are no more than those, in
\* number and in amount.
LEMMA MatchedRows ==
    ASSUME NEW table, NEW rows, NEW other, NEW others, IsFiniteSet(others),
           NEW h \in [rows -> others], \A i, j \in rows : h[i] = h[j] => i = j,
           \A i \in rows : table[i].amount = other[h[i]].amount,
           \A i \in others : other[i].amount \in Nat
    PROVE  /\ IsFiniteSet(rows)
           /\ Cardinality(rows) <= Cardinality(others)
           /\ Amounts(table, rows) <= Amounts(other, others)
<1> DEFINE value == [i \in rows |-> table[i].amount]
           worth == [i \in others |-> other[i].amount]
<1>1. IsFiniteSet(rows) /\ Cardinality(rows) <= Cardinality(others)
  <2>1. h \in Injection(rows, others)
    BY DEF Injection, IsInjective
  <2> QED  BY <2>1, FS_Injection
<1>2. \A i \in rows : h[i] \in others /\ table[i].amount \in Int
  OBVIOUS
<1>3. PICK sum : IsSum(sum, value, rows) /\ Amounts(table, rows) = sum[rows]
  BY <1>1, <1>2, AmountsAreSum
<1>4. PICK total : IsSum(total, worth, others) /\ Amounts(other, others) = total[others]
  <2>1. \A i \in others : other[i].amount \in Int
    OBVIOUS
  <2> QED  BY <2>1, AmountsAreSum
<1>5. \A i \in rows : worth[h[i]] = value[i]
  BY <1>2
<1>6. \A i \in others : worth[i] \in Nat
  OBVIOUS
<1> HIDE DEF value, worth
<1>7. sum[rows] = total[{h[i] : i \in rows}]
  <2>1. rows \in SUBSET rows
    OBVIOUS
  <2> QED  BY <1>1, <1>3, <1>4, <1>5, <2>1, SumsAgree
<1>8. total[{h[i] : i \in rows}] <= total[others]
  <2>1. others \in SUBSET others /\ {h[i] : i \in rows} \in SUBSET others
    OBVIOUS
  <2> QED  BY <1>4, <1>6, <2>1, SumOfMore
<1> QED  BY <1>1, <1>3, <1>4, <1>7, <1>8

\* Two transfers in the band are together above the report.
LEMMA TwoInTheBand ==
    ASSUME NEW table, NEW rows, IsFiniteSet(rows), Cardinality(rows) >= 2,
           \A i \in rows : table[i].amount \in Nat /\ 5 * table[i].amount >= 4 * Threshold
    PROVE  Amounts(table, rows) > Threshold
<1> DEFINE value == [i \in rows |-> table[i].amount]
<1>1. PICK sum : IsSum(sum, value, rows) /\ Amounts(table, rows) = sum[rows]
  <2>1. \A i \in rows : table[i].amount \in Int
    OBVIOUS
  <2> QED  BY <2>1, AmountsAreSum
<1>2. PICK x \in rows : TRUE
  BY FS_EmptySet
<1> DEFINE rest == rows \ {x}
<1>3. rest \in SUBSET rows /\ Cardinality(rest) = Cardinality(rows) - 1
  BY OneLess
<1>4. Cardinality(rows) \in Nat
  BY FS_CardinalityType
<1> DEFINE last(y) == rest \ {y}
<1>6. \A i \in rows : value[i] \in Nat /\ 5 * value[i] >= 4 * Threshold
  OBVIOUS
<1> HIDE DEF value
<1>7. sum[rows] = value[x] + sum[rest]
  BY <1>1 DEF IsSum
<1> HIDE DEF rest
<1>5. PICK y \in rest : TRUE
  <2>1. Cardinality(rest) # 0
    BY <1>3, <1>4
  <2>2. Cardinality({}) = 0
    BY FS_EmptySet
  <2>3. rest # {}
    BY <2>1, <2>2, Zenon
  <2> QED  BY <2>3
<1>8. sum[rest] = value[y] + sum[last(y)]
  BY <1>1, <1>3, <1>5 DEF IsSum
<1>9. sum[last(y)] \in Nat
  <2>1. last(y) \in SUBSET rows
    BY <1>3
  <2> HIDE DEF last
  <2> QED  BY <1>1, <1>6, <2>1, SumNotNegative
<1>10. Threshold \in Nat \ {0}
  BY RulesAssumption
<1>11. /\ value[x] \in Nat /\ 5 * value[x] >= 4 * Threshold
       /\ value[y] \in Nat /\ 5 * value[y] >= 4 * Threshold
  BY <1>3, <1>5, <1>6
<1> HIDE DEF last
<1> QED  BY <1>1, <1>7, <1>8, <1>9, <1>10, <1>11

\* Of some messages one is the earliest.
LEMMA FirstIsEarliest ==
    ASSUME Sound, NEW S \in SUBSET DOMAIN Accepted, S # {}
    PROVE  \E m \in S : \A n \in S : Accepted[m].step <= Accepted[n].step
<1> DEFINE hours == {Accepted[m].step : m \in S}
<1>1. hours \in SUBSET Nat /\ hours # {}
  BY RowsOfFile
<1> HIDE DEF hours
<1>2. PICK first \in hours : \A hour \in hours : first <= hour
  BY <1>1, LeastNumber
<1> QED  BY <1>2 DEF hours

\* The rows a window of the velocity rule takes.
LEMMA VelocityTakes ==
    ASSUME Sound, NEW at \in SilverRows, NEW first \in Int, NEW account
    PROVE  /\ at \in VelocityRows(SilverTable, <<first, account>>) <=>
                /\ Accepted[MessageOf(at)].type \in MonitoredTypes
                /\ Accepted[MessageOf(at)].name_orig = account
                /\ Accepted[MessageOf(at)].step \in first..first + VelocityWindow - 1
           /\ <<first, account>> \in SlidingWindows(Accepted[MessageOf(at)]) <=>
                /\ Accepted[MessageOf(at)].name_orig = account
                /\ Accepted[MessageOf(at)].step \in first..first + VelocityWindow - 1
<1> DEFINE t == Accepted[MessageOf(at)]
<1>1. /\ SilverTable[at] = t /\ at \in DOMAIN SilverTable /\ t.step \in Int /\ t.type # Null
  BY RowsOfFile
<1>2. VelocityWindow \in Nat \ {0}
  BY RulesAssumption
<1> HIDE DEF t
<1>3. Kept(IsIn(t.type, MonitoredTypes)) <=> t.type \in MonitoredTypes
  BY <1>1 DEF Kept, IsIn, Known
<1>4. <<first, account>> \in SlidingWindows(t) <=>
        first \in t.step - VelocityWindow + 1..t.step /\ account = t.name_orig
  BY DEF SlidingWindows
<1>5. first \in t.step - VelocityWindow + 1..t.step <=> t.step \in first..first + VelocityWindow - 1
  BY <1>1, <1>2
<1>6. at \in VelocityRows(SilverTable, <<first, account>>) <=>
        /\ Kept(IsIn(t.type, MonitoredTypes)) /\ <<first, account>> \in SlidingWindows(t)
  BY <1>1 DEF VelocityRows
<1> QED  BY <1>3, <1>4, <1>5, <1>6 DEF t

\* What it is to be in a window of a grid.
LEMMA WindowIs ==
    ASSUME NEW x \in Int, NEW size \in Nat \ {0}
    PROVE  /\ x \div size \in Int
           /\ (x \div size) * size <= x /\ x < (x \div size) * size + size
  OBVIOUS

\* Two hours of one window are less than a window apart, and two less than that
\* apart are in one window or in two that follow each other.
LEMMA WindowsOf ==
    ASSUME NEW x \in Int, NEW y \in Int, NEW size \in Nat \ {0}
    PROVE  /\ x \div size = y \div size => y < x + size
           /\ x <= y /\ y < x + size =>
                 y \div size = x \div size \/ y \div size = x \div size + 1
<1> DEFINE v == x \div size
           w == y \div size
<1>1. /\ v \in Int /\ v * size <= x /\ x < v * size + size
      /\ w \in Int /\ w * size <= y /\ y < w * size + size
  BY WindowIs
<1> HIDE DEF v, w
<1>2. v = w => y < x + size
  BY <1>1
<1>3. ASSUME x <= y, y < x + size PROVE w = v \/ w = v + 1
  <2>1. v * size \in Int /\ w * size \in Int
    BY <1>1
  <2>2. v * size < w * size + size /\ w * size < v * size + 2 * size
    BY <1>1, <1>3, <2>1
  <2>3. \A a, b \in Int : a * size < b * size + size => a <= b
    <3> SUFFICES ASSUME NEW a \in Int, NEW b \in Int, ~(a <= b)
                 PROVE  ~(a * size < b * size + size)
      OBVIOUS
    <3>1. a - b - 1 \in Nat
      OBVIOUS
    <3>2. (a - b - 1) * size \in Nat
      BY <3>1
    <3>3. (a - b - 1) * size = a * size - b * size - size
      OBVIOUS
    <3>4. a * size \in Int /\ b * size \in Int
      OBVIOUS
    <3> QED  BY <3>2, <3>3, <3>4
  <2>4. (v + 1) * size = v * size + size
    BY <1>1
  <2>5. v <= w
    BY <1>1, <2>2, <2>3
  <2>6. w <= v + 1
    <3>1. w * size < (v + 1) * size + size /\ v + 1 \in Int
      BY <1>1, <2>1, <2>2, <2>4
    <3> QED  BY <1>1, <2>3, <3>1
  <2> QED  BY <1>1, <2>5, <2>6
<1> QED  BY <1>2, <1>3 DEF v, w

\* The rows a window of the structuring rule takes.
WindowNumber(m) == (Accepted[m].step + GridOffset) \div StructuringWindow
InTheBand(m) == Accepted[m].amount < Threshold /\ 5 * Accepted[m].amount >= 4 * Threshold
StructuringRowsOf(key) ==
    {at \in DOMAIN SilverTable : JustUnder(SilverTable[at]) /\ TumblingWindow(SilverTable[at]) = key}

LEMMA StructuringTakes ==
    ASSUME Sound, NEW at \in SilverRows, NEW w, NEW account
    PROVE  at \in StructuringRowsOf(<<w, account>>) <=>
              /\ Accepted[MessageOf(at)].type \in MonitoredTypes
              /\ InTheBand(MessageOf(at))
              /\ Accepted[MessageOf(at)].name_orig = account
              /\ WindowNumber(MessageOf(at)) = w
<1> DEFINE t == Accepted[MessageOf(at)]
<1>1. /\ SilverTable[at] = t /\ at \in DOMAIN SilverTable /\ t.type # Null
  BY RowsOfFile
<1>2. Kept(IsIn(t.type, MonitoredTypes)) <=> t.type \in MonitoredTypes
  BY <1>1 DEF Kept, IsIn, Known
<1>3. JustUnder(t) <=> t.type \in MonitoredTypes /\ InTheBand(MessageOf(at))
  BY <1>2 DEF JustUnder, InTheBand
<1>4. TumblingWindow(t) = <<WindowNumber(MessageOf(at)), t.name_orig>>
  BY DEF TumblingWindow, WindowNumber
<1> HIDE DEF t
<1>5. at \in StructuringRowsOf(<<w, account>>) <=> JustUnder(t) /\ TumblingWindow(t) = <<w, account>>
  BY <1>1 DEF StructuringRowsOf
<1>6. TumblingWindow(t) = <<w, account>> <=>
         WindowNumber(MessageOf(at)) = w /\ t.name_orig = account
  BY <1>4
<1> QED  BY <1>3, <1>5, <1>6 DEF t

LEMMA HourFacts ==
    ASSUME Sound, NEW m \in DOMAIN Accepted
    PROVE  /\ Accepted[m].step \in Int /\ GridOffset \in Int /\ StructuringWindow \in Nat \ {0}
           /\ Accepted[m].step + GridOffset \in Int
           /\ WindowNumber(m) = (Accepted[m].step + GridOffset) \div StructuringWindow
<1>1. GridOffset \in Int /\ StructuringWindow \in Nat \ {0}
  BY RulesAssumption
<1>2. Accepted[m].step \in Int
  BY RowsOfFile
<1> QED  BY <1>1, <1>2 DEF WindowNumber

\* What a stretch of an account's messages holds.
LEMMA StretchIs ==
    ASSUME Sound, NEW m, NEW account, NEW from \in Int, NEW hours \in Nat
    PROVE  /\ m \in Stretch(Accepted, account, from, hours) <=>
                /\ m \in DOMAIN Accepted /\ Accepted[m].name_orig = account
                /\ Accepted[m].step \in from..from + hours - 1 /\ Accepted[m].type \in MonitoredTypes
           /\ m \in Splits(Accepted, account, from) <=>
                m \in Stretch(Accepted, account, from, StructuringWindow) /\ InTheBand(m)
  BY RowsOfFile DEF Stretch, Splits, InTheBand

\* When a window of an account is an alert.
LEMMA VelocityAlertIs ==
    ASSUME Sound, NEW key
    PROVE  key \in VelocityAlerts(SilverTable) <=>
              /\ \E at \in SilverRows : key \in SlidingWindows(Accepted[MessageOf(at)])
              /\ \/ Cardinality(VelocityRows(SilverTable, key)) >= CountThreshold
                 \/ Amounts(SilverTable, VelocityRows(SilverTable, key)) >= AmountThreshold
<1>1. /\ DOMAIN SilverTable = SilverRows
      /\ \A at \in SilverRows : SilverTable[at] = Accepted[MessageOf(at)]
  BY RowsOfFile
<1>2. key \in Keys(SilverTable, SlidingWindows) <=>
         \E at \in SilverRows : key \in SlidingWindows(Accepted[MessageOf(at)])
  BY <1>1 DEF Keys
<1> QED  BY <1>2 DEF VelocityAlerts

LEMMA StructuringAlertIs ==
    ASSUME Sound, NEW key
    PROVE  key \in StructuringAlerts(SilverTable) <=>
              /\ \E at \in SilverRows : key = TumblingWindow(Accepted[MessageOf(at)])
              /\ Cardinality(StructuringRowsOf(key)) >= MinCount
              /\ Amounts(SilverTable, StructuringRowsOf(key)) >= Threshold
<1>1. /\ DOMAIN SilverTable = SilverRows
      /\ \A at \in SilverRows : SilverTable[at] = Accepted[MessageOf(at)]
  BY RowsOfFile
<1>2. key \in Keys(SilverTable, LAMBDA t : {TumblingWindow(t)}) <=>
         \E at \in SilverRows : key = TumblingWindow(Accepted[MessageOf(at)])
  BY <1>1 DEF Keys
<1> QED  BY <1>2 DEF StructuringAlerts, StructuringRowsOf

\* Messages are no more than the rows they are in, in number and in amount.
LEMMA MessagesAreFound ==
    ASSUME Sound, NEW S \in SUBSET DOMAIN Accepted, AllThrough,
           NEW R \in SUBSET SilverRows,
           \A at \in SilverRows : MessageOf(at) \in S => at \in R
    PROVE  /\ IsFiniteSet(R) /\ Cardinality(S) <= Cardinality(R)
           /\ Amounts(Accepted, S) <= Amounts(SilverTable, R)
<1> DEFINE h == [m \in S |-> CHOOSE at \in SilverRows : MessageOf(at) = m]
<1>1. \A m \in S : h[m] \in SilverRows /\ MessageOf(h[m]) = m
  <2> SUFFICES ASSUME NEW m \in S PROVE h[m] \in SilverRows /\ MessageOf(h[m]) = m
    OBVIOUS
  <2>1. \E at \in SilverRows : MessageOf(at) = m
    BY DEF AllThrough
  <2> QED  BY <2>1
<1>2. h \in [S -> R]
  BY <1>1
<1>3. IsFiniteSet(R)
  BY RowsOfFile, FS_Subset
<1> HIDE DEF h
<1>4. \A m, o \in S : h[m] = h[o] => m = o
  BY <1>1
<1>5. \A m \in S : Accepted[m].amount = SilverTable[h[m]].amount
  BY <1>1, RowsOfFile
<1>6. \A at \in R : SilverTable[at].amount \in Nat
  BY RowsOfFile
<1> DEFINE table == Accepted
           other == SilverTable
<1>7. /\ h \in [S -> R] /\ IsFiniteSet(R)
      /\ \A m, o \in S : h[m] = h[o] => m = o
      /\ \A m \in S : table[m].amount = other[h[m]].amount
      /\ \A at \in R : other[at].amount \in Nat
  BY <1>2, <1>3, <1>4, <1>5, <1>6
<1> HIDE DEF table, other
<1>8. Cardinality(S) <= Cardinality(R)
  <2>1. h \in Injection(S, R)
    BY <1>7 DEF Injection, IsInjective
  <2> QED  BY <1>3, <2>1, FS_Injection
<1>9. Amounts(table, S) <= Amounts(other, R)
  BY <1>7, MatchedRows
<1> QED  BY <1>3, <1>8, <1>9 DEF table, other

\* Rows of messages of their own are no more than those.
LEMMA RowsAreDeserved ==
    ASSUME Sound, NEW R \in SUBSET SilverRows, NEW S \in SUBSET DOMAIN Accepted,
           \A a, b \in R : MessageOf(a) = MessageOf(b) => a = b,
           \A at \in R : MessageOf(at) \in S
    PROVE  /\ IsFiniteSet(S) /\ Cardinality(R) <= Cardinality(S)
           /\ Amounts(SilverTable, R) <= Amounts(Accepted, S)
<1> DEFINE h == [at \in R |-> MessageOf(at)]
<1>1. h \in [R -> S]
  OBVIOUS
<1>2. \A a, b \in R : h[a] = h[b] => a = b
  OBVIOUS
<1>3. IsFiniteSet(S)
  BY RowsOfFile, FS_Subset
<1>4. \A at \in R : SilverTable[at].amount = Accepted[h[at]].amount
  BY RowsOfFile
<1>5. \A m \in S : Accepted[m].amount \in Nat
  BY RowsOfFile
<1> HIDE DEF h
<1> QED  BY <1>1, <1>2, <1>3, <1>4, <1>5, MatchedRows

\* A burst is a window that breaches the thresholds.
LEMMA BurstIsFlagged ==
    ASSUME Sound, AllThrough, NEW m \in DOMAIN Accepted,
           Bursts(Accepted, Accepted[m].name_orig, Accepted[m].step)
    PROVE  Flagged(Accepted[m].name_orig, VelocityAlerts(SilverTable))
<1> DEFINE account == Accepted[m].name_orig
           from    == Accepted[m].step
           key     == <<from, account>>
           S       == Stretch(Accepted, account, from, VelocityWindow)
           R       == VelocityRows(SilverTable, key)
<1>1. from \in Int /\ VelocityWindow \in Nat \ {0} /\ CountThreshold \in Nat /\ AmountThreshold \in Nat
  BY RowsOfFile, RulesAssumption
<1>2. PICK at \in SilverRows : MessageOf(at) = m
  BY DEF AllThrough
<1>3. key \in SlidingWindows(Accepted[MessageOf(at)])
  <2>1. from \in from..from + VelocityWindow - 1
    BY <1>1
  <2> QED  BY <1>1, <1>2, <2>1, VelocityTakes
<1>4. S \in SUBSET DOMAIN Accepted
  BY DEF Stretch
<1>5. R \in SUBSET SilverRows
  BY RowsOfFile DEF VelocityRows
<1>6. \A a \in SilverRows : MessageOf(a) \in S => a \in R
  <2> SUFFICES ASSUME NEW a \in SilverRows, MessageOf(a) \in S PROVE a \in R
    OBVIOUS
  <2>1. /\ Accepted[MessageOf(a)].name_orig = account
        /\ Accepted[MessageOf(a)].step \in from..from + VelocityWindow - 1
        /\ Accepted[MessageOf(a)].type \in MonitoredTypes
    BY <1>1, StretchIs
  <2> QED  BY <1>1, <2>1, VelocityTakes
<1>7. Cardinality(S) >= CountThreshold \/ Amounts(Accepted, S) >= AmountThreshold
  BY DEF Bursts
<1>8. key[2] = account
  OBVIOUS
<1> HIDE DEF S, R, key, account, from
<1>9. /\ IsFiniteSet(R) /\ Cardinality(S) <= Cardinality(R)
      /\ Amounts(Accepted, S) <= Amounts(SilverTable, R)
  BY <1>4, <1>5, <1>6, MessagesAreFound
<1>10. Cardinality(R) \in Nat /\ Cardinality(S) \in Nat
  <2>1. IsFiniteSet(S)
    BY <1>4, RowsOfFile, FS_Subset
  <2> QED  BY <1>9, <2>1, FS_CardinalityType
<1>11. Amounts(Accepted, S) \in Int /\ Amounts(SilverTable, R) \in Int
  <2>1. IsFiniteSet(S)
    BY <1>4, RowsOfFile, FS_Subset
  <2>2. \A i \in S : Accepted[i].amount \in Int
    BY <1>4, RowsOfFile
  <2>3. \A i \in R : SilverTable[i].amount \in Int
    BY <1>5, RowsOfFile
  <2>4. S \in SUBSET S /\ R \in SUBSET R
    OBVIOUS
  <2>5. Amounts(Accepted, S) \in Int
    <3>1. PICK sum : IsSum(sum, [i \in S |-> Accepted[i].amount], S) /\ Amounts(Accepted, S) = sum[S]
      BY <2>1, <2>2, AmountsAreSum
    <3> QED  BY <2>4, <3>1 DEF IsSum
  <2>6. Amounts(SilverTable, R) \in Int
    <3>1. PICK sum : IsSum(sum, [i \in R |-> SilverTable[i].amount], R) /\ Amounts(SilverTable, R) = sum[R]
      BY <1>9, <2>3, AmountsAreSum
    <3> QED  BY <2>4, <3>1 DEF IsSum
  <2> QED  BY <2>5, <2>6
<1>12. Cardinality(R) >= CountThreshold \/ Amounts(SilverTable, R) >= AmountThreshold
  BY <1>1, <1>7, <1>9, <1>10, <1>11
<1>13. key \in VelocityAlerts(SilverTable)
  BY <1>2, <1>3, <1>12, VelocityAlertIs DEF R
<1> QED  BY <1>8, <1>13 DEF Flagged, account

\* Enough splits of one window are an alert.
LEMMA WindowFlags ==
    ASSUME Sound, AllThrough, NEW w, NEW account, NEW S \in SUBSET DOMAIN Accepted,
           Cardinality(S) >= MinCount,
           \A m \in S : /\ InTheBand(m) /\ Accepted[m].type \in MonitoredTypes
                        /\ Accepted[m].name_orig = account /\ WindowNumber(m) = w
    PROVE  Flagged(account, StructuringAlerts(SilverTable))
<1> DEFINE key == <<w, account>>
           R   == StructuringRowsOf(key)
<1>1. MinCount \in Nat /\ MinCount >= 2 /\ Threshold \in Nat
  BY RulesAssumption
<1>2. R \in SUBSET SilverRows
  BY RowsOfFile DEF StructuringRowsOf
<1>3. \A at \in SilverRows : MessageOf(at) \in S => at \in R
  BY StructuringTakes
<1>4. \A at \in R : InTheBand(MessageOf(at))
  BY <1>2, StructuringTakes
<1>5. IsFiniteSet(S) /\ Cardinality(S) \in Nat
  BY RowsOfFile, FS_Subset, FS_CardinalityType
<1>6. PICK m \in S : TRUE
  <2>1. Cardinality(S) # 0
    BY <1>1, <1>5
  <2> QED  BY <2>1, FS_EmptySet
<1>7. PICK at \in SilverRows : MessageOf(at) = m
  BY <1>6 DEF AllThrough
<1>8. key = TumblingWindow(Accepted[MessageOf(at)])
  BY <1>6, <1>7 DEF TumblingWindow, WindowNumber
<1>9. key[2] = account
  OBVIOUS
<1> HIDE DEF key, R
<1>11. IsFiniteSet(R) /\ Cardinality(S) <= Cardinality(R)
  BY <1>2, <1>3, MessagesAreFound
<1>12. Cardinality(R) \in Nat
  BY <1>11, FS_CardinalityType
<1>13. Cardinality(R) >= MinCount /\ Cardinality(R) >= 2
  BY <1>1, <1>5, <1>11, <1>12
<1>14. \A a \in R : SilverTable[a].amount \in Nat /\ 5 * SilverTable[a].amount >= 4 * Threshold
  BY <1>2, <1>4, RowsOfFile DEF InTheBand
<1>15. Amounts(SilverTable, R) > Threshold
  BY <1>11, <1>13, <1>14, TwoInTheBand
<1>16. Amounts(SilverTable, R) \in Int
  <2>1. \A a \in R : SilverTable[a].amount \in Int
    BY <1>14
  <2>2. PICK sum : IsSum(sum, [i \in R |-> SilverTable[i].amount], R) /\ Amounts(SilverTable, R) = sum[R]
    BY <1>11, <2>1, AmountsAreSum
  <2>3. R \in SUBSET R
    OBVIOUS
  <2> QED  BY <2>2, <2>3 DEF IsSum
<1>17. Amounts(SilverTable, R) >= Threshold
  BY <1>1, <1>15, <1>16
<1>18. key \in StructuringAlerts(SilverTable)
  BY <1>7, <1>8, <1>13, <1>17, StructuringAlertIs DEF R
<1> QED  BY <1>9, <1>18 DEF Flagged

\* Too many splits for two windows to share below the count.
LEMMA SplitIsFlagged ==
    ASSUME Sound, AllThrough, NEW m \in DOMAIN Accepted,
           Cardinality(Splits(Accepted, Accepted[m].name_orig, Accepted[m].step)) > 2 * (MinCount - 1)
    PROVE  Flagged(Accepted[m].name_orig, StructuringAlerts(SilverTable))
<1> DEFINE account == Accepted[m].name_orig
           from    == Accepted[m].step
           S       == Splits(Accepted, account, from)
           w       == WindowNumber(m)
           A       == {o \in S : WindowNumber(o) = w}
           B       == {o \in S : WindowNumber(o) = w + 1}
<1>1. from \in Int /\ StructuringWindow \in Nat \ {0} /\ MinCount \in Nat
  BY HourFacts, RulesAssumption
<1>2. \A o \in S : /\ o \in DOMAIN Accepted /\ Accepted[o].name_orig = account
                   /\ Accepted[o].step \in from..from + StructuringWindow - 1
                   /\ Accepted[o].type \in MonitoredTypes /\ InTheBand(o)
  <2> SUFFICES ASSUME NEW o \in S
               PROVE  /\ o \in DOMAIN Accepted /\ Accepted[o].name_orig = account
                      /\ Accepted[o].step \in from..from + StructuringWindow - 1
                      /\ Accepted[o].type \in MonitoredTypes /\ InTheBand(o)
    BY Zenon
  <2>1. StructuringWindow \in Nat /\ o \in Splits(Accepted, account, from)
    BY <1>1
  <2> HIDE DEF account, from
  <2>2. o \in Stretch(Accepted, account, from, StructuringWindow) /\ InTheBand(o)
    BY <1>1, <2>1, StretchIs
  <2> QED  BY <1>1, <2>1, <2>2, StretchIs
<1>3. \A o \in S : WindowNumber(o) = w \/ WindowNumber(o) = w + 1
  <2> SUFFICES ASSUME NEW o \in S PROVE WindowNumber(o) = w \/ WindowNumber(o) = w + 1
    OBVIOUS
  <2> DEFINE x == from + GridOffset
             y == Accepted[o].step + GridOffset
  <2>1. o \in DOMAIN Accepted /\ Accepted[o].step \in from..from + StructuringWindow - 1
    BY <1>2
  <2>2. x \in Int /\ w = x \div StructuringWindow /\ GridOffset \in Int
    BY HourFacts
  <2>3. y \in Int /\ WindowNumber(o) = y \div StructuringWindow /\ Accepted[o].step \in Int
    BY <2>1, HourFacts
  <2>4. x <= y /\ y < x + StructuringWindow
    BY <1>1, <2>1, <2>2, <2>3
  <2> HIDE DEF x, y, w
  <2>5. y \div StructuringWindow = x \div StructuringWindow
        \/ y \div StructuringWindow = x \div StructuringWindow + 1
    BY <1>1, <2>2, <2>3, <2>4, WindowsOf
  <2> QED  BY <2>2, <2>3, <2>5
<1>4. S = A \cup B
  BY <1>3
<1>5. A \in SUBSET DOMAIN Accepted /\ B \in SUBSET DOMAIN Accepted
  BY <1>2
<1>6. /\ \A o \in A : /\ InTheBand(o) /\ Accepted[o].type \in MonitoredTypes
                      /\ Accepted[o].name_orig = account /\ WindowNumber(o) = w
      /\ \A o \in B : /\ InTheBand(o) /\ Accepted[o].type \in MonitoredTypes
                      /\ Accepted[o].name_orig = account /\ WindowNumber(o) = w + 1
  BY <1>2
<1>7. Cardinality(S) > 2 * (MinCount - 1)
  OBVIOUS
<1> HIDE DEF account, from, S, w, A, B
<1>8. IsFiniteSet(A) /\ IsFiniteSet(B) /\ IsFiniteSet(A \cap B)
  BY <1>5, RowsOfFile, FS_Subset
<1>9. Cardinality(S) = Cardinality(A) + Cardinality(B) - Cardinality(A \cap B)
  BY <1>4, <1>8, FS_Union
<1>10. Cardinality(A) \in Nat /\ Cardinality(B) \in Nat /\ Cardinality(A \cap B) \in Nat
  BY <1>8, FS_CardinalityType
<1>11. Cardinality(A) >= MinCount \/ Cardinality(B) >= MinCount
  BY <1>1, <1>7, <1>9, <1>10
<1>12. CASE Cardinality(A) >= MinCount
  BY <1>5, <1>6, <1>12, WindowFlags DEF account
<1>13. CASE Cardinality(B) >= MinCount
  BY <1>5, <1>6, <1>13, WindowFlags DEF account
<1> QED  BY <1>11, <1>12, <1>13

LEMMA SplitIsDeserved ==
    ASSUME Sound, NEW account, OnceEach(account),
           Flagged(account, StructuringAlerts(SilverTable))
    PROVE  \E m \in DOMAIN Accepted :
              /\ Cardinality(Splits(Accepted, account, Accepted[m].step)) >= MinCount
              /\ Amounts(Accepted, Splits(Accepted, account, Accepted[m].step)) > Threshold
<1>1. PICK key \in StructuringAlerts(SilverTable) : key[2] = account
  BY DEF Flagged
<1>2. PICK w : key = <<w, account>>
  <2>1. PICK at \in SilverRows : key = TumblingWindow(Accepted[MessageOf(at)])
    BY <1>1, StructuringAlertIs
  <2>2. key = <<WindowNumber(MessageOf(at)), Accepted[MessageOf(at)].name_orig>>
    BY <2>1 DEF TumblingWindow, WindowNumber
  <2> QED  BY <1>1, <2>2
<1> DEFINE R == StructuringRowsOf(key)
           M == {MessageOf(at) : at \in R}
<1>3. Cardinality(R) >= MinCount /\ MinCount \in Nat /\ MinCount >= 2
  BY <1>1, StructuringAlertIs, RulesAssumption
<1>4. R \in SUBSET SilverRows
  BY RowsOfFile DEF StructuringRowsOf
<1>5. \A at \in R : /\ MessageOf(at) \in DOMAIN Accepted
                    /\ Accepted[MessageOf(at)].type \in MonitoredTypes /\ InTheBand(MessageOf(at))
                    /\ Accepted[MessageOf(at)].name_orig = account
                    /\ WindowNumber(MessageOf(at)) = w
  BY <1>2, <1>4, RowsOfFile, StructuringTakes
<1> HIDE DEF R
<1>6. IsFiniteSet(R) /\ Cardinality(R) \in Nat
  BY <1>4, RowsOfFile, FS_Subset, FS_CardinalityType
<1>7. M \in SUBSET DOMAIN Accepted /\ M # {}
  <2>1. Cardinality(R) # 0
    BY <1>3, <1>6
  <2>2. R # {}
    BY <2>1, FS_EmptySet
  <2> QED  BY <1>5, <2>2
<1>8. PICK m \in M : \A n \in M : Accepted[m].step <= Accepted[n].step
  <2> HIDE DEF M
  <2> QED  BY <1>7, FirstIsEarliest
<1> DEFINE from == Accepted[m].step
           S    == Splits(Accepted, account, from)
<1>9. m \in DOMAIN Accepted /\ WindowNumber(m) = w
  BY <1>5
<1>10. from \in Int /\ StructuringWindow \in Nat \ {0}
  BY <1>9, HourFacts
<1>11. \A at \in R : MessageOf(at) \in S
  <2> SUFFICES ASSUME NEW at \in R PROVE MessageOf(at) \in S
    OBVIOUS
  <2> DEFINE o == MessageOf(at)
             x == from + GridOffset
             y == Accepted[o].step + GridOffset
  <2>1. /\ o \in DOMAIN Accepted /\ WindowNumber(o) = w /\ from <= Accepted[o].step
        /\ Accepted[o].type \in MonitoredTypes /\ InTheBand(o) /\ Accepted[o].name_orig = account
    BY <1>5, <1>8
  <2> HIDE DEF o
  <2>2. x \in Int /\ w = x \div StructuringWindow /\ GridOffset \in Int
    BY <1>9, HourFacts
  <2>3. y \in Int /\ w = y \div StructuringWindow /\ Accepted[o].step \in Int
    BY <2>1, HourFacts
  <2> HIDE DEF from
  <2>4. y < x + StructuringWindow
    <3> HIDE DEF x, y
    <3>1. x \div StructuringWindow = y \div StructuringWindow
      BY <2>2, <2>3
    <3> QED  BY <1>10, <2>2, <2>3, <3>1, WindowsOf
  <2>5. Accepted[o].step \in from..from + StructuringWindow - 1
    BY <1>10, <2>1, <2>2, <2>3, <2>4
  <2>6. StructuringWindow \in Nat
    BY <1>10
  <2>7. o \in Stretch(Accepted, account, from, StructuringWindow)
    BY <1>10, <2>1, <2>5, <2>6, StretchIs
  <2>8. o \in Splits(Accepted, account, from)
    BY <1>10, <2>1, <2>6, <2>7, StretchIs
  <2> QED  BY <2>8 DEF o
<1>12. S \in SUBSET DOMAIN Accepted /\ \A o \in S : InTheBand(o)
  <2> SUFFICES ASSUME NEW o \in S PROVE o \in DOMAIN Accepted /\ InTheBand(o)
    BY Zenon
  <2> HIDE DEF from
  <2>1. StructuringWindow \in Nat /\ o \in Splits(Accepted, account, from)
    BY <1>10
  <2>2. o \in Stretch(Accepted, account, from, StructuringWindow) /\ InTheBand(o)
    BY <1>10, <2>1, StretchIs
  <2> QED  BY <1>10, <2>1, <2>2, StretchIs
<1>13. \A a, b \in R : MessageOf(a) = MessageOf(b) => a = b
  BY <1>4, <1>5, RowsOfFile DEF OnceEach
<1> HIDE DEF S
<1>14. IsFiniteSet(S) /\ Cardinality(R) <= Cardinality(S)
  BY <1>4, <1>11, <1>12, <1>13, RowsAreDeserved
<1>15. Cardinality(S) \in Nat
  BY <1>14, FS_CardinalityType
<1>16. Cardinality(S) >= MinCount /\ Cardinality(S) >= 2
  BY <1>3, <1>6, <1>14, <1>15
<1>17. \A o \in S : Accepted[o].amount \in Nat /\ 5 * Accepted[o].amount >= 4 * Threshold
  BY <1>12, RowsOfFile DEF InTheBand
<1>18. Amounts(Accepted, S) > Threshold
  BY <1>14, <1>16, <1>17, TwoInTheBand
<1> QED  BY <1>9, <1>16, <1>18 DEF S

LEMMA BurstIsDeserved ==
    ASSUME Sound, NEW account, OnceEach(account),
           Flagged(account, VelocityAlerts(SilverTable))
    PROVE  \E m \in DOMAIN Accepted : Bursts(Accepted, account, Accepted[m].step)
<1>1. PICK key \in VelocityAlerts(SilverTable) : key[2] = account
  BY DEF Flagged
<1> DEFINE R == VelocityRows(SilverTable, key)
           M == {MessageOf(at) : at \in R}
<1>2. PICK first \in Int : key = <<first, account>>
  <2>1. PICK at \in SilverRows : key \in SlidingWindows(Accepted[MessageOf(at)])
    BY <1>1, VelocityAlertIs
  <2> DEFINE t == Accepted[MessageOf(at)]
  <2>2. t.step \in Int /\ VelocityWindow \in Nat
    BY RowsOfFile, RulesAssumption
  <2> HIDE DEF t
  <2>3. key \in SlidingWindows(t)
    BY <2>1 DEF t
  <2>4. PICK first \in t.step - VelocityWindow + 1..t.step : key = <<first, t.name_orig>>
    BY <2>3 DEF SlidingWindows
  <2>5. first \in Int
    BY <2>2
  <2> QED  BY <1>1, <2>4, <2>5
<1>3. R \in SUBSET SilverRows
  BY RowsOfFile DEF VelocityRows
<1>4. \A at \in R : /\ MessageOf(at) \in DOMAIN Accepted
                    /\ Accepted[MessageOf(at)].type \in MonitoredTypes
                    /\ Accepted[MessageOf(at)].name_orig = account
                    /\ Accepted[MessageOf(at)].step \in first..first + VelocityWindow - 1
  BY <1>2, <1>3, RowsOfFile, VelocityTakes
<1>5. Cardinality(R) >= CountThreshold \/ Amounts(SilverTable, R) >= AmountThreshold
  BY <1>1, VelocityAlertIs
<1>6. /\ CountThreshold \in Nat /\ CountThreshold > 0
      /\ AmountThreshold \in Nat /\ AmountThreshold > 0
      /\ VelocityWindow \in Nat /\ VelocityWindow > 0
  BY RulesAssumption
<1> HIDE DEF R
<1>7. IsFiniteSet(R) /\ Cardinality(R) \in Nat
  BY <1>3, RowsOfFile, FS_Subset, FS_CardinalityType
<1>8. PICK sum : IsSum(sum, [i \in R |-> SilverTable[i].amount], R) /\ Amounts(SilverTable, R) = sum[R]
  <2>1. \A i \in R : SilverTable[i].amount \in Int
    BY <1>3, RowsOfFile
  <2> QED  BY <1>7, <2>1, AmountsAreSum
<1>9. Amounts(SilverTable, R) \in Int
  <2>1. R \in SUBSET R
    OBVIOUS
  <2> QED  BY <1>8, <2>1 DEF IsSum
<1>10. R # {}
  <2> SUFFICES ASSUME R = {} PROVE FALSE
    OBVIOUS
  <2>1. Cardinality(R) = 0
    BY FS_EmptySet
  <2>2. {} \in SUBSET R /\ sum[{}] = sum[R]
    OBVIOUS
  <2>3. sum[{}] = 0
    BY <1>8, <2>2 DEF IsSum
  <2>4. Amounts(SilverTable, R) = 0
    BY <1>8, <2>2, <2>3
  <2> QED  BY <1>5, <1>6, <2>1, <2>4
<1>11. M \in SUBSET DOMAIN Accepted /\ M # {}
  BY <1>4, <1>10
<1>12. PICK m \in M : \A n \in M : Accepted[m].step <= Accepted[n].step
  <2> HIDE DEF M
  <2> QED  BY <1>11, FirstIsEarliest
<1> DEFINE from == Accepted[m].step
           S    == Stretch(Accepted, account, from, VelocityWindow)
<1>13. m \in DOMAIN Accepted /\ from \in first..first + VelocityWindow - 1 /\ from \in Int
  <2>1. m \in DOMAIN Accepted /\ from \in first..first + VelocityWindow - 1
    BY <1>4
  <2> QED  BY <2>1, RowsOfFile
<1>14. \A at \in R : MessageOf(at) \in S
  <2> SUFFICES ASSUME NEW at \in R PROVE MessageOf(at) \in S
    OBVIOUS
  <2> DEFINE o == MessageOf(at)
  <2>1. /\ o \in DOMAIN Accepted /\ Accepted[o].type \in MonitoredTypes /\ Accepted[o].name_orig = account
        /\ Accepted[o].step \in first..first + VelocityWindow - 1 /\ from <= Accepted[o].step
    BY <1>4, <1>12
  <2>2. Accepted[o].step \in Int
    BY <2>1, RowsOfFile
  <2> HIDE DEF o, from
  <2>3. Accepted[o].step \in from..from + VelocityWindow - 1
    BY <1>6, <1>13, <2>1, <2>2
  <2>4. o \in Stretch(Accepted, account, from, VelocityWindow)
    BY <1>6, <1>13, <2>1, <2>3, StretchIs
  <2> QED  BY <2>4 DEF o
<1>15. S \in SUBSET DOMAIN Accepted
  BY DEF Stretch
<1>16. \A a, b \in R : MessageOf(a) = MessageOf(b) => a = b
  BY <1>3, <1>4, RowsOfFile DEF OnceEach
<1> HIDE DEF S
<1>17. /\ IsFiniteSet(S) /\ Cardinality(R) <= Cardinality(S)
       /\ Amounts(SilverTable, R) <= Amounts(Accepted, S)
  BY <1>3, <1>14, <1>15, <1>16, RowsAreDeserved
<1>18. Cardinality(S) \in Nat /\ Amounts(Accepted, S) \in Int
  <2>1. \A i \in S : Accepted[i].amount \in Int
    BY <1>15, RowsOfFile
  <2>2. PICK total : IsSum(total, [i \in S |-> Accepted[i].amount], S) /\ Amounts(Accepted, S) = total[S]
    BY <1>17, <2>1, AmountsAreSum
  <2>3. S \in SUBSET S
    OBVIOUS
  <2>4. Amounts(Accepted, S) \in Int
    BY <2>2, <2>3 DEF IsSum
  <2> QED  BY <1>17, <2>4, FS_CardinalityType
<1>19. Cardinality(S) >= CountThreshold \/ Amounts(Accepted, S) >= AmountThreshold
  BY <1>5, <1>6, <1>7, <1>9, <1>17, <1>18
<1>20. Bursts(Accepted, account, Accepted[m].step)
  BY <1>19 DEF Bursts, S
<1> QED  BY <1>13, <1>20

(***************************************************************************)
(* The two theorems.                                                       *)
(***************************************************************************)

\* Once all is through, a burst is flagged wherever it falls, and so is a split
\* that no two windows can share: whatever the file, the thresholds and the grid
\* the windows lie on, however the topic was cut into batches, and however often
\* requests, runs and queries failed on the way.
THEOREM BurstsAreCaught == DetectedSpec => []BurstsAreFlagged
<1>1. Sound => BurstsAreFlagged
  <2> SUFFICES ASSUME Sound, status = "done", expired = {}, CaughtUp, NEW m \in DOMAIN Accepted
               PROVE  /\ Bursts(Accepted, Accepted[m].name_orig, Accepted[m].step)
                            => Flagged(Accepted[m].name_orig, VelocityAlerts(SilverTable))
                      /\ Cardinality(Splits(Accepted, Accepted[m].name_orig, Accepted[m].step))
                            > 2 * (MinCount - 1)
                            => Flagged(Accepted[m].name_orig, StructuringAlerts(SilverTable))
    BY DEF BurstsAreFlagged
  <2>1. AllThrough
    BY EverythingComesThrough
  <2>2. ASSUME Bursts(Accepted, Accepted[m].name_orig, Accepted[m].step)
        PROVE  Flagged(Accepted[m].name_orig, VelocityAlerts(SilverTable))
    BY <2>1, <2>2, BurstIsFlagged
  <2>3. ASSUME Cardinality(Splits(Accepted, Accepted[m].name_orig, Accepted[m].step))
                  > 2 * (MinCount - 1)
        PROVE  Flagged(Accepted[m].name_orig, StructuringAlerts(SilverTable))
    BY <2>1, <2>3, SplitIsFlagged
  <2> QED  BY <2>2, <2>3
<1> QED  BY <1>1, DetectedIsSound, PTL

\* As long as no silver query has died and no checkpoint was lost, an account
\* none of whose messages came through twice is flagged for nothing but what is
\* in the file: no death of the bronze query counts a row twice.
THEOREM AlarmsAreEarned == DetectedSpec => []AlarmsAreDeserved
<1>1. Sound => AlarmsAreDeserved
  <2> SUFFICES ASSUME Sound, spent.silverCrashes + spent.silverLosses + spent.bronzeLosses = 0,
                      NEW account, NoneRepeated(account)
               PROVE  /\ Flagged(account, StructuringAlerts(SilverTable)) =>
                            \E m \in DOMAIN Accepted :
                               LET rows == Splits(Accepted, account, Accepted[m].step)
                               IN  /\ Cardinality(rows) >= MinCount
                                   /\ Amounts(Accepted, rows) > Threshold
                      /\ Flagged(account, VelocityAlerts(SilverTable)) =>
                            \E m \in DOMAIN Accepted : Bursts(Accepted, account, Accepted[m].step)
    BY Zenon DEF AlarmsAreDeserved, NoneRepeated
  <2>1. OnceEach(account)
    BY EachRowIsOnce
  <2>2. ASSUME Flagged(account, StructuringAlerts(SilverTable))
        PROVE  \E m \in DOMAIN Accepted :
                  /\ Cardinality(Splits(Accepted, account, Accepted[m].step)) >= MinCount
                  /\ Amounts(Accepted, Splits(Accepted, account, Accepted[m].step)) > Threshold
    BY <2>1, <2>2, SplitIsDeserved
  <2>3. ASSUME Flagged(account, VelocityAlerts(SilverTable))
        PROVE  \E m \in DOMAIN Accepted : Bursts(Accepted, account, Accepted[m].step)
    BY <2>1, <2>3, BurstIsDeserved
  <2> QED  BY <2>2, <2>3
<1> QED  BY <1>1, DetectedIsSound, PTL
=============================================================================
