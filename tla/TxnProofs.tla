------------------------------ MODULE TxnProofs -----------------------------
(***************************************************************************)
(* Proofs about TxnStream and TxnDag, for every topic, every set of        *)
(* payloads, and every number of messages, retries, deaths and lost        *)
(* checkpoints.  The stream comes first, then what the schedule adds.      *)
(***************************************************************************)
EXTENDS TxnDag, Induction, SequenceTheorems, TLAPS

(***************************************************************************)
(* Messages: what the three-valued rules establish.                        *)
(***************************************************************************)

\* A transaction the contract passes has every field, its figures are in range,
\* and its balances fit its amount: no rule lets it through because its
\* condition is Null.
LEMMA ContractMakesMeaningful ==
    ASSUME NEW t \in Transactions, Passes(t)
    PROVE  Meaningful(ConformTxn(t))
<1> DEFINE c == ConformTxn(t)
<1> USE MaxCentsAssumption, NullAssumption
<1>1. /\ \A f \in Fields : ~(~IsNotNull(c[f]))
      /\ \A f \in DOMAIN Lowest : ~Violated(AtLeast(c[f], Lowest[f]))
      /\ \A f \in DOMAIN AllowedValues : ~Violated(IsIn(c[f], AllowedValues[f]))
      /\ \A n \in DOMAIN TxnConditions(c) : ~Violated(TxnConditions(c)[n])
  BY DEF Passes, RulesBroken, FieldRulesBroken
<1>2. \A f \in Fields : c[f] # Null
  BY <1>1 DEF IsNotNull
<1>3. \A f \in MoneyFields : c[f] = Decimal(t[f])
  BY DEF ConformTxn, Fields, MoneyFields
<1>4. \A f \in MoneyFields : c[f] \in -MaxCents..MaxCents
  BY <1>2, <1>3 DEF Decimal, Fields, MoneyFields
<1>5. c.step \in Int
  BY <1>2, TransactionsAssumption DEF ConformTxn, Fields, MoneyFields
<1>6. \A f \in MoneyFields \cup {"step"} : c[f] >= Lowest[f]
  <2> TAKE f \in MoneyFields \cup {"step"}
  <2>1. f \in DOMAIN Lowest /\ f \in Fields
    BY DEF Lowest, Fields, MoneyFields
  <2>2. c[f] # Null /\ Lowest[f] # Null
    BY <2>1, <1>2 DEF Lowest
  <2> SUFFICES ASSUME ~(c[f] >= Lowest[f]) PROVE FALSE
    OBVIOUS
  <2>3. AtLeast(c[f], Lowest[f]) = FALSE
    BY <2>2 DEF AtLeast, Known
  <2> QED  BY <2>1, <2>3, <1>1 DEF Violated
<1>7. c.step >= 1 /\ \A f \in MoneyFields : c[f] \in 0..MaxCents
  BY <1>4, <1>5, <1>6 DEF Lowest, MoneyFields
<1>8. c.type \in TxnTypes /\ c.is_fraud \in {0, 1}
  <2>1. ~Violated(IsIn(c["type"], TxnTypes)) /\ ~Violated(IsIn(c["is_fraud"], {0, 1}))
    BY <1>1 DEF AllowedValues
  <2>2. c["type"] # Null /\ c["is_fraud"] # Null
    BY <1>2 DEF Fields
  <2> QED  BY <2>1, <2>2 DEF Violated, IsIn, Known
<1>9. /\ ~Violated(Above(c.amount, 0))
      /\ ~Violated(TxnConditions(c).debit_balance_consistent)
  BY <1>1 DEF TxnConditions
<1>10. /\ c.amount \in Int /\ c.old_balance_orig \in Int /\ c.new_balance_orig \in Int
       /\ c.amount # Null /\ c.old_balance_orig # Null /\ c.new_balance_orig # Null
       /\ c.type # Null
  BY <1>4, <1>2 DEF MoneyFields, Fields
<1>11. c.amount > 0
  BY <1>9, <1>10 DEF Above, Known, Violated
<1>12. c.type # "CASH_IN" => \/ c.new_balance_orig = 0
                             \/ c.old_balance_orig - c.new_balance_orig - c.amount
                                   \in -Cents100..Cents100
  <2> SUFFICES ASSUME c.type # "CASH_IN", c.new_balance_orig # 0
               PROVE  c.old_balance_orig - c.new_balance_orig - c.amount \in -Cents100..Cents100
    OBVIOUS
  <2>1. Not(IsIn(c.type, DebitSide)) = FALSE
    BY <1>8, <1>10 DEF Not, IsIn, Known, DebitSide, TxnTypes
  <2>2. Equal(c.new_balance_orig, 0) = FALSE
    BY <1>10 DEF Equal, Known
  <2> DEFINE moved == Minus(c.old_balance_orig, c.new_balance_orig)
             near  == Within(moved, c.amount, Cents100)
  <2>3. moved = c.old_balance_orig - c.new_balance_orig /\ moved \in Int /\ moved # Null
    BY <1>10 DEF Minus, Known
  <2>4. Or(Not(IsIn(c.type, DebitSide)), Or(near, Equal(c.new_balance_orig, 0))) # FALSE
    BY <1>9 DEF TxnConditions, Violated
  <2> HIDE DEF moved
  <2> SUFFICES ASSUME moved - c.amount \notin -Cents100..Cents100 PROVE FALSE
    BY <2>3
  <2>5. near = FALSE
    BY <2>3, <1>10 DEF Within, Known
  <2> HIDE DEF near
  <2>6. Or(near, Equal(c.new_balance_orig, 0)) = FALSE
    BY <2>2, <2>5 DEF Or, Known
  <2> QED  BY <2>1, <2>4, <2>6 DEF Or, Known
<1> QED  BY <1>2, <1>7, <1>8, <1>11, <1>12 DEF Meaningful

(***************************************************************************)
(* The topic and the budgets.                                              *)
(***************************************************************************)
Budget == [messages : Nat, bronzeCrashes : Nat, silverCrashes : Nat,
           alertCrashes : Nat, bronzeLosses : Nat, silverLosses : Nat]

Topic ==
    /\ log \in [Partitions -> Seq(Transactions)]
    /\ spent \in Budget
    /\ spent.messages <= MaxMessages /\ Losses <= MaxLosses
    /\ \A p \in Partitions : Len(log[p]) <= spent.messages

\* A message keeps its offset, and the log only gets longer.
LogGrows ==
    \A p \in Partitions : /\ Len(log[p]) <= Len(log'[p])
                          /\ \A o \in 1..Len(log[p]) : log'[p][o] = log[p][o]

\* Spending takes one from one budget.
LEMMA SpendOne ==
    ASSUME spent \in Budget
    PROVE  /\ Spend("messages") =>
                 /\ spent' \in Budget /\ spent'.messages = spent.messages + 1
                 /\ spent'.bronzeLosses = spent.bronzeLosses
                 /\ spent'.silverLosses = spent.silverLosses
           /\ Spend("bronzeCrashes") \/ Spend("silverCrashes") \/ Spend("alertCrashes") =>
                 /\ spent' \in Budget /\ spent'.messages = spent.messages
                 /\ spent'.bronzeLosses = spent.bronzeLosses
                 /\ spent'.silverLosses = spent.silverLosses
           /\ Spend("bronzeLosses") =>
                 /\ spent' \in Budget /\ spent'.messages = spent.messages
                 /\ spent'.bronzeLosses = spent.bronzeLosses + 1
                 /\ spent'.silverLosses = spent.silverLosses
           /\ Spend("silverLosses") =>
                 /\ spent' \in Budget /\ spent'.messages = spent.messages
                 /\ spent'.bronzeLosses = spent.bronzeLosses
                 /\ spent'.silverLosses = spent.silverLosses + 1
<1> USE DEF Budget, Spend
<1>1. CASE Spend("messages")       BY <1>1
<1>2. CASE Spend("bronzeCrashes")  BY <1>2
<1>3. CASE Spend("silverCrashes")  BY <1>3
<1>4. CASE Spend("alertCrashes")   BY <1>4
<1>5. CASE Spend("bronzeLosses")   BY <1>5
<1>6. CASE Spend("silverLosses")   BY <1>6
<1> QED  BY <1>1, <1>2, <1>3, <1>4, <1>5, <1>6

LEMMA TopicInit == StreamInit => Topic
<1> USE BoundsAssumption
<1> QED  BY DEF StreamInit, Topic, Budget, Losses

LEMMA TopicStep ==
    ASSUME Topic, [StreamNext]_streamVars
    PROVE  Topic' /\ LogGrows
<1>0. /\ spent.messages \in Nat /\ spent.bronzeLosses \in Nat /\ spent.silverLosses \in Nat
      /\ MaxMessages \in Nat /\ MaxLosses \in Nat /\ spent \in Budget
      /\ \A p \in Partitions : Len(log[p]) \in Nat
  BY BoundsAssumption DEF Topic, Budget
<1>1. ASSUME UNCHANGED <<log, spent>> PROVE Topic' /\ LogGrows
  BY <1>1, <1>0 DEF Topic, LogGrows, Losses
<1>2. ASSUME NEW p \in Partitions, NEW t \in Transactions, Produce(p, t)
      PROVE  Topic' /\ LogGrows
  <2>1. /\ log' = [log EXCEPT ![p] = Append(log[p], t)]
        /\ spent.messages < MaxMessages /\ Spend("messages")
    BY <1>2 DEF Produce
  <2>2. log[p] \in Seq(Transactions) /\ log \in [Partitions -> Seq(Transactions)]
    BY DEF Topic
  <2>3. /\ Append(log[p], t) \in Seq(Transactions)
        /\ Len(Append(log[p], t)) = Len(log[p]) + 1
        /\ \A o \in 1..Len(log[p]) : Append(log[p], t)[o] = log[p][o]
    BY <2>2
  <2>4. /\ log'[p] = Append(log[p], t) /\ log' \in [Partitions -> Seq(Transactions)]
        /\ \A q \in Partitions \ {p} : log'[q] = log[q]
    BY <2>1, <2>2, <2>3
  <2>5. LogGrows
    <3> SUFFICES ASSUME NEW q \in Partitions
                 PROVE  /\ Len(log[q]) <= Len(log'[q])
                        /\ \A o \in 1..Len(log[q]) : log'[q][o] = log[q][o]
      BY DEF LogGrows
    <3>1. CASE q = p  BY <3>1, <2>3, <2>4, <1>0
    <3>2. CASE q # p  BY <3>2, <2>4, <1>0
    <3> QED  BY <3>1, <3>2
  <2>6. /\ spent' \in Budget /\ spent'.messages = spent.messages + 1
        /\ Losses' = Losses
    BY <2>1, <1>0, SpendOne DEF Losses
  <2>7. \A q \in Partitions : Len(log'[q]) <= spent'.messages
    <3> SUFFICES ASSUME NEW q \in Partitions PROVE Len(log'[q]) <= spent'.messages
      OBVIOUS
    <3>1. Len(log[q]) <= spent.messages
      BY DEF Topic
    <3>2. CASE q = p  BY <3>1, <3>2, <2>3, <2>4, <2>6, <1>0
    <3>3. CASE q # p  BY <3>1, <3>3, <2>4, <2>6, <1>0
    <3> QED  BY <3>2, <3>3
  <2> QED  BY <2>1, <2>4, <2>5, <2>6, <2>7, <1>0 DEF Topic
<1>3. ASSUME BronzeDies \/ SilverDies \/ AlertsDie PROVE Topic' /\ LogGrows
  <2>1. /\ log' = log
        /\ Spend("bronzeCrashes") \/ Spend("silverCrashes") \/ Spend("alertCrashes")
    BY <1>3 DEF BronzeDies, SilverDies, AlertsDie
  <2>2. spent' \in Budget /\ spent'.messages = spent.messages /\ Losses' = Losses
    BY <2>1, <1>0, SpendOne DEF Losses
  <2> QED  BY <2>1, <2>2, <1>0 DEF Topic, LogGrows
<1>4. ASSUME BronzeCheckpointLost \/ SilverCheckpointLost PROVE Topic' /\ LogGrows
  <2>1. /\ log' = log /\ Losses < MaxLosses
        /\ Spend("bronzeLosses") \/ Spend("silverLosses")
    BY <1>4 DEF BronzeCheckpointLost, SilverCheckpointLost
  <2>2. spent' \in Budget /\ spent'.messages = spent.messages /\ Losses' = Losses + 1
    BY <2>1, <1>0, SpendOne DEF Losses
  <2>3. Losses \in Nat
    BY <1>0 DEF Losses
  <2> QED  BY <2>1, <2>2, <2>3, <1>0 DEF Topic, LogGrows
<1>5. CASE StartBronze \/ BronzeSteps \/ StartSilver \/ SilverSteps \/ StartAlerts \/ AlertsWrite
  BY <1>5, <1>1 DEF StartBronze, BronzeSteps, BronzePlans, BronzeDone, BronzeWrites,
     BronzeCommits, StartSilver, SilverSteps, SilverPlans, SilverDone, SilverWrites,
     SilverQuarantines, SilverCommits, StartAlerts, AlertsWrite
<1>6. CASE UNCHANGED streamVars
  BY <1>6, <1>1 DEF streamVars
<1> QED  BY <1>2, <1>3, <1>4, <1>5, <1>6 DEF StreamNext, Outside

(***************************************************************************)
(* Bronze: an append is planned before it is made and made before it is    *)
(* marked, so the appends of one query follow each other without a gap.    *)
(***************************************************************************)
Appended == [query : 0..MaxLosses, epoch : Nat, from : Positions, to : Positions]

BronzeTypes ==
    /\ landing \in Checkpoints(Positions, MaxLosses)
    /\ landing.query = spent.bronzeLosses
    /\ bronzeRun \in Runs(Positions, {"select", "write", "commit"})
    /\ bronze \in Seq(Appended)

WithinTopic ==
    /\ \A p \in Partitions : /\ landing.done[p] <= landing.planned[p]
                             /\ landing.planned[p] <= Len(log[p])
                             /\ bronzeRun.target[p] <= Len(log[p])
    /\ \A i \in DOMAIN bronze, p \in Partitions : bronze[i].to[p] <= Len(log[p])

\* A run plans up to its target, writes what is planned, marks what is written.
BronzePhase ==
    /\ bronzeRun.pc \notin Ended =>
          \A p \in Partitions : landing.planned[p] <= bronzeRun.target[p]
    /\ bronzeRun.pc \in {"write", "commit"} => Pending(landing)
    /\ bronzeRun.pc = "commit" => Landed

\* How an append stands to the checkpoint of the query that made it.
AppendsMatchCheckpoint ==
    \A i \in DOMAIN bronze :
        /\ bronze[i].query <= landing.query
        /\ bronze[i].query = landing.query =>
              /\ bronze[i].epoch <= landing.epoch
              /\ bronze[i].epoch < landing.epoch =>
                    \A p \in Partitions : bronze[i].to[p] <= landing.done[p]
              /\ bronze[i].epoch = landing.epoch =>
                    /\ bronze[i].from = landing.done /\ bronze[i].to = landing.planned
                    /\ Pending(landing)

QueriesNeverOverlap ==
    \A i, j \in DOMAIN bronze : i < j /\ bronze[i].query = bronze[j].query =>
        \A p \in Partitions : bronze[i].to[p] <= bronze[j].from[p]

NoGapBehindCheckpoint ==
    \A p \in Partitions : \A o \in 1..landing.done[p] :
        \E i \in DOMAIN bronze : Holds(bronze[i], <<p, o>>)

SoundBronze == BronzeTypes /\ WithinTopic /\ BronzePhase /\ AppendsMatchCheckpoint
               /\ QueriesNeverOverlap /\ NoGapBehindCheckpoint

LEMMA BronzeInit == StreamInit => SoundBronze
<1> USE BoundsAssumption
<1> SUFFICES ASSUME StreamInit PROVE SoundBronze
  OBVIOUS
<1>1. /\ landing = [query |-> 0, epoch |-> 0, done |-> Nowhere, planned |-> Nowhere]
      /\ bronzeRun = [pc |-> "idle", target |-> Nowhere]
      /\ bronze = <<>> /\ spent.bronzeLosses = 0 /\ log = [p \in Partitions |-> <<>>]
  BY DEF StreamInit, Fresh
<1>2. Nowhere \in Positions /\ \A p \in Partitions : Nowhere[p] = 0 /\ Len(log[p]) = 0
  BY <1>1 DEF Nowhere, Positions
<1>3. BronzeTypes /\ WithinTopic
  BY <1>1, <1>2 DEF BronzeTypes, WithinTopic, Checkpoints, Runs, Ended
<1>4. BronzePhase /\ AppendsMatchCheckpoint /\ QueriesNeverOverlap /\ NoGapBehindCheckpoint
  BY <1>1, <1>2 DEF BronzePhase, AppendsMatchCheckpoint, QueriesNeverOverlap, NoGapBehindCheckpoint
<1> QED  BY <1>3, <1>4 DEF SoundBronze

\* What the types come to, number by number.
BronzeNumbers ==
    /\ landing.query \in Nat /\ landing.epoch \in Nat
    /\ landing.done \in Positions /\ landing.planned \in Positions
    /\ bronzeRun.target \in Positions
    /\ \A p \in Partitions : /\ landing.done[p] \in Nat /\ landing.planned[p] \in Nat
                             /\ bronzeRun.target[p] \in Nat
    /\ \A i \in DOMAIN bronze :
          /\ i \in Nat /\ bronze[i] \in Appended
          /\ bronze[i].query \in Nat /\ bronze[i].epoch \in Nat
          /\ \A p \in Partitions : bronze[i].from[p] \in Nat /\ bronze[i].to[p] \in Nat

LEMMA BronzeCounts == BronzeTypes => BronzeNumbers
<1> SUFFICES ASSUME BronzeTypes PROVE BronzeNumbers
  OBVIOUS
<1> USE BoundsAssumption DEF BronzeTypes
<1>1. /\ landing.query \in Nat /\ landing.epoch \in Nat
      /\ landing.done \in Positions /\ landing.planned \in Positions
      /\ bronzeRun.target \in Positions
  BY DEF Checkpoints, Runs
<1>2. \A f \in Positions, p \in Partitions : f[p] \in Nat
  BY DEF Positions
<1>3. \A i \in DOMAIN bronze : i \in Nat /\ bronze[i] \in Appended
  OBVIOUS
<1>4. \A a \in Appended : /\ a.query \in Nat /\ a.epoch \in Nat
                          /\ a.from \in Positions /\ a.to \in Positions
  BY DEF Appended
<1> QED  BY <1>1, <1>2, <1>3, <1>4 DEF BronzeNumbers

\* What leaves the bronze stage alone leaves it sound.
LEMMA BronzeFrame ==
    ASSUME Topic, Topic', SoundBronze, LogGrows, UNCHANGED bronzeVars,
           spent'.bronzeLosses = spent.bronzeLosses
    PROVE  SoundBronze'
<1>1. \A p \in Partitions : Len(log[p]) <= Len(log'[p]) /\ Len(log[p]) \in Nat /\ Len(log'[p]) \in Nat
  BY DEF LogGrows, Topic
<1>2. UNCHANGED <<bronze, landing, bronzeRun>>
  BY DEF bronzeVars
<1>3. BronzeTypes' /\ WithinTopic'
  <2>1. BronzeTypes /\ WithinTopic
    BY DEF SoundBronze
  <2>2. BronzeTypes'
    BY <1>2, <2>1 DEF BronzeTypes
  <2>3. WithinTopic'
    <3>1. BronzeNumbers
      BY <2>1, BronzeCounts
    <3>2. \A p \in Partitions : /\ landing.planned[p] <= Len(log'[p])
                               /\ bronzeRun.target[p] <= Len(log'[p])
      BY <1>1, <2>1, <3>1 DEF WithinTopic, BronzeNumbers
    <3>3. \A i \in DOMAIN bronze, p \in Partitions : bronze[i].to[p] <= Len(log'[p])
      BY <1>1, <2>1, <3>1 DEF WithinTopic, BronzeNumbers
    <3> QED  BY <1>2, <2>1, <3>2, <3>3 DEF WithinTopic
  <2> QED  BY <2>2, <2>3
<1>4. (BronzePhase /\ AppendsMatchCheckpoint)'
  BY <1>2 DEF SoundBronze, BronzePhase, AppendsMatchCheckpoint, Pending, Landed
<1>5. (QueriesNeverOverlap /\ NoGapBehindCheckpoint)'
  BY <1>2 DEF SoundBronze, QueriesNeverOverlap, NoGapBehindCheckpoint, Holds
<1> QED  BY <1>3, <1>4, <1>5 DEF SoundBronze

\* The bronze stage itself, one action after the other.
LEMMA BronzeStarts ==
    ASSUME Topic, SoundBronze, StartBronze
    PROVE  SoundBronze'
<1>1. /\ bronzeRun.pc \in Ended
      /\ bronzeRun' = [pc |-> "select", target |-> Ends]
      /\ UNCHANGED <<log, bronze, landing, spent>>
  BY DEF StartBronze
<1>2. Ends \in Positions /\ \A p \in Partitions : Ends[p] = Len(log[p])
  BY BoundsAssumption DEF Ends, Positions, Topic, Budget
<1>3. BronzeTypes'
  BY <1>1, <1>2 DEF SoundBronze, BronzeTypes, Runs, Checkpoints, Appended
<1>4. WithinTopic' /\ BronzePhase'
  BY <1>1, <1>2, BronzeCounts
     DEF SoundBronze, WithinTopic, BronzePhase, BronzeNumbers, Topic
<1>5. (AppendsMatchCheckpoint /\ QueriesNeverOverlap /\ NoGapBehindCheckpoint)'
  BY <1>1 DEF SoundBronze, AppendsMatchCheckpoint, QueriesNeverOverlap,
              NoGapBehindCheckpoint, Pending, Holds
<1> QED  BY <1>3, <1>4, <1>5 DEF SoundBronze

LEMMA BronzePlanned ==
    ASSUME Topic, SoundBronze, BronzePlans
    PROVE  SoundBronze'
<1>1. /\ bronzeRun.pc = "select"
      /\ bronzeRun'.pc = "write" /\ bronzeRun'.target = bronzeRun.target
      /\ bronzeRun' \in Runs(Positions, {"select", "write", "commit"})
      /\ UNCHANGED <<log, bronze, spent>>
  BY DEF BronzePlans, SoundBronze, BronzeTypes, Runs
<1>2. BronzeNumbers /\ BronzeTypes /\ WithinTopic /\ BronzePhase
  BY BronzeCounts DEF SoundBronze
<1>3. /\ landing' \in Checkpoints(Positions, MaxLosses)
      /\ landing'.query = landing.query /\ landing'.epoch = landing.epoch
      /\ landing'.done = landing.done
      /\ landing'.planned = IF Pending(landing) THEN landing.planned ELSE bronzeRun.target
  BY <1>2 DEF BronzePlans, BronzeTypes, BronzeNumbers, Plan, Checkpoints
<1>4. \A p \in Partitions : /\ landing.planned[p] <= bronzeRun.target[p]
                            /\ landing.done[p] <= landing'.planned[p]
                            /\ landing'.planned[p] <= bronzeRun.target[p]
  <2>1. \A p \in Partitions : /\ landing.planned[p] <= bronzeRun.target[p]
                             /\ landing.done[p] <= landing.planned[p]
    BY <1>1, <1>2 DEF BronzePhase, Ended, WithinTopic
  <2>2. CASE Pending(landing)   BY <1>2, <1>3, <2>1, <2>2
  <2>3. CASE ~Pending(landing)  BY <1>2, <1>3, <2>1, <2>3 DEF Pending, BronzeNumbers
  <2> QED  BY <2>2, <2>3
<1>5. Pending(landing')
  BY <1>3 DEF BronzePlans, Pending
<1>6. BronzeTypes'
  BY <1>1, <1>2, <1>3 DEF BronzeTypes
<1>7. WithinTopic'
  BY <1>1, <1>2, <1>3, <1>4 DEF WithinTopic
<1>8. BronzePhase'
  BY <1>1, <1>5, <1>4 DEF BronzePhase
<1>9. AppendsMatchCheckpoint'
  BY <1>1, <1>3, <1>5 DEF SoundBronze, AppendsMatchCheckpoint
<1>10. (QueriesNeverOverlap /\ NoGapBehindCheckpoint)'
  BY <1>1, <1>3 DEF SoundBronze, QueriesNeverOverlap, NoGapBehindCheckpoint, Holds
<1> QED  BY <1>6, <1>7, <1>8, <1>9, <1>10 DEF SoundBronze

\* Done and Dies change how the run stands and nothing else.
LEMMA BronzeEnds ==
    ASSUME Topic, SoundBronze, BronzeDone \/ BronzeDies
    PROVE  SoundBronze'
<1>1. /\ bronzeRun' = [bronzeRun EXCEPT !.pc = "succeeded"]
         \/ bronzeRun' = [bronzeRun EXCEPT !.pc = "failed"]
      /\ UNCHANGED <<log, bronze, landing>>
      /\ spent'.bronzeLosses = spent.bronzeLosses
  BY SpendOne DEF BronzeDone, BronzeDies, Topic
<1>2. /\ bronzeRun'.pc \in Ended /\ bronzeRun'.target = bronzeRun.target
      /\ bronzeRun' \in Runs(Positions, {"select", "write", "commit"})
  BY <1>1 DEF SoundBronze, BronzeTypes, Runs, Ended
<1>3. BronzeTypes' /\ WithinTopic'
  BY <1>1, <1>2 DEF SoundBronze, BronzeTypes, WithinTopic
<1>4. BronzePhase'
  BY <1>2 DEF BronzePhase, Ended
<1>5. (AppendsMatchCheckpoint /\ QueriesNeverOverlap /\ NoGapBehindCheckpoint)'
  BY <1>1 DEF SoundBronze, AppendsMatchCheckpoint, QueriesNeverOverlap,
              NoGapBehindCheckpoint, Pending, Holds
<1> QED  BY <1>3, <1>4, <1>5 DEF SoundBronze

\* The append holds what the checkpoint has planned; the sink makes it once.
LEMMA BronzeWritten ==
    ASSUME Topic, SoundBronze, BronzeWrites
    PROVE  SoundBronze'
<1> DEFINE new == [query |-> landing.query, epoch |-> landing.epoch,
                   from |-> landing.done, to |-> landing.planned]
<1>1. /\ bronzeRun.pc = "write"
      /\ bronzeRun'.pc = "commit" /\ bronzeRun'.target = bronzeRun.target
      /\ bronzeRun' \in Runs(Positions, {"select", "write", "commit"})
      /\ UNCHANGED <<log, landing, spent>>
      /\ bronze' = IF Landed THEN bronze ELSE Append(bronze, new)
  BY DEF BronzeWrites, SoundBronze, BronzeTypes, Runs
<1>2. /\ BronzeNumbers /\ BronzeTypes /\ WithinTopic /\ Pending(landing)
      /\ AppendsMatchCheckpoint /\ QueriesNeverOverlap /\ NoGapBehindCheckpoint
  BY <1>1, BronzeCounts DEF SoundBronze, BronzePhase
<1>3. (\A p \in Partitions : landing.planned[p] <= bronzeRun.target[p])'
  BY <1>1 DEF SoundBronze, BronzePhase, Ended
<1>4. CASE Landed
  <2>1. bronze' = bronze
    BY <1>1, <1>4
  <2>2. BronzeTypes' /\ WithinTopic'
    BY <1>1, <1>2, <2>1 DEF BronzeTypes, WithinTopic
  <2>3. BronzePhase'
    BY <1>1, <1>2, <1>4, <1>3, <2>1 DEF BronzePhase, Pending, Landed
  <2>4. (AppendsMatchCheckpoint /\ QueriesNeverOverlap /\ NoGapBehindCheckpoint)'
    BY <1>1, <1>2, <2>1 DEF AppendsMatchCheckpoint, QueriesNeverOverlap,
                            NoGapBehindCheckpoint, Pending, Holds
  <2> QED  BY <2>2, <2>3, <2>4 DEF SoundBronze
<1>5. CASE ~Landed
  <2> DEFINE n == Len(bronze) + 1
  <2>1. new \in Appended /\ bronze \in Seq(Appended)
    BY <1>2 DEF Appended, BronzeTypes, BronzeNumbers, Checkpoints
  <2>2. /\ bronze' = Append(bronze, new) /\ bronze' \in Seq(Appended)
        /\ DOMAIN bronze' = 1..n /\ DOMAIN bronze = 1..n - 1 /\ n \in Nat
        /\ bronze'[n] = new /\ \A i \in DOMAIN bronze : bronze'[i] = bronze[i]
    BY <1>1, <1>5, <2>1
  <2>3. \A i \in DOMAIN bronze' : i = n \/ (i \in DOMAIN bronze /\ i < n)
    BY <2>2
  <2>4. /\ new.query = landing.query /\ new.epoch = landing.epoch
        /\ new.from = landing.done /\ new.to = landing.planned
    OBVIOUS
  <2> HIDE DEF new, n
  <2>5. \A i \in DOMAIN bronze : bronze[i].query = landing.query =>
            /\ bronze[i].epoch < landing.epoch
            /\ \A p \in Partitions : bronze[i].to[p] <= landing.done[p]
    BY <1>2, <1>5 DEF AppendsMatchCheckpoint, Landed, BronzeNumbers
  <2>6. BronzeTypes'
    BY <1>1, <1>2, <2>2 DEF BronzeTypes
  <2>7. WithinTopic'
    BY <1>1, <1>2, <2>2, <2>3, <2>4 DEF WithinTopic
  <2>8. BronzePhase'
    <3>1. Landed'
      BY <1>1, <1>2, <2>2, <2>4 DEF Landed, BronzeNumbers
    <3> QED  BY <1>1, <1>2, <1>3, <3>1 DEF BronzePhase, Pending
  <2>9. AppendsMatchCheckpoint'
    <3> SUFFICES ASSUME NEW i \in DOMAIN bronze'
                 PROVE  /\ bronze'[i].query <= landing.query
                        /\ bronze'[i].query = landing.query =>
                              /\ bronze'[i].epoch <= landing.epoch
                              /\ bronze'[i].epoch < landing.epoch =>
                                    \A p \in Partitions : bronze'[i].to[p] <= landing.done[p]
                              /\ bronze'[i].epoch = landing.epoch =>
                                    /\ bronze'[i].from = landing.done
                                    /\ bronze'[i].to = landing.planned
                                    /\ Pending(landing)
      BY <1>1 DEF AppendsMatchCheckpoint
    <3>1. CASE i = n
      BY <1>2, <2>2, <2>4, <3>1 DEF BronzeNumbers
    <3>2. CASE i \in DOMAIN bronze
      BY <1>2, <2>2, <2>5, <3>2 DEF AppendsMatchCheckpoint, BronzeNumbers
    <3> QED  BY <2>3, <3>1, <3>2
  <2>10. QueriesNeverOverlap'
    <3> SUFFICES ASSUME NEW i \in DOMAIN bronze', NEW j \in DOMAIN bronze', i < j,
                        bronze'[i].query = bronze'[j].query, NEW p \in Partitions
                 PROVE  bronze'[i].to[p] <= bronze'[j].from[p]
      BY DEF QueriesNeverOverlap
    <3>1. i \in DOMAIN bronze
      BY <2>2, <2>3
    <3>2. CASE j = n
      BY <2>2, <2>4, <2>5, <3>1, <3>2
    <3>3. CASE j \in DOMAIN bronze
      BY <1>2, <2>2, <3>1, <3>3 DEF QueriesNeverOverlap
    <3> QED  BY <2>3, <3>2, <3>3
  <2>11. NoGapBehindCheckpoint'
    BY <1>1, <1>2, <2>2 DEF NoGapBehindCheckpoint, Holds
  <2> QED  BY <2>6, <2>7, <2>8, <2>9, <2>10, <2>11 DEF SoundBronze
<1> QED  BY <1>4, <1>5

\* Marking moves the checkpoint to the end of the append that is there.
LEMMA BronzeCommitted ==
    ASSUME Topic, SoundBronze, BronzeCommits
    PROVE  SoundBronze'
<1>1. /\ bronzeRun.pc = "commit"
      /\ bronzeRun'.pc = "select" /\ bronzeRun'.target = bronzeRun.target
      /\ bronzeRun' \in Runs(Positions, {"select", "write", "commit"})
      /\ UNCHANGED <<log, bronze, spent>>
  BY DEF BronzeCommits, SoundBronze, BronzeTypes, Runs
<1>2. /\ BronzeNumbers /\ BronzeTypes /\ WithinTopic /\ Landed
      /\ AppendsMatchCheckpoint /\ QueriesNeverOverlap /\ NoGapBehindCheckpoint
  BY <1>1, BronzeCounts DEF SoundBronze, BronzePhase
<1>3. /\ landing' \in Checkpoints(Positions, MaxLosses)
      /\ landing'.query = landing.query /\ landing'.epoch = landing.epoch + 1
      /\ landing'.done = landing.planned /\ landing'.planned = landing.planned
  <2> DEFINE next == landing.epoch + 1
  <2>1. landing' = [landing EXCEPT !.done = landing.planned, !.epoch = next]
    BY DEF BronzeCommits, Mark
  <2>2. /\ next \in Nat /\ landing.planned \in Positions
        /\ landing \in [query : 0..MaxLosses, epoch : Nat, done : Positions, planned : Positions]
    BY <1>2 DEF BronzeTypes, BronzeNumbers, Checkpoints
  <2> HIDE DEF next
  <2>3. /\ landing' \in [query : 0..MaxLosses, epoch : Nat, done : Positions, planned : Positions]
        /\ landing'.query = landing.query /\ landing'.epoch = next
        /\ landing'.done = landing.planned /\ landing'.planned = landing.planned
    BY <2>1, <2>2
  <2> QED  BY <2>3 DEF next, Checkpoints
<1>4. PICK last \in DOMAIN bronze :
         bronze[last].query = landing.query /\ bronze[last].epoch >= landing.epoch
  BY <1>2 DEF Landed
<1>5. bronze[last].from = landing.done /\ bronze[last].to = landing.planned
  BY <1>2, <1>4 DEF AppendsMatchCheckpoint, BronzeNumbers
<1>6. BronzeTypes' /\ WithinTopic'
  BY <1>1, <1>2, <1>3 DEF BronzeTypes, WithinTopic, BronzeNumbers
<1>7. BronzePhase'
  BY <1>1, <1>3 DEF SoundBronze, BronzePhase, Ended
<1>8. AppendsMatchCheckpoint'
  <2> SUFFICES ASSUME NEW i \in DOMAIN bronze
               PROVE  /\ bronze[i].query <= landing.query
                      /\ bronze[i].query = landing.query =>
                            /\ bronze[i].epoch < landing.epoch + 1
                            /\ \A p \in Partitions : bronze[i].to[p] <= landing.planned[p]
    BY <1>1, <1>2, <1>3 DEF AppendsMatchCheckpoint, BronzeNumbers
  <2>1. CASE bronze[i].query # landing.query
    BY <1>2, <2>1 DEF AppendsMatchCheckpoint
  <2>2. CASE bronze[i].query = landing.query /\ bronze[i].epoch = landing.epoch
    BY <1>2, <2>2 DEF AppendsMatchCheckpoint, BronzeNumbers
  <2>3. CASE bronze[i].query = landing.query /\ bronze[i].epoch # landing.epoch
    <3>1. /\ bronze[i].epoch < landing.epoch /\ bronze[i].query <= landing.query
          /\ \A p \in Partitions : bronze[i].to[p] <= landing.done[p]
      BY <1>2, <2>3 DEF AppendsMatchCheckpoint, BronzeNumbers
    <3>2. \A p \in Partitions : bronze[i].to[p] <= landing.planned[p]
      <4> TAKE p \in Partitions
      <4>1. bronze[i].to[p] <= landing.done[p] /\ landing.done[p] <= landing.planned[p]
        BY <1>2, <3>1 DEF WithinTopic
      <4> QED  BY <1>2, <4>1 DEF BronzeNumbers
    <3> QED  BY <1>2, <3>1, <3>2 DEF BronzeNumbers
  <2> QED  BY <2>1, <2>2, <2>3
<1>9. QueriesNeverOverlap'
  BY <1>1, <1>2 DEF QueriesNeverOverlap
<1>10. NoGapBehindCheckpoint'
  <2> SUFFICES ASSUME NEW p \in Partitions, NEW o \in 1..landing.planned[p]
               PROVE  \E i \in DOMAIN bronze : Holds(bronze[i], <<p, o>>)
    BY <1>1, <1>3 DEF NoGapBehindCheckpoint, Holds
  <2>1. CASE o <= landing.done[p]
    BY <1>2, <2>1 DEF NoGapBehindCheckpoint, BronzeNumbers
  <2>2. CASE ~(o <= landing.done[p])
    BY <1>2, <1>4, <1>5, <2>2 DEF Holds, BronzeNumbers
  <2> QED  BY <2>1, <2>2
<1> QED  BY <1>6, <1>7, <1>8, <1>9, <1>10 DEF SoundBronze

\* A new query has no appends and nothing behind its checkpoint.
LEMMA BronzeRestarted ==
    ASSUME Topic, Topic', SoundBronze, BronzeCheckpointLost
    PROVE  SoundBronze'
<1>1. /\ bronzeRun.pc \in Ended /\ UNCHANGED <<log, bronze, bronzeRun>>
      /\ landing' = [query |-> landing.query + 1, epoch |-> 0,
                     done |-> Nowhere, planned |-> Nowhere]
      /\ spent'.bronzeLosses = spent.bronzeLosses + 1
  BY SpendOne DEF BronzeCheckpointLost, Fresh, Topic
<1>2. BronzeNumbers /\ BronzeTypes /\ WithinTopic /\ AppendsMatchCheckpoint
  BY BronzeCounts DEF SoundBronze
<1>3. Nowhere \in Positions /\ \A p \in Partitions : Nowhere[p] = 0
  BY BoundsAssumption DEF Nowhere, Positions
<1>4. landing.query + 1 \in 0..MaxLosses
  <2>1. spent'.bronzeLosses \in Nat /\ spent'.silverLosses \in Nat /\ MaxLosses \in Nat
        /\ spent'.bronzeLosses + spent'.silverLosses <= MaxLosses
    BY BoundsAssumption DEF Topic, Budget, Losses
  <2> QED  BY <1>1, <1>2, <2>1 DEF BronzeTypes, BronzeNumbers
<1>5. BronzeTypes'
  BY <1>1, <1>2, <1>3, <1>4 DEF BronzeTypes, Checkpoints
<1>6. WithinTopic'
  BY <1>1, <1>2, <1>3 DEF WithinTopic, Topic
<1>7. BronzePhase'
  BY <1>1 DEF BronzePhase, Ended
<1>8. AppendsMatchCheckpoint'
  BY <1>1, <1>2 DEF AppendsMatchCheckpoint, BronzeNumbers
<1>9. (QueriesNeverOverlap /\ NoGapBehindCheckpoint)'
  BY <1>1, <1>3 DEF SoundBronze, QueriesNeverOverlap, NoGapBehindCheckpoint
<1> QED  BY <1>5, <1>6, <1>7, <1>8, <1>9 DEF SoundBronze

LEMMA BronzeStep ==
    ASSUME Topic, SoundBronze, [StreamNext]_streamVars
    PROVE  SoundBronze'
<1>1. Topic' /\ LogGrows
  BY TopicStep
<1>2. CASE StartBronze            BY <1>2, BronzeStarts
<1>3. CASE BronzeSteps
  BY <1>3, BronzePlanned, BronzeEnds, BronzeWritten, BronzeCommitted DEF BronzeSteps
<1>4. CASE BronzeDies             BY <1>4, BronzeEnds
<1>5. CASE BronzeCheckpointLost   BY <1>1, <1>5, BronzeRestarted
<1>6. ASSUME UNCHANGED bronzeVars, spent'.bronzeLosses = spent.bronzeLosses
      PROVE  SoundBronze'
  BY <1>1, <1>6, BronzeFrame
<1>7. CASE (\E p \in Partitions, t \in Transactions : Produce(p, t))
           \/ SilverDies \/ AlertsDie \/ SilverCheckpointLost
  BY <1>6, <1>7, SpendOne DEF Produce, SilverDies, AlertsDie, SilverCheckpointLost, Topic
<1>8. CASE StartSilver \/ SilverSteps \/ StartAlerts \/ AlertsWrite \/ UNCHANGED streamVars
  BY <1>6, <1>8 DEF StartSilver, SilverSteps, SilverPlans, SilverDone, SilverWrites,
     SilverQuarantines, SilverCommits, StartAlerts, AlertsWrite, streamVars
<1> QED  BY <1>2, <1>3, <1>4, <1>5, <1>7, <1>8 DEF StreamNext, Outside

\* The appends of bronze are, in every reachable state, a gapless landing of the
\* topic by each query that ever ran.
THEOREM BronzeIsSound == StreamSpec => [](Topic /\ SoundBronze)
<1>1. StreamInit => Topic /\ SoundBronze
  BY TopicInit, BronzeInit
<1>2. Topic /\ SoundBronze /\ [StreamNext]_streamVars => (Topic /\ SoundBronze)'
  BY TopicStep, BronzeStep
<1> QED  BY <1>1, <1>2, PTL DEF StreamSpec

\* A message is in at most one append of a query, and there have been as many
\* queries as lost checkpoints, and one.
LEMMA CopiesPerQuery ==
    ASSUME Topic, SoundBronze, NEW po \in Messages
    PROVE  BronzeCopies(po) <= 1 + spent.bronzeLosses
<1> DEFINE S == {i \in DOMAIN bronze : Holds(bronze[i], po)}
           Q == 1..landing.query + 1
           f == [i \in S |-> bronze[i].query + 1]
<1>1. BronzeNumbers /\ BronzeTypes /\ AppendsMatchCheckpoint /\ QueriesNeverOverlap
  BY BronzeCounts DEF SoundBronze
<1>2. po[1] \in Partitions /\ po[2] \in Nat
  BY DEF Messages
<1>3. f \in [S -> Q]
  BY <1>1 DEF BronzeNumbers, AppendsMatchCheckpoint
<1>4. \A i, j \in S : bronze[i].query = bronze[j].query => ~(i < j)
  <2> SUFFICES ASSUME NEW i \in S, NEW j \in S, bronze[i].query = bronze[j].query, i < j
               PROVE  FALSE
    OBVIOUS
  <2>1. bronze[i].to[po[1]] <= bronze[j].from[po[1]]
    BY <1>1, <1>2 DEF QueriesNeverOverlap
  <2>2. po[2] <= bronze[i].to[po[1]] /\ bronze[j].from[po[1]] < po[2]
    BY DEF Holds
  <2> QED  BY <2>1, <2>2, <1>1, <1>2 DEF BronzeNumbers
<1>5. \A i, j \in S : f[i] = f[j] => i = j
  <2> SUFFICES ASSUME NEW i \in S, NEW j \in S, f[i] = f[j] PROVE i = j
    OBVIOUS
  <2>1. bronze[i].query = bronze[j].query /\ i \in Nat /\ j \in Nat
    BY <1>1 DEF BronzeNumbers
  <2> QED  BY <2>1, <1>4
<1>6. f \in Injection(S, Q)
  BY <1>3, <1>5 DEF Injection, IsInjective
<1>7. landing.query \in Nat
  BY <1>1 DEF BronzeNumbers
<1>8. IsFiniteSet(Q) /\ Cardinality(Q) = landing.query + 1
  <2> DEFINE n == landing.query + 1
  <2>1. 1 \in Int /\ n \in Int /\ n >= 1
    BY <1>7
  <2> HIDE DEF n
  <2>2. IsFiniteSet(1..n) /\ Cardinality(1..n) = IF 1 > n THEN 0 ELSE n - 1 + 1
    BY <2>1, FS_Interval
  <2>3. Cardinality(1..n) = n
    BY <2>1, <2>2
  <2> QED  BY <2>2, <2>3 DEF n
<1>9. Cardinality(S) <= Cardinality(Q)
  BY <1>6, <1>8, FS_Injection
<1> QED  BY <1>8, <1>9, <1>1, <1>7 DEF BronzeCopies, BronzeTypes

\* Bronze is exactly-once for as long as its checkpoint lives, whatever dies.
THEOREM BronzeLandsOnce == StreamSpec => []BronzeExactlyOnce
<1>1. ASSUME Topic, SoundBronze PROVE BronzeExactlyOnce
  <2> SUFFICES ASSUME NEW po \in Messages
               PROVE  /\ po[2] <= landing.done[po[1]] => BronzeCopies(po) >= 1
                      /\ BronzeCopies(po) <= 1 + spent.bronzeLosses
    BY DEF BronzeExactlyOnce
  <2>1. ASSUME po[2] <= landing.done[po[1]] PROVE BronzeCopies(po) >= 1
    <3> DEFINE S == {i \in DOMAIN bronze : Holds(bronze[i], po)}
    <3>1. po = <<po[1], po[2]>> /\ po[1] \in Partitions /\ po[2] \in Nat /\ po[2] >= 1
      BY BoundsAssumption DEF Messages
    <3>2. BronzeNumbers /\ BronzeTypes /\ NoGapBehindCheckpoint
      BY <1>1, BronzeCounts DEF SoundBronze
    <3>3. po[2] \in 1..landing.done[po[1]]
      BY <2>1, <3>1, <3>2 DEF BronzeNumbers
    <3>4. S # {}
      BY <3>1, <3>2, <3>3 DEF NoGapBehindCheckpoint
    <3>5. IsFiniteSet(DOMAIN bronze)
      BY <3>2, FS_Interval DEF BronzeTypes
    <3>6. IsFiniteSet(S)
      BY <3>5, FS_Subset
    <3>7. Cardinality(S) \in Nat /\ Cardinality(S) # 0
      BY <3>4, <3>6, FS_CardinalityType, FS_EmptySet
    <3> QED  BY <3>7 DEF BronzeCopies
  <2>2. BronzeCopies(po) <= 1 + spent.bronzeLosses
    BY <1>1, CopiesPerQuery
  <2> QED  BY <2>1, <2>2
<1> QED  BY <1>1, BronzeIsSound, PTL

(***************************************************************************)
(* Silver: a batch is behind the checkpoint only after both its halves     *)
(* have been appended, however often that took.                            *)
(***************************************************************************)
SilverTypes ==
    /\ conforming \in Checkpoints(Nat, MaxLosses)
    /\ conforming.query = spent.silverLosses
    /\ silverRun \in Runs(Nat, {"select", "write", "quarantine", "commit"})
    /\ silver \in Seq(Ranges(Nat)) /\ quarantine \in Seq(Ranges(Nat))

InTable(r) == r.from <= Len(bronze) /\ r.to <= Len(bronze)

WithinBronze ==
    /\ conforming.done <= conforming.planned
    /\ conforming.planned <= Len(bronze) /\ silverRun.target <= Len(bronze)
    /\ \A a \in DOMAIN silver : InTable(silver[a])
    /\ \A a \in DOMAIN quarantine : InTable(quarantine[a])

Holding(table, r) == \E a \in DOMAIN table : table[a] = r
Covers(table, i)  == \E a \in DOMAIN table : table[a].from < i /\ i <= table[a].to

SilverPhase ==
    /\ silverRun.pc \notin Ended => conforming.planned <= silverRun.target
    /\ silverRun.pc \in {"quarantine", "commit"} => Holding(silver, Batch)
    /\ silverRun.pc = "commit" =>
          (Refuses(Batch.from, Batch.to) => Holding(quarantine, Batch))

NothingBehind ==
    \A i \in 1..conforming.done :
        Covers(silver, i) /\ (Refuses(i - 1, i) => Covers(quarantine, i))

SoundSilver == SilverTypes /\ WithinBronze /\ SilverPhase /\ NothingBehind

BronzeGrows ==
    /\ Len(bronze) <= Len(bronze')
    /\ \A i \in DOMAIN bronze : i \in DOMAIN bronze' /\ bronze'[i] = bronze[i]

LEMMA BronzeOnlyGrows ==
    ASSUME BronzeTypes, [StreamNext]_streamVars
    PROVE  BronzeGrows
<1>1. bronze \in Seq(Appended) /\ Len(bronze) \in Nat /\ DOMAIN bronze = 1..Len(bronze)
  BY DEF BronzeTypes
<1>2. ASSUME BronzeWrites PROVE BronzeGrows
  <2> DEFINE new == [query |-> landing.query, epoch |-> landing.epoch,
                     from |-> landing.done, to |-> landing.planned]
  <2>1. bronze' = bronze \/ bronze' = Append(bronze, new)
    BY <1>2 DEF BronzeWrites
  <2> HIDE DEF new
  <2>2. CASE bronze' = bronze              BY <1>1, <2>2 DEF BronzeGrows
  <2>3. CASE bronze' = Append(bronze, new) BY <1>1, <2>3 DEF BronzeGrows
  <2> QED  BY <2>1, <2>2, <2>3
<1>3. ASSUME UNCHANGED bronze PROVE BronzeGrows
  BY <1>1, <1>3 DEF BronzeGrows
<1>4. CASE Outside
  BY <1>3, <1>4 DEF Outside, Produce, BronzeDies, SilverDies, AlertsDie,
     BronzeCheckpointLost, SilverCheckpointLost, bronzeVars
<1>5. CASE StartBronze \/ BronzePlans \/ BronzeDone \/ BronzeCommits
  BY <1>3, <1>5 DEF StartBronze, BronzePlans, BronzeDone, BronzeCommits
<1>6. CASE StartSilver \/ SilverSteps \/ StartAlerts \/ AlertsWrite \/ UNCHANGED streamVars
  BY <1>3, <1>6 DEF StartSilver, SilverSteps, SilverPlans, SilverDone, SilverWrites,
     SilverQuarantines, SilverCommits, StartAlerts, AlertsWrite, streamVars, bronzeVars
<1> QED  BY <1>2, <1>4, <1>5, <1>6 DEF StreamNext, BronzeSteps

\* What an append of bronze holds does not change: a message it holds after a
\* step was on the topic before, and is the same.
LEMMA HeldIsSettled ==
    ASSUME Topic, Topic', LogGrows, BronzeGrows, BronzeTypes, WithinTopic,
           NEW i \in DOMAIN bronze, NEW po \in Messages', Holds(bronze'[i], po)
    PROVE  /\ po \in Messages /\ Holds(bronze[i], po)
           /\ log'[po[1]][po[2]] = log[po[1]][po[2]]
<1>1. i \in DOMAIN bronze /\ bronze'[i] = bronze[i]
  BY DEF BronzeGrows, BronzeTypes
<1>2. /\ po \in Partitions \X (1..MaxMessages)
      /\ po[1] \in Partitions /\ po[2] \in Nat /\ po[2] >= 1
      /\ po[2] <= bronze[i].to[po[1]] /\ bronze[i].to[po[1]] <= Len(log[po[1]])
  BY <1>1, BoundsAssumption DEF Messages, Holds, WithinTopic
<1>3. bronze[i].to[po[1]] \in Nat /\ Len(log[po[1]]) \in Nat
  BY <1>1, <1>2, BronzeCounts DEF BronzeNumbers, Topic
<1>4. po[2] <= Len(log[po[1]])
  <2> DEFINE o == po[2]  end == bronze[i].to[po[1]]  n == Len(log[po[1]])
  <2>1. o \in Nat /\ end \in Nat /\ n \in Nat /\ o <= end /\ end <= n
    BY <1>2, <1>3
  <2> HIDE DEF o, end, n
  <2>2. o <= n
    BY <2>1
  <2> QED  BY <2>2 DEF o, n
<1>5. Holds(bronze[i], po)
  BY <1>1 DEF Holds
<1> QED  BY <1>2, <1>3, <1>4, <1>5 DEF Messages, LogGrows

\* So no later message makes an append one that has something to refuse.
LEMMA RefusalIsSettled ==
    ASSUME Topic, Topic', LogGrows, BronzeGrows, BronzeTypes, WithinTopic,
           NEW from \in Nat, NEW to \in Nat, to <= Len(bronze), Refuses(from, to)'
    PROVE  Refuses(from, to)
<1>1. PICK i \in from + 1..to, po \in Messages' :
         Holds(bronze'[i], po) /\ ~Passes(log'[po[1]][po[2]])
  BY DEF Refuses, Holds, PayloadAt
<1>2. i \in DOMAIN bronze
  BY DEF BronzeTypes
<1> QED  BY <1>1, <1>2, HeldIsSettled DEF Refuses, PayloadAt

LEMMA SilverInit == StreamInit => SoundSilver
<1> USE BoundsAssumption
<1> SUFFICES ASSUME StreamInit PROVE SoundSilver
  OBVIOUS
<1>1. /\ conforming = [query |-> 0, epoch |-> 0, done |-> 0, planned |-> 0]
      /\ silverRun = [pc |-> "idle", target |-> 0] /\ spent.silverLosses = 0
      /\ silver = <<>> /\ quarantine = <<>> /\ bronze = <<>>
  BY DEF StreamInit, Fresh
<1>2. SilverTypes
  BY <1>1 DEF SilverTypes, Checkpoints, Runs, Ended
<1>3. WithinBronze
  BY <1>1 DEF WithinBronze
<1>4. SilverPhase /\ NothingBehind
  BY <1>1 DEF SilverPhase, NothingBehind, Ended
<1> QED  BY <1>2, <1>3, <1>4 DEF SoundSilver

SilverNumbers ==
    /\ conforming.query \in Nat /\ conforming.epoch \in Nat
    /\ conforming.done \in Nat /\ conforming.planned \in Nat
    /\ silverRun.target \in Nat /\ Len(bronze) \in Nat
    /\ \A a \in DOMAIN silver : silver[a].from \in Nat /\ silver[a].to \in Nat
    /\ \A a \in DOMAIN quarantine : quarantine[a].from \in Nat /\ quarantine[a].to \in Nat

LEMMA SilverCounts == SilverTypes /\ BronzeTypes => SilverNumbers
<1> SUFFICES ASSUME SilverTypes, BronzeTypes PROVE SilverNumbers
  OBVIOUS
<1>1. /\ conforming.query \in Nat /\ conforming.epoch \in Nat
      /\ conforming.done \in Nat /\ conforming.planned \in Nat
      /\ silverRun.target \in Nat /\ Len(bronze) \in Nat
  BY BoundsAssumption DEF SilverTypes, BronzeTypes, Checkpoints, Runs
<1>2. \A r \in Ranges(Nat) : r.from \in Nat /\ r.to \in Nat
  BY DEF Ranges
<1>3. /\ \A a \in DOMAIN silver : silver[a] \in Ranges(Nat)
      /\ \A a \in DOMAIN quarantine : quarantine[a] \in Ranges(Nat)
  BY DEF SilverTypes
<1> QED  BY <1>1, <1>2, <1>3 DEF SilverNumbers

\* What leaves the silver stage alone leaves it sound.
LEMMA SilverFrame ==
    ASSUME Topic, Topic', LogGrows, BronzeGrows, BronzeTypes, BronzeTypes', WithinTopic,
           SoundSilver, UNCHANGED silverVars, spent'.silverLosses = spent.silverLosses
    PROVE  SoundSilver'
<1>1. UNCHANGED <<silver, quarantine, conforming, silverRun>>
  BY DEF silverVars
<1>2. SilverNumbers /\ SilverTypes /\ WithinBronze /\ SilverPhase /\ NothingBehind
  BY SilverCounts DEF SoundSilver
<1>3. Len(bronze') \in Nat /\ Len(bronze) <= Len(bronze')
  BY DEF BronzeTypes, BronzeGrows
<1>4. SilverTypes'
  BY <1>1, <1>2 DEF SilverTypes
<1>5. WithinBronze'
  <2>1. conforming.planned <= Len(bronze') /\ silverRun.target <= Len(bronze')
    BY <1>2, <1>3 DEF WithinBronze, SilverNumbers
  <2>2. \A r : InTable(r) /\ r.from \in Nat /\ r.to \in Nat => InTable(r)'
    <3> SUFFICES ASSUME NEW r, r.from <= Len(bronze), r.to <= Len(bronze),
                        r.from \in Nat, r.to \in Nat
                 PROVE  r.from <= Len(bronze') /\ r.to <= Len(bronze')
      BY DEF InTable
    <3> DEFINE m == Len(bronze)  n == Len(bronze')
    <3>1. m \in Nat /\ n \in Nat /\ m <= n /\ r.from <= m /\ r.to <= m
      BY <1>2, <1>3 DEF SilverNumbers
    <3> HIDE DEF m, n
    <3>2. r.from <= n /\ r.to <= n
      BY <3>1
    <3> QED  BY <3>2 DEF n
  <2>3. /\ \A a \in DOMAIN silver : InTable(silver[a])'
        /\ \A a \in DOMAIN quarantine : InTable(quarantine[a])'
    BY <1>1, <1>2, <2>2 DEF WithinBronze, SilverNumbers
  <2> QED  BY <1>1, <1>2, <2>1, <2>3 DEF WithinBronze
<1>6. SilverPhase'
  <2>1. Batch' = Batch /\ Batch.from = conforming.done /\ Batch.to = conforming.planned
    BY <1>1 DEF Batch
  <2>2. Refuses(conforming.done, conforming.planned)' => Refuses(conforming.done, conforming.planned)
    BY <1>1, <1>2, RefusalIsSettled DEF WithinBronze, SilverNumbers
  <2>3. Refuses(Batch.from, Batch.to)' => Refuses(Batch.from, Batch.to)
    BY <1>1, <2>1, <2>2
  <2> QED  BY <1>1, <1>2, <2>1, <2>3 DEF SilverPhase, Holding
<1>7. NothingBehind'
  <2> SUFFICES ASSUME NEW i \in 1..conforming.done
               PROVE  Covers(silver, i) /\ (Refuses(i - 1, i)' => Covers(quarantine, i))
    BY <1>1 DEF NothingBehind, Covers
  <2>1. i - 1 \in Nat /\ i \in Nat /\ i <= Len(bronze)
    BY <1>2 DEF SilverNumbers, WithinBronze
  <2>2. Refuses(i - 1, i)' => Refuses(i - 1, i)
    BY <2>1, RefusalIsSettled
  <2> QED  BY <1>2, <2>2 DEF NothingBehind
<1> QED  BY <1>4, <1>5, <1>6, <1>7 DEF SoundSilver

\* The silver stage itself.
LEMMA SilverStarts ==
    ASSUME SoundSilver, BronzeTypes, StartSilver
    PROVE  SoundSilver'
<1>1. /\ silverRun' = [pc |-> IF bronzeRun.pc = "idle" THEN "failed" ELSE "select",
                       target |-> Len(bronze)]
      /\ UNCHANGED <<log, bronze, silver, quarantine, conforming, spent>>
  BY DEF StartSilver, bronzeVars
<1>2. SilverNumbers /\ SilverTypes /\ WithinBronze /\ NothingBehind
  BY SilverCounts DEF SoundSilver
<1>3. /\ silverRun'.pc \in {"failed", "select"} /\ silverRun'.target = Len(bronze)
      /\ silverRun' \in Runs(Nat, {"select", "write", "quarantine", "commit"})
  BY <1>1, <1>2 DEF Runs, Ended, SilverNumbers
<1>4. SilverTypes'
  BY <1>1, <1>2, <1>3 DEF SilverTypes
<1>5. WithinBronze'
  BY <1>1, <1>2, <1>3 DEF WithinBronze, InTable, SilverNumbers
<1>6. SilverPhase'
  BY <1>1, <1>2, <1>3 DEF SilverPhase, WithinBronze
<1>7. NothingBehind'
  BY <1>1, <1>2 DEF NothingBehind, Covers, Refuses, Messages, PayloadAt, Holds
<1> QED  BY <1>4, <1>5, <1>6, <1>7 DEF SoundSilver

LEMMA SilverPlanned ==
    ASSUME SoundSilver, BronzeTypes, SilverPlans
    PROVE  SoundSilver'
<1>1. /\ silverRun.pc = "select"
      /\ silverRun'.pc = "write" /\ silverRun'.target = silverRun.target
      /\ silverRun' \in Runs(Nat, {"select", "write", "quarantine", "commit"})
      /\ UNCHANGED <<log, bronze, silver, quarantine, spent>>
  BY DEF SilverPlans, SoundSilver, SilverTypes, Runs, bronzeVars
<1>2. SilverNumbers /\ SilverTypes /\ WithinBronze /\ SilverPhase /\ NothingBehind
  BY SilverCounts DEF SoundSilver
<1>3. /\ conforming' \in Checkpoints(Nat, MaxLosses)
      /\ conforming'.query = conforming.query /\ conforming'.done = conforming.done
      /\ conforming'.planned = conforming.planned \/ conforming'.planned = silverRun.target
  BY <1>2 DEF SilverPlans, SilverTypes, SilverNumbers, Plan, Checkpoints
<1>4. /\ conforming.planned <= silverRun.target
      /\ conforming'.planned \in Nat /\ conforming'.planned <= silverRun.target
      /\ conforming'.done <= conforming'.planned
  BY <1>1, <1>2, <1>3 DEF SilverPhase, Ended, WithinBronze, SilverNumbers
<1>5. SilverTypes'
  BY <1>1, <1>2, <1>3 DEF SilverTypes
<1>6. WithinBronze'
  BY <1>1, <1>2, <1>3, <1>4 DEF WithinBronze, InTable, SilverNumbers
<1>7. SilverPhase'
  BY <1>1, <1>4 DEF SilverPhase
<1>8. NothingBehind'
  BY <1>1, <1>2, <1>3 DEF NothingBehind, Covers, Refuses, Messages, PayloadAt, Holds
<1> QED  BY <1>5, <1>6, <1>7, <1>8 DEF SoundSilver

LEMMA SilverEnds ==
    ASSUME Topic, SoundSilver, BronzeTypes, SilverDone \/ SilverDies
    PROVE  SoundSilver'
<1>1. /\ silverRun'.pc \in Ended /\ silverRun'.target = silverRun.target
      /\ silverRun' \in Runs(Nat, {"select", "write", "quarantine", "commit"})
      /\ UNCHANGED <<log, bronze, silver, quarantine, conforming>>
      /\ spent'.silverLosses = spent.silverLosses
  BY SpendOne DEF SilverDone, SilverDies, Topic, SoundSilver, SilverTypes, Runs, Ended, bronzeVars
<1>2. SilverTypes /\ WithinBronze /\ NothingBehind
  BY DEF SoundSilver
<1>3. SilverTypes' /\ WithinBronze'
  BY <1>1, <1>2 DEF SilverTypes, WithinBronze, InTable
<1>4. SilverPhase'
  BY <1>1 DEF SilverPhase, Ended
<1>5. NothingBehind'
  BY <1>1, <1>2 DEF NothingBehind, Covers, Refuses, Messages, PayloadAt, Holds
<1> QED  BY <1>3, <1>4, <1>5 DEF SoundSilver

\* A table after one more append.
LEMMA Appending ==
    ASSUME NEW table \in Seq(Ranges(Nat)), NEW r \in Ranges(Nat)
    PROVE  /\ Append(table, r) \in Seq(Ranges(Nat))
           /\ Holding(Append(table, r), r)
           /\ \A q : Holding(table, q) => Holding(Append(table, r), q)
           /\ \A i : Covers(table, i) => Covers(Append(table, r), i)
           /\ \A a \in DOMAIN Append(table, r) :
                 Append(table, r)[a] = r \/ \E b \in DOMAIN table : Append(table, r)[a] = table[b]
<1> DEFINE longer == Append(table, r)
<1>1. /\ longer \in Seq(Ranges(Nat)) /\ DOMAIN longer = 1..Len(table) + 1
      /\ DOMAIN table = 1..Len(table) /\ Len(table) \in Nat
      /\ longer[Len(table) + 1] = r
      /\ \A a \in DOMAIN table : longer[a] = table[a] /\ a \in DOMAIN longer
      /\ Len(table) + 1 \in DOMAIN longer
  OBVIOUS
<1>2. \A a \in DOMAIN longer : a \in DOMAIN table \/ a = Len(table) + 1
  BY <1>1
<1> HIDE DEF longer
<1>3. Holding(longer, r) /\ \A q : Holding(table, q) => Holding(longer, q)
  BY <1>1 DEF Holding
<1>4. \A i : Covers(table, i) => Covers(longer, i)
  BY <1>1 DEF Covers
<1>5. \A a \in DOMAIN longer : longer[a] = r \/ \E b \in DOMAIN table : longer[a] = table[b]
  BY <1>1, <1>2
<1> QED  BY <1>1, <1>3, <1>4, <1>5 DEF longer

LEMMA BatchInBronze ==
    ASSUME SoundSilver, BronzeTypes
    PROVE  /\ Batch \in Ranges(Nat) /\ InTable(Batch)
           /\ Batch.from = conforming.done /\ Batch.to = conforming.planned
<1>1. SilverNumbers /\ WithinBronze
  BY SilverCounts DEF SoundSilver
<1>2. Batch.from = conforming.done /\ Batch.to = conforming.planned
  BY DEF Batch
<1>3. Batch \in Ranges(Nat)
  BY <1>1 DEF Batch, Ranges, SilverNumbers
<1>4. InTable(Batch)
  BY <1>1, <1>2 DEF InTable, WithinBronze, SilverNumbers
<1> QED  BY <1>2, <1>3, <1>4

LEMMA SilverWritten ==
    ASSUME SoundSilver, BronzeTypes, SilverWrites
    PROVE  SoundSilver'
<1>1. /\ silverRun.pc = "write" /\ silver' = Append(silver, Batch)
      /\ silverRun'.pc = IF Refuses(Batch.from, Batch.to) THEN "quarantine" ELSE "commit"
      /\ silverRun'.target = silverRun.target
      /\ silverRun' \in Runs(Nat, {"select", "write", "quarantine", "commit"})
      /\ UNCHANGED <<log, bronze, quarantine, conforming, spent>>
  BY DEF SilverWrites, SoundSilver, SilverTypes, Runs, bronzeVars
<1>2. SilverTypes /\ WithinBronze /\ SilverPhase /\ NothingBehind
  BY DEF SoundSilver
<1>3. Batch \in Ranges(Nat) /\ InTable(Batch) /\ silver \in Seq(Ranges(Nat))
  BY <1>2, BatchInBronze DEF SilverTypes
<1>4. /\ silver' \in Seq(Ranges(Nat)) /\ Holding(silver', Batch)
      /\ \A i : Covers(silver, i) => Covers(silver', i)
      /\ \A a \in DOMAIN silver' : silver'[a] = Batch \/ \E c \in DOMAIN silver : silver'[a] = silver[c]
  BY <1>1, <1>3, Appending
<1>5. Batch' = Batch /\ (Refuses(Batch.from, Batch.to)' <=> Refuses(Batch.from, Batch.to))
  BY <1>1 DEF Batch, Refuses, Messages, PayloadAt, Holds
<1>6. SilverTypes'
  BY <1>1, <1>2, <1>4 DEF SilverTypes
<1>7. WithinBronze'
  BY <1>1, <1>2, <1>3, <1>4 DEF WithinBronze, InTable
<1>8. SilverPhase'
  <2>1. conforming.planned <= silverRun.target
    BY <1>1, <1>2 DEF SilverPhase, Ended
  <2>2. silverRun'.pc = "commit" => ~Refuses(Batch.from, Batch.to)
    BY <1>1
  <2> QED  BY <1>1, <1>4, <1>5, <2>1, <2>2 DEF SilverPhase, Holding
<1>9. NothingBehind'
  <2>1. \A i : Refuses(i - 1, i)' <=> Refuses(i - 1, i)
    BY <1>1 DEF Refuses, Messages, PayloadAt, Holds
  <2> QED  BY <1>1, <1>2, <1>4, <2>1 DEF NothingBehind, Covers
<1> QED  BY <1>6, <1>7, <1>8, <1>9 DEF SoundSilver

LEMMA SilverQuarantined ==
    ASSUME SoundSilver, BronzeTypes, SilverQuarantines
    PROVE  SoundSilver'
<1>1. /\ silverRun.pc = "quarantine" /\ quarantine' = Append(quarantine, Batch)
      /\ silverRun'.pc = "commit" /\ silverRun'.target = silverRun.target
      /\ silverRun' \in Runs(Nat, {"select", "write", "quarantine", "commit"})
      /\ UNCHANGED <<log, bronze, silver, conforming, spent>>
  BY DEF SilverQuarantines, SoundSilver, SilverTypes, Runs, bronzeVars
<1>2. SilverTypes /\ WithinBronze /\ SilverPhase /\ NothingBehind
  BY DEF SoundSilver
<1>3. Batch \in Ranges(Nat) /\ InTable(Batch) /\ quarantine \in Seq(Ranges(Nat))
  BY <1>2, BatchInBronze DEF SilverTypes
<1>4. /\ quarantine' \in Seq(Ranges(Nat)) /\ Holding(quarantine', Batch)
      /\ \A i : Covers(quarantine, i) => Covers(quarantine', i)
      /\ \A a \in DOMAIN quarantine' :
            quarantine'[a] = Batch \/ \E c \in DOMAIN quarantine : quarantine'[a] = quarantine[c]
  BY <1>1, <1>3, Appending
<1>5. Batch' = Batch
  BY <1>1 DEF Batch
<1>6. SilverTypes'
  BY <1>1, <1>2, <1>4 DEF SilverTypes
<1>7. WithinBronze'
  BY <1>1, <1>2, <1>3, <1>4 DEF WithinBronze, InTable
<1>8. SilverPhase'
  <2>1. conforming.planned <= silverRun.target /\ Holding(silver, Batch)
    BY <1>1, <1>2 DEF SilverPhase, Ended
  <2> QED  BY <1>1, <1>4, <1>5, <2>1 DEF SilverPhase, Holding
<1>9. NothingBehind'
  <2>1. \A i : Refuses(i - 1, i)' <=> Refuses(i - 1, i)
    BY <1>1 DEF Refuses, Messages, PayloadAt, Holds
  <2> QED  BY <1>1, <1>2, <1>4, <2>1 DEF NothingBehind, Covers
<1> QED  BY <1>6, <1>7, <1>8, <1>9 DEF SoundSilver

\* Marking puts behind the checkpoint what both tables hold.
LEMMA SilverCommitted ==
    ASSUME SoundSilver, BronzeTypes, SilverCommits
    PROVE  SoundSilver'
<1>1. /\ silverRun.pc = "commit"
      /\ silverRun'.pc = "select" /\ silverRun'.target = silverRun.target
      /\ silverRun' \in Runs(Nat, {"select", "write", "quarantine", "commit"})
      /\ UNCHANGED <<log, bronze, silver, quarantine, spent>>
  BY DEF SilverCommits, SoundSilver, SilverTypes, Runs, bronzeVars
<1>2. SilverNumbers /\ SilverTypes /\ WithinBronze /\ SilverPhase /\ NothingBehind
  BY SilverCounts DEF SoundSilver
<1>3. /\ conforming' \in Checkpoints(Nat, MaxLosses)
      /\ conforming'.query = conforming.query
      /\ conforming'.done = conforming.planned /\ conforming'.planned = conforming.planned
  <2> DEFINE next == conforming.epoch + 1
  <2>1. conforming' = [conforming EXCEPT !.done = conforming.planned, !.epoch = next]
    BY DEF SilverCommits, Mark
  <2>2. /\ next \in Nat /\ conforming.planned \in Nat
        /\ conforming \in [query : 0..MaxLosses, epoch : Nat, done : Nat, planned : Nat]
    BY <1>2 DEF SilverTypes, SilverNumbers, Checkpoints
  <2> HIDE DEF next
  <2>3. /\ conforming' \in [query : 0..MaxLosses, epoch : Nat, done : Nat, planned : Nat]
        /\ conforming'.query = conforming.query
        /\ conforming'.done = conforming.planned /\ conforming'.planned = conforming.planned
    BY <2>1, <2>2
  <2> QED  BY <2>3 DEF Checkpoints
<1>4. SilverTypes' /\ WithinBronze'
  BY <1>1, <1>2, <1>3 DEF SilverTypes, WithinBronze, InTable, SilverNumbers
<1>5. SilverPhase'
  BY <1>1, <1>2, <1>3 DEF SilverPhase, Ended
<1>6. NothingBehind'
  <2>1. \A i : Refuses(i - 1, i)' <=> Refuses(i - 1, i)
    BY <1>1 DEF Refuses, Messages, PayloadAt, Holds
  <2> SUFFICES ASSUME NEW i \in 1..conforming.planned
               PROVE  Covers(silver, i) /\ (Refuses(i - 1, i) => Covers(quarantine, i))
    BY <1>1, <1>3, <2>1 DEF NothingBehind, Covers
  <2>2. CASE i <= conforming.done
    BY <1>2, <2>2 DEF NothingBehind, SilverNumbers
  <2>3. CASE ~(i <= conforming.done)
    <3>1. /\ Batch.from = conforming.done /\ Batch.to = conforming.planned
          /\ Batch.from < i /\ i <= Batch.to
      BY <1>2, <2>3, BatchInBronze DEF SilverNumbers
    <3>2. Covers(silver, i)
      BY <1>1, <1>2, <3>1 DEF SilverPhase, Holding, Covers
    <3>3. ASSUME Refuses(i - 1, i) PROVE Covers(quarantine, i)
      <4> DEFINE from == Batch.from  to == Batch.to
      <4>1. from \in Nat /\ to \in Nat /\ i \in Nat /\ from < i /\ i <= to
        BY <1>2, <3>1 DEF SilverNumbers
      <4> HIDE DEF from, to
      <4>2. i \in from + 1..to /\ \A j \in i - 1 + 1..i : j = i
        BY <4>1
      <4>3. i \in Batch.from + 1..Batch.to /\ \A j \in i - 1 + 1..i : j = i
        BY <4>2 DEF from, to
      <4>4. Refuses(Batch.from, Batch.to)
        BY <3>3, <4>3 DEF Refuses
      <4> QED  BY <1>1, <1>2, <3>1, <4>4 DEF SilverPhase, Holding, Covers
    <3> QED  BY <3>2, <3>3
  <2> QED  BY <2>2, <2>3
<1> QED  BY <1>4, <1>5, <1>6 DEF SoundSilver

LEMMA SilverRestarted ==
    ASSUME Topic, Topic', SoundSilver, BronzeTypes, SilverCheckpointLost
    PROVE  SoundSilver'
<1>1. /\ silverRun.pc \in Ended /\ UNCHANGED <<log, bronze, silver, quarantine, silverRun>>
      /\ conforming' = [query |-> conforming.query + 1, epoch |-> 0, done |-> 0, planned |-> 0]
      /\ spent'.silverLosses = spent.silverLosses + 1
  BY SpendOne DEF SilverCheckpointLost, Fresh, Topic, bronzeVars
<1>2. SilverNumbers /\ SilverTypes /\ WithinBronze
  BY SilverCounts DEF SoundSilver
<1>3. conforming.query + 1 \in 0..MaxLosses
  <2>1. spent'.bronzeLosses \in Nat /\ spent'.silverLosses \in Nat /\ MaxLosses \in Nat
        /\ spent'.bronzeLosses + spent'.silverLosses <= MaxLosses
    BY BoundsAssumption DEF Topic, Budget, Losses
  <2>2. spent'.silverLosses = conforming.query + 1 /\ conforming.query \in Nat
    BY <1>1, <1>2 DEF SilverTypes, SilverNumbers
  <2>3. spent'.silverLosses <= MaxLosses
    BY <2>1
  <2> QED  BY <2>1, <2>2, <2>3
<1>4. SilverTypes' /\ WithinBronze'
  BY <1>1, <1>2, <1>3 DEF SilverTypes, WithinBronze, InTable, Checkpoints, SilverNumbers
<1>5. SilverPhase' /\ NothingBehind'
  BY <1>1 DEF SilverPhase, NothingBehind, Ended
<1> QED  BY <1>4, <1>5 DEF SoundSilver

LEMMA SilverStep ==
    ASSUME Topic, SoundBronze, SoundSilver, [StreamNext]_streamVars
    PROVE  SoundSilver'
<1>1. Topic' /\ LogGrows /\ BronzeGrows /\ BronzeTypes /\ BronzeTypes' /\ WithinTopic
  BY TopicStep, BronzeStep, BronzeOnlyGrows DEF SoundBronze
<1>2. CASE StartSilver            BY <1>1, <1>2, SilverStarts
<1>3. CASE SilverSteps
  BY <1>1, <1>3, SilverPlanned, SilverEnds, SilverWritten, SilverQuarantined, SilverCommitted
     DEF SilverSteps
<1>4. CASE SilverDies             BY <1>1, <1>4, SilverEnds
<1>5. CASE SilverCheckpointLost   BY <1>1, <1>5, SilverRestarted
<1>6. ASSUME UNCHANGED silverVars, spent'.silverLosses = spent.silverLosses
      PROVE  SoundSilver'
  BY <1>1, <1>6, SilverFrame
<1>7. CASE (\E p \in Partitions, t \in Transactions : Produce(p, t))
           \/ BronzeDies \/ AlertsDie \/ BronzeCheckpointLost
  BY <1>6, <1>7, SpendOne DEF Produce, BronzeDies, AlertsDie, BronzeCheckpointLost, Topic
<1>8. CASE StartBronze \/ BronzeSteps \/ StartAlerts \/ AlertsWrite \/ UNCHANGED streamVars
  BY <1>6, <1>8 DEF StartBronze, BronzeSteps, BronzePlans, BronzeDone, BronzeWrites,
     BronzeCommits, StartAlerts, AlertsWrite, streamVars
<1> QED  BY <1>2, <1>3, <1>4, <1>5, <1>7, <1>8 DEF StreamNext, Outside

LEMMA CoveredIsAppended ==
    ASSUME NEW table \in Seq(Ranges(Nat)), NEW i, Covers(table, i)
    PROVE  Appends(table, i) >= 1
<1> DEFINE S == {a \in DOMAIN table : table[a].from < i /\ i <= table[a].to}
<1>1. S # {}
  BY DEF Covers
<1>2. IsFiniteSet(DOMAIN table)
  BY FS_Interval
<1>3. IsFiniteSet(S)
  BY <1>2, FS_Subset
<1>4. Cardinality(S) \in Nat /\ Cardinality(S) # 0
  BY <1>1, <1>3, FS_CardinalityType, FS_EmptySet
<1> QED  BY <1>4 DEF Appends

\* The inductive invariant of both queries: what is behind silver's checkpoint has
\* been appended, to silver and to quarantine, and a run between its two appends
\* has made the first.
THEOREM SilverIsSound == StreamSpec => [](Topic /\ SoundBronze /\ SoundSilver)
<1>1. StreamInit => Topic /\ SoundBronze /\ SoundSilver
  BY TopicInit, BronzeInit, SilverInit
<1>2. Topic /\ SoundBronze /\ SoundSilver /\ [StreamNext]_streamVars
         => (Topic /\ SoundBronze /\ SoundSilver)'
  BY TopicStep, BronzeStep, SilverStep
<1> QED  BY <1>1, <1>2, PTL DEF StreamSpec

\* Silver is at-least-once, and its quarantine too: no death and no lost
\* checkpoint loses a row, or the refused half of a batch.
THEOREM NothingIsDropped == StreamSpec => []NothingDropped
<1>1. SoundSilver => NothingDropped
  BY CoveredIsAppended DEF SoundSilver, SilverTypes, NothingBehind, NothingDropped
<1> QED  BY <1>1, SilverIsSound, PTL

\* No rule that could not be evaluated lets a transaction through to detection.
THEOREM ScreeningIsMeaningful == StreamSpec => []ScreenedRowsAreMeaningful
<1>1. Topic => ScreenedRowsAreMeaningful
  <2> SUFFICES ASSUME Topic, NEW po \in Messages, Passes(PayloadAt(po))
               PROVE  Meaningful(ConformTxn(PayloadAt(po)))
    BY DEF ScreenedRowsAreMeaningful
  <2>1. po[1] \in Partitions /\ po[2] \in 1..Len(log[po[1]])
    BY BoundsAssumption DEF Messages
  <2>2. log[po[1]] \in Seq(Transactions)
    BY <2>1 DEF Topic
  <2>3. PayloadAt(po) \in Transactions
    BY <2>1, <2>2 DEF PayloadAt
  <2> QED  BY <2>3, ContractMakesMeaningful
<1> QED  BY <1>1, SilverIsSound, PTL

(***************************************************************************)
(* Alerts, and the types of everything.                                    *)
(***************************************************************************)
WithinSilver ==
    /\ alerts \in 0..Len(silver)
    /\ alertRun \in Runs(0..Len(silver), {"write"})

LEMMA AlertsStep ==
    ASSUME SilverTypes, SilverTypes', BronzeTypes, WithinSilver, [StreamNext]_streamVars
    PROVE  WithinSilver'
<1>1. Len(silver) \in Nat /\ Len(silver') \in Nat
  BY DEF SilverTypes
<1>2. Len(silver) <= Len(silver')
  <2>1. CASE SilverWrites
    <3>1. silver' = Append(silver, Batch) /\ silver \in Seq(Ranges(Nat))
      BY <2>1 DEF SilverWrites, SilverTypes
    <3> HIDE DEF Batch
    <3> QED  BY <3>1
  <2>2. CASE UNCHANGED silver
    BY <2>2, <1>1
  <2>3. CASE Outside \/ StartBronze \/ BronzeSteps \/ StartAlerts \/ AlertsWrite
    BY <2>2, <2>3 DEF Outside, Produce, BronzeDies, SilverDies, AlertsDie,
       BronzeCheckpointLost, SilverCheckpointLost, StartBronze, BronzeSteps, BronzePlans,
       BronzeDone, BronzeWrites, BronzeCommits, StartAlerts, AlertsWrite, silverVars
  <2>4. CASE StartSilver \/ SilverPlans \/ SilverDone \/ SilverQuarantines \/ SilverCommits
             \/ UNCHANGED streamVars
    BY <2>2, <2>4 DEF StartSilver, SilverPlans, SilverDone, SilverQuarantines, SilverCommits,
       streamVars, silverVars
  <2> QED  BY <2>1, <2>3, <2>4 DEF StreamNext, SilverSteps
<1>3. ASSUME UNCHANGED alertVars PROVE WithinSilver'
  BY <1>1, <1>2, <1>3 DEF WithinSilver, alertVars, Runs
<1>4. CASE StartAlerts
  <2>1. /\ UNCHANGED silver /\ alerts' = alerts
        /\ alertRun' = [pc |-> IF silver = <<>> THEN "failed" ELSE "write",
                        target |-> Len(silver)]
    BY <1>4 DEF StartAlerts, silverVars
  <2> QED  BY <2>1, <1>1 DEF WithinSilver, Runs, Ended
<1>5. CASE AlertsWrite
  <2>1. /\ silver' = silver /\ alerts' \in {alertRun.target, alerts}
        /\ alertRun' = [alertRun EXCEPT !.pc = "succeeded"]
    BY <1>5 DEF AlertsWrite, silverVars
  <2>2. alertRun' \in Runs(0..Len(silver), {"write"})
    BY <2>1 DEF WithinSilver, Runs, Ended
  <2>3. alertRun.target \in 0..Len(silver) /\ alerts \in 0..Len(silver)
    BY DEF WithinSilver, Runs
  <2> QED  BY <2>1, <2>2, <2>3 DEF WithinSilver
<1>6. CASE AlertsDie
  <2>1. /\ silver' = silver /\ alerts' = alerts
        /\ alertRun' = [alertRun EXCEPT !.pc = "failed"]
    BY <1>6 DEF AlertsDie, silverVars
  <2>2. alertRun' \in Runs(0..Len(silver), {"write"})
    BY <2>1 DEF WithinSilver, Runs, Ended
  <2> QED  BY <2>1, <2>2 DEF WithinSilver
<1>7. CASE \/ \E p \in Partitions, t \in Transactions : Produce(p, t)
           \/ BronzeDies \/ SilverDies \/ BronzeCheckpointLost \/ SilverCheckpointLost
  BY <1>3, <1>7 DEF Produce, BronzeDies, SilverDies, BronzeCheckpointLost, SilverCheckpointLost
<1>8. CASE StartBronze \/ BronzeSteps \/ StartSilver \/ SilverSteps \/ UNCHANGED streamVars
  BY <1>3, <1>8 DEF StartBronze, BronzeSteps, BronzePlans, BronzeDone, BronzeWrites,
     BronzeCommits, StartSilver, SilverSteps, SilverPlans, SilverDone, SilverWrites,
     SilverQuarantines, SilverCommits, streamVars
<1> QED  BY <1>4, <1>5, <1>6, <1>7, <1>8 DEF StreamNext, Outside

LEMMA SoundIsTyped ==
    ASSUME Topic, SoundBronze, SoundSilver, WithinSilver
    PROVE  StreamTypeOK
<1>1. /\ BronzeTypes /\ WithinTopic /\ SilverTypes /\ WithinBronze /\ SilverNumbers
      /\ Topic /\ WithinSilver
  BY SilverCounts DEF SoundBronze, SoundSilver
<1>2. conforming \in Checkpoints(0..Len(bronze), MaxLosses)
  BY <1>1 DEF SilverTypes, WithinBronze, SilverNumbers, Checkpoints
<1>3. silverRun \in Runs(0..Len(bronze), {"select", "write", "quarantine", "commit"})
  BY <1>1 DEF SilverTypes, WithinBronze, SilverNumbers, Runs
<1>4. \A r \in Ranges(Nat) : InTable(r) => r \in Ranges(0..Len(bronze))
  BY <1>1 DEF Ranges, InTable, SilverNumbers
<1>5. /\ \A i \in DOMAIN silver : silver[i] \in Ranges(0..Len(bronze))
      /\ \A i \in DOMAIN quarantine : quarantine[i] \in Ranges(0..Len(bronze))
  BY <1>1, <1>4 DEF SilverTypes, WithinBronze
<1>6. \A i \in DOMAIN bronze :
         bronze[i] \in [query : 0..MaxLosses, epoch : Nat, from : Positions, to : Positions]
  BY <1>1, BronzeCounts DEF BronzeNumbers, Appended
<1> QED  BY <1>1, <1>2, <1>3, <1>5, <1>6
         DEF StreamTypeOK, Topic, BronzeTypes, WithinTopic, WithinSilver

\* Every table holds ranges of what its source has, and every checkpoint and
\* target is a position in it.
THEOREM StreamTypeCorrect == StreamSpec => []StreamTypeOK
<1> DEFINE Inv == Topic /\ SoundBronze /\ SoundSilver /\ WithinSilver
<1>1. StreamInit => Inv
  <2>1. StreamInit => WithinSilver
    BY DEF StreamInit, WithinSilver, Runs, Ended
  <2> QED  BY <2>1, TopicInit, BronzeInit, SilverInit
<1>2. Inv /\ [StreamNext]_streamVars => Inv'
  BY TopicStep, BronzeStep, SilverStep, AlertsStep DEF SoundBronze, SoundSilver
<1>3. Inv => StreamTypeOK
  BY SoundIsTyped
<1> QED  BY <1>1, <1>2, <1>3, PTL DEF StreamSpec

(***************************************************************************)
(* Repeats: every append that holds a row is paid for, by the batch's one  *)
(* turn in the life of the checkpoint, or by a death or a loss.            *)
(***************************************************************************)
Credit == spent.silverCrashes + spent.silverLosses

\* Has this row had its turn in the table, in the life of this checkpoint?
SilverTurn(i) ==
    \/ i <= conforming.done
    \/ silverRun.pc \in {"quarantine", "commit"} /\ i <= conforming.planned
QuarantineTurn(i) ==
    \/ i <= conforming.done
    \/ silverRun.pc = "commit" /\ i <= conforming.planned

PaidFor ==
    \A i \in Nat : /\ Appends(silver, i) <= Credit + IF SilverTurn(i) THEN 1 ELSE 0
                   /\ Appends(quarantine, i) <= Credit + IF QuarantineTurn(i) THEN 1 ELSE 0

LEMMA AppendsOneMore ==
    ASSUME NEW table \in Seq(Ranges(Nat)), NEW r \in Ranges(Nat), NEW i \in Nat
    PROVE  /\ Appends(table, i) \in Nat
           /\ Appends(Append(table, r), i) <= Appends(table, i) + 1
           /\ ~(r.from < i /\ i <= r.to) => Appends(Append(table, r), i) = Appends(table, i)
<1> DEFINE longer == Append(table, r)
           n == Len(table) + 1
           Old == {a \in DOMAIN table : table[a].from < i /\ i <= table[a].to}
           New == {a \in DOMAIN longer : longer[a].from < i /\ i <= longer[a].to}
<1>1. /\ DOMAIN longer = DOMAIN table \cup {n} /\ n \notin DOMAIN table
      /\ longer[n] = r /\ \A a \in DOMAIN table : longer[a] = table[a]
  OBVIOUS
<1>2. IsFiniteSet(Old) /\ Cardinality(Old) \in Nat
  <2>1. IsFiniteSet(DOMAIN table)
    BY FS_Interval
  <2>2. IsFiniteSet(Old)
    BY <2>1, FS_Subset
  <2> QED  BY <2>2, FS_CardinalityType
<1> HIDE DEF longer, n
<1>3. New = IF r.from < i /\ i <= r.to THEN Old \cup {n} ELSE Old
  BY <1>1
<1> HIDE DEF Old, New
<1>4. Cardinality(Old \cup {n}) <= Cardinality(Old) + 1
  <2>1. Cardinality(Old \cup {n}) = IF n \in Old THEN Cardinality(Old) ELSE Cardinality(Old) + 1
    BY <1>2, FS_AddElement
  <2> QED  BY <2>1, <1>2
<1>5. Appends(table, i) = Cardinality(Old) /\ Appends(longer, i) = Cardinality(New)
  BY DEF Appends, Old, New
<1> QED  BY <1>2, <1>3, <1>4, <1>5 DEF longer

LEMMA SpendOnSilver ==
    ASSUME spent \in Budget
    PROVE  /\ Spend("silverCrashes") \/ Spend("silverLosses") => Credit' = Credit + 1
           /\ Spend("messages") \/ Spend("bronzeCrashes") \/ Spend("alertCrashes")
                 \/ Spend("bronzeLosses") => Credit' = Credit
           /\ Credit \in Nat
<1> USE DEF Budget, Spend, Credit
<1>1. CASE Spend("messages")       BY <1>1
<1>2. CASE Spend("bronzeCrashes")  BY <1>2
<1>3. CASE Spend("silverCrashes")  BY <1>3
<1>4. CASE Spend("alertCrashes")   BY <1>4
<1>5. CASE Spend("bronzeLosses")   BY <1>5
<1>6. CASE Spend("silverLosses")   BY <1>6
<1> QED  BY <1>1, <1>2, <1>3, <1>4, <1>5, <1>6

LEMMA RepeatsStep ==
    ASSUME Topic, SoundBronze, SoundSilver, PaidFor, [StreamNext]_streamVars
    PROVE  PaidFor'
<1>0. /\ SilverNumbers /\ SilverTypes /\ SilverPhase /\ WithinBronze /\ BronzeTypes
      /\ spent \in Budget /\ Credit \in Nat
  BY SilverCounts, SpendOnSilver DEF SoundSilver, SoundBronze, Topic
<1>1. \A i \in Nat : Appends(silver, i) \in Nat /\ Appends(quarantine, i) \in Nat
  <2>1. silver \in Seq(Ranges(Nat)) /\ quarantine \in Seq(Ranges(Nat)) /\ Batch \in Ranges(Nat)
    BY <1>0, BatchInBronze DEF SilverTypes
  <2> QED  BY <2>1, AppendsOneMore
<1>2. ASSUME UNCHANGED <<silver, quarantine>>, Credit' \in Nat,
             \A i \in Nat : /\ Credit + (IF SilverTurn(i) THEN 1 ELSE 0)
                                  <= Credit' + (IF SilverTurn(i)' THEN 1 ELSE 0)
                            /\ Credit + (IF QuarantineTurn(i) THEN 1 ELSE 0)
                                  <= Credit' + (IF QuarantineTurn(i)' THEN 1 ELSE 0)
      PROVE  PaidFor'
  <2> SUFFICES ASSUME NEW i \in Nat
               PROVE  /\ Appends(silver, i)' <= Credit' + IF SilverTurn(i)' THEN 1 ELSE 0
                      /\ Appends(quarantine, i)' <= Credit' + IF QuarantineTurn(i)' THEN 1 ELSE 0
    BY DEF PaidFor
  <2> DEFINE s1 == IF SilverTurn(i) THEN 1 ELSE 0
             s2 == IF SilverTurn(i)' THEN 1 ELSE 0
             q1 == IF QuarantineTurn(i) THEN 1 ELSE 0
             q2 == IF QuarantineTurn(i)' THEN 1 ELSE 0
             credit == Credit'
  <2>1. /\ Appends(silver, i)' = Appends(silver, i)
        /\ Appends(quarantine, i)' = Appends(quarantine, i)
    BY <1>2 DEF Appends
  <2>2. Appends(silver, i) <= Credit + s1 /\ Appends(quarantine, i) <= Credit + q1
    BY DEF PaidFor
  <2>3. Credit + s1 <= credit + s2 /\ Credit + q1 <= credit + q2
    BY <1>2
  <2>4. /\ Appends(silver, i) \in Nat /\ Appends(quarantine, i) \in Nat
        /\ Credit \in Nat /\ credit \in Nat
    BY <1>0, <1>1, <1>2
  <2>5. s1 \in Nat /\ s2 \in Nat /\ q1 \in Nat /\ q2 \in Nat
    OBVIOUS
  <2> HIDE DEF s1, s2, q1, q2, credit
  <2>6. Appends(silver, i) <= credit + s2 /\ Appends(quarantine, i) <= credit + q2
    BY <2>2, <2>3, <2>4, <2>5
  <2> QED  BY <2>1, <2>6 DEF s2, q2, credit
<1>3. ASSUME UNCHANGED silverVars, Credit' = Credit PROVE PaidFor'
  BY <1>0, <1>2, <1>3 DEF silverVars, SilverTurn, QuarantineTurn
<1>4. CASE (\E p \in Partitions, t \in Transactions : Produce(p, t))
           \/ BronzeDies \/ AlertsDie \/ BronzeCheckpointLost
  BY <1>0, <1>3, <1>4, SpendOnSilver DEF Produce, BronzeDies, AlertsDie, BronzeCheckpointLost
<1>5. CASE StartBronze \/ BronzeSteps \/ StartAlerts \/ AlertsWrite \/ UNCHANGED streamVars
  BY <1>3, <1>5 DEF StartBronze, BronzeSteps, BronzePlans, BronzeDone, BronzeWrites,
     BronzeCommits, StartAlerts, AlertsWrite, streamVars, Credit
<1>6. CASE StartSilver \/ SilverDone
  <2>1. /\ UNCHANGED <<silver, quarantine, conforming>> /\ Credit' = Credit
        /\ silverRun.pc \notin {"quarantine", "commit"}
        /\ silverRun'.pc \notin {"quarantine", "commit"}
    BY <1>0, <1>6 DEF StartSilver, SilverDone, Ended, Credit, SilverTypes, Runs
  <2> QED  BY <1>0, <1>2, <2>1 DEF SilverTurn, QuarantineTurn
<1>7. CASE SilverPlans
  <2>1. /\ UNCHANGED <<silver, quarantine>> /\ Credit' = Credit
        /\ conforming'.done = conforming.done
        /\ silverRun.pc = "select" /\ silverRun'.pc = "write"
    BY <1>0, <1>7 DEF SilverPlans, Credit, SilverTypes, Runs, Plan, Checkpoints
  <2> QED  BY <1>0, <1>2, <2>1 DEF SilverTurn, QuarantineTurn
<1>8. CASE SilverCommits
  <2>1. /\ UNCHANGED <<silver, quarantine>> /\ Credit' = Credit
        /\ conforming'.done = conforming.planned
        /\ silverRun.pc = "commit" /\ silverRun'.pc = "select"
    BY <1>0, <1>8 DEF SilverCommits, Credit, SilverTypes, Runs, Mark, Checkpoints
  <2>2. conforming.done <= conforming.planned
    BY <1>0 DEF WithinBronze
  <2>3. \A i \in Nat : i <= conforming.done => i <= conforming.planned
    BY <1>0, <2>2 DEF SilverNumbers
  <2> QED  BY <1>0, <1>2, <2>1, <2>3 DEF SilverTurn, QuarantineTurn
<1>9. CASE SilverDies \/ SilverCheckpointLost
  <2>1. UNCHANGED <<silver, quarantine>> /\ Credit' = Credit + 1
    BY <1>0, <1>9, SpendOnSilver DEF SilverDies, SilverCheckpointLost
  <2> QED  BY <1>0, <1>2, <2>1
<1>10. CASE SilverWrites
  <2>1. /\ silver' = Append(silver, Batch) /\ quarantine' = quarantine
        /\ conforming' = conforming /\ Credit' = Credit
        /\ silverRun.pc = "write" /\ silverRun'.pc \in {"quarantine", "commit"}
        /\ silverRun'.pc = "commit" => ~Refuses(Batch.from, Batch.to)
    BY <1>0, <1>10 DEF SilverWrites, Credit, SilverTypes, Runs
  <2>2. /\ silver \in Seq(Ranges(Nat)) /\ Batch \in Ranges(Nat)
        /\ Batch.from = conforming.done /\ Batch.to = conforming.planned
    BY <1>0, BatchInBronze DEF SilverTypes
  <2> SUFFICES ASSUME NEW i \in Nat
               PROVE  /\ Appends(silver', i) <= Credit + IF SilverTurn(i)' THEN 1 ELSE 0
                      /\ Appends(quarantine, i) <= Credit + IF QuarantineTurn(i)' THEN 1 ELSE 0
    BY <2>1 DEF PaidFor, Appends
  <2>3. /\ Appends(silver', i) \in Nat
        /\ Appends(silver', i) <= Appends(silver, i) + 1
        /\ ~(Batch.from < i /\ i <= Batch.to) => Appends(silver', i) = Appends(silver, i)
    <3>1. Append(silver, Batch) \in Seq(Ranges(Nat))
      BY <2>2
    <3> QED  BY <2>1, <2>2, <3>1, AppendsOneMore
  <2>4. /\ Appends(silver, i) <= Credit + IF i <= conforming.done THEN 1 ELSE 0
        /\ Appends(quarantine, i) <= Credit + IF i <= conforming.done THEN 1 ELSE 0
    BY <2>1 DEF PaidFor, SilverTurn, QuarantineTurn
  <2>5. /\ SilverTurn(i)' <=> i <= conforming.done \/ i <= conforming.planned
        /\ i <= conforming.done => QuarantineTurn(i)'
    BY <2>1 DEF SilverTurn, QuarantineTurn
  <2>6. Appends(quarantine, i) <= Credit + IF QuarantineTurn(i)' THEN 1 ELSE 0
    BY <2>4, <2>5, <1>0, <1>1
  <2>7. Appends(silver', i) <= Credit + IF SilverTurn(i)' THEN 1 ELSE 0
    <3>1. CASE i <= conforming.done
      <4>1. Appends(silver', i) = Appends(silver, i)
        BY <2>2, <2>3, <3>1, <1>0 DEF SilverNumbers
      <4> QED  BY <4>1, <2>4, <2>5, <3>1
    <3>2. CASE ~(i <= conforming.done) /\ i <= conforming.planned
      BY <3>2, <2>3, <2>4, <2>5, <1>0, <1>1
    <3>3. CASE ~(i <= conforming.done) /\ ~(i <= conforming.planned)
      <4>1. Appends(silver', i) = Appends(silver, i)
        BY <2>2, <2>3, <3>3
      <4> QED  BY <4>1, <2>4, <2>5, <3>3
    <3> QED  BY <3>1, <3>2, <3>3
  <2> QED  BY <2>6, <2>7
<1>11. CASE SilverQuarantines
  <2>1. /\ quarantine' = Append(quarantine, Batch) /\ silver' = silver
        /\ conforming' = conforming /\ Credit' = Credit
        /\ silverRun.pc = "quarantine" /\ silverRun'.pc = "commit"
    BY <1>0, <1>11 DEF SilverQuarantines, Credit, SilverTypes, Runs
  <2>2. /\ quarantine \in Seq(Ranges(Nat)) /\ Batch \in Ranges(Nat)
        /\ Batch.from = conforming.done /\ Batch.to = conforming.planned
    BY <1>0, BatchInBronze DEF SilverTypes
  <2> SUFFICES ASSUME NEW i \in Nat
               PROVE  /\ Appends(silver, i) <= Credit + IF SilverTurn(i)' THEN 1 ELSE 0
                      /\ Appends(quarantine', i) <= Credit + IF QuarantineTurn(i)' THEN 1 ELSE 0
    BY <2>1 DEF PaidFor, Appends
  <2>3. /\ Appends(quarantine', i) \in Nat
        /\ Appends(quarantine', i) <= Appends(quarantine, i) + 1
        /\ ~(Batch.from < i /\ i <= Batch.to) => Appends(quarantine', i) = Appends(quarantine, i)
    <3>1. Append(quarantine, Batch) \in Seq(Ranges(Nat))
      BY <2>2
    <3> QED  BY <2>1, <2>2, <3>1, AppendsOneMore
  <2>4. /\ Appends(silver, i) <= Credit + IF SilverTurn(i) THEN 1 ELSE 0
        /\ Appends(quarantine, i) <= Credit + IF i <= conforming.done THEN 1 ELSE 0
    BY <2>1 DEF PaidFor, QuarantineTurn
  <2>5. /\ SilverTurn(i)' <=> SilverTurn(i)
        /\ QuarantineTurn(i)' <=> i <= conforming.done \/ i <= conforming.planned
    BY <2>1 DEF SilverTurn, QuarantineTurn
  <2>6. Appends(quarantine', i) <= Credit + IF QuarantineTurn(i)' THEN 1 ELSE 0
    <3>1. CASE i <= conforming.done
      <4>1. Appends(quarantine', i) = Appends(quarantine, i)
        BY <2>2, <2>3, <3>1, <1>0 DEF SilverNumbers
      <4> QED  BY <4>1, <2>4, <2>5, <3>1
    <3>2. CASE ~(i <= conforming.done) /\ i <= conforming.planned
      BY <3>2, <2>3, <2>4, <2>5, <1>0, <1>1
    <3>3. CASE ~(i <= conforming.done) /\ ~(i <= conforming.planned)
      <4>1. Appends(quarantine', i) = Appends(quarantine, i)
        BY <2>2, <2>3, <3>3
      <4> QED  BY <4>1, <2>4, <2>5, <3>3
    <3> QED  BY <3>1, <3>2, <3>3
  <2> QED  BY <2>4, <2>5, <2>6
<1> QED  BY <1>4, <1>5, <1>6, <1>7, <1>8, <1>9, <1>10, <1>11
         DEF StreamNext, Outside, SilverSteps

\* A row is in silver, or in quarantine, once, and once more for each death of
\* the silver query and each loss of its checkpoint, and no more than that.
THEOREM RepeatsArePaidFor == StreamSpec => []RepeatsOnlyOnReplay
<1> DEFINE Inv == Topic /\ SoundBronze /\ SoundSilver /\ PaidFor
<1>1. StreamInit => Inv
  <2> SUFFICES ASSUME StreamInit PROVE PaidFor
    BY TopicInit, BronzeInit, SilverInit
  <2>1. \A i : /\ {a \in DOMAIN silver : silver[a].from < i /\ i <= silver[a].to} = {}
               /\ {a \in DOMAIN quarantine : quarantine[a].from < i /\ i <= quarantine[a].to} = {}
    BY DEF StreamInit
  <2>2. \A i : Appends(silver, i) = 0 /\ Appends(quarantine, i) = 0
    BY <2>1, FS_EmptySet DEF Appends
  <2>3. Credit = 0
    BY DEF StreamInit, Credit
  <2> QED  BY <2>2, <2>3 DEF PaidFor
<1>2. Inv /\ [StreamNext]_streamVars => Inv'
  BY TopicStep, BronzeStep, SilverStep, RepeatsStep
<1>3. Inv => RepeatsOnlyOnReplay
  <2> SUFFICES ASSUME Inv, NEW i \in DOMAIN bronze
               PROVE  /\ Appends(silver, i) <= 1 + spent.silverCrashes + spent.silverLosses
                      /\ Appends(quarantine, i) <= 1 + spent.silverCrashes + spent.silverLosses
    BY DEF RepeatsOnlyOnReplay
  <2>1. /\ i \in Nat /\ spent.silverCrashes \in Nat /\ spent.silverLosses \in Nat
        /\ silver \in Seq(Ranges(Nat)) /\ quarantine \in Seq(Ranges(Nat))
        /\ Batch \in Ranges(Nat)
    BY BatchInBronze DEF SoundBronze, BronzeTypes, Topic, Budget, SoundSilver, SilverTypes
  <2>2. Appends(silver, i) \in Nat /\ Appends(quarantine, i) \in Nat
    BY <2>1, AppendsOneMore
  <2>3. Appends(silver, i) <= Credit + 1 /\ Appends(quarantine, i) <= Credit + 1
    <3>1. Credit \in Nat
      BY <2>1 DEF Credit
    <3>2. /\ Appends(silver, i) <= Credit + IF SilverTurn(i) THEN 1 ELSE 0
          /\ Appends(quarantine, i) <= Credit + IF QuarantineTurn(i) THEN 1 ELSE 0
      BY <2>1 DEF PaidFor
    <3> QED  BY <3>1, <3>2, <2>2
  <2>4. Credit + 1 = 1 + spent.silverCrashes + spent.silverLosses
    BY <2>1 DEF Credit
  <2> QED  BY <2>3, <2>4
<1> QED  BY <1>1, <1>2, <1>3, PTL DEF StreamSpec

(***************************************************************************)
(* Refinement: the rows of bronze, one append after the other, are the     *)
(* topic up to some offset.  First, what FlattenSeq makes of consecutive   *)
(* slices.                                                                 *)
(***************************************************************************)

\* The equation of the function by which FlattenSeq is defined.
IsFlat(flat, pieces) ==
    flat = [i \in 1..Len(pieces) |-> IF i = 1 THEN pieces[i] ELSE flat[i-1] \o pieces[i]]

\* There is one such function, so FlattenSeq is the last of its values.
LEMMA FlattenIsFlat ==
    ASSUME NEW pieces, NEW flat, Len(pieces) \in Nat, Len(pieces) # 0, IsFlat(flat, pieces)
    PROVE  FlattenSeq(pieces) = flat[Len(pieces)]
<1> DEFINE chosen == CHOOSE f : IsFlat(f, pieces)
<1>1. FlattenSeq(pieces) = chosen[Len(pieces)]
  BY DEF FlattenSeq, IsFlat
<1>2. IsFlat(chosen, pieces)
  OBVIOUS
<1> HIDE DEF chosen
<1> DEFINE same == {i \in Nat : i + 1 <= Len(pieces) => chosen[i + 1] = flat[i + 1]}
<1>3. \A i \in 1..Len(pieces) :
         /\ chosen[i] = IF i = 1 THEN pieces[i] ELSE chosen[i-1] \o pieces[i]
         /\ flat[i] = IF i = 1 THEN pieces[i] ELSE flat[i-1] \o pieces[i]
  BY <1>2 DEF IsFlat
<1>4. 0 \in same
  BY <1>3
<1>5. ASSUME NEW i \in Nat, i \in same PROVE i + 1 \in same
  <2> SUFFICES ASSUME i + 2 <= Len(pieces) PROVE chosen[i + 2] = flat[i + 2]
    OBVIOUS
  <2>1. i + 2 \in 1..Len(pieces) /\ i + 2 # 1 /\ (i + 2) - 1 = i + 1
    OBVIOUS
  <2>2. chosen[i + 1] = flat[i + 1]
    BY <1>5
  <2> QED  BY <2>1, <2>2, <1>3
<1> HIDE DEF same
<1>6. Nat \subseteq same
  BY <1>4, <1>5, EveryNumber
<1>7. Len(pieces) - 1 \in same
  BY <1>6
<1> QED  BY <1>1, <1>7 DEF same

\* Slices of a sequence that follow each other make up the part they cover.
LEMMA FlattenedSlices ==
    ASSUME NEW S, NEW s \in Seq(S), NEW n \in Nat,
           NEW cut \in [0..n -> 0..Len(s)], cut[0] = 0,
           \A i \in 1..n : cut[i - 1] <= cut[i],
           NEW pieces, pieces = [i \in 1..n |-> SubSeq(s, cut[i - 1] + 1, cut[i])]
    PROVE  FlattenSeq(pieces) = SubSeq(s, 1, cut[n])
<1>1. Len(s) \in Nat /\ \A i \in 0..n : cut[i] \in Nat /\ cut[i] <= Len(s)
  OBVIOUS
<1>2. \A i \in 1..n : pieces[i] \in Seq(S)
  <2> SUFFICES ASSUME NEW i \in 1..n PROVE SubSeq(s, cut[i - 1] + 1, cut[i]) \in Seq(S)
    OBVIOUS
  <2>0. i - 1 \in 0..n /\ i \in 0..n
    OBVIOUS
  <2>1. cut[i - 1] \in Nat /\ cut[i] \in Nat /\ cut[i] <= Len(s)
    BY <1>1, <2>0
  <2> DEFINE a == cut[i - 1] + 1
             b == cut[i]
  <2>2. a \in Int /\ b \in Int /\ a >= 1 /\ b <= Len(s)
    <3>1. \A k \in Nat : k \in Int /\ k + 1 \in Int /\ k + 1 >= 1
      OBVIOUS
    <3> QED  BY <2>1, <3>1, Zenon
  <2> HIDE DEF a, b
  <2>3. \A j \in a..b : j \in 1..Len(s)
    BY <1>1, <2>2
  <2>4. \A j \in 1..Len(s) : s[j] \in S
    OBVIOUS
  <2>5. SubSeq(s, a, b) \in Seq(S)
    BY <2>2, <2>3, <2>4, SubSeqProperties
  <2> QED  BY <2>5 DEF a, b
<1>3. Len(pieces) = n
  OBVIOUS
<1>4. CASE n = 0
  <2>1. pieces = <<>>
    BY <1>4
  <2>2. SubSeq(s, 1, cut[n]) = <<>>
    BY <1>4, SubSeqEmpty
  <2> QED  BY <2>1, <2>2, <1>3, <1>4 DEF FlattenSeq
<1>5. CASE n # 0
  <2> DEFINE flat == [i \in 1..n |-> SubSeq(s, 1, cut[i])]
  <2>1. ASSUME NEW i \in 1..n
        PROVE  flat[i] = IF i = 1 THEN pieces[i] ELSE flat[i-1] \o pieces[i]
    <3>1. CASE i = 1
      <4>1. 1 \in 1..n /\ 1 - 1 = 0
        BY <3>1
      <4>2. flat[1] = SubSeq(s, 1, cut[1])
        BY <4>1, Zenon
      <4>3. pieces[1] = SubSeq(s, cut[1 - 1] + 1, cut[1])
        BY <4>1, Zenon
      <4>4. cut[1 - 1] + 1 = 1
        BY <4>1
      <4> QED  BY <3>1, <4>2, <4>3, <4>4, Zenon
    <3>2. CASE i # 1
      <4>1. i - 1 \in 1..n /\ i - 1 \in 0..n /\ i \in 0..n
        BY <3>2
      <4>2. cut[i - 1] \in Nat /\ cut[i] \in Nat /\ cut[i - 1] <= cut[i] /\ cut[i] <= Len(s)
        BY <1>1, <4>1
      <4>3. SubSeq(s, 1, cut[i - 1]) \o SubSeq(s, cut[i - 1] + 1, cut[i]) = SubSeq(s, 1, cut[i])
        <5>1. /\ 1 \in 1..Len(s) + 1 /\ cut[i - 1] \in 1 - 1..Len(s)
              /\ cut[i] \in cut[i - 1]..Len(s)
          BY <1>1, <4>2
        <5> QED  BY <5>1, ConcatAdjacentSubSeq, Zenon
      <4> QED  BY <3>2, <4>1, <4>3
    <3> QED  BY <3>1, <3>2
  <2>2. DOMAIN flat = 1..n /\ flat = [i \in DOMAIN flat |-> flat[i]]
    OBVIOUS
  <2>3. flat[n] = SubSeq(s, 1, cut[n])
    <3>1. n \in 1..n
      BY <1>5
    <3> QED  BY <3>1, Zenon
  <2> HIDE DEF flat
  <2>4. IsFlat(flat, pieces)
    <3>1. [i \in 1..n |-> flat[i]]
           = [i \in 1..n |-> IF i = 1 THEN pieces[i] ELSE flat[i-1] \o pieces[i]]
      BY <2>1, Zenon
    <3> QED  BY <2>2, <3>1, <1>3, Zenon DEF IsFlat
  <2> QED  BY <1>3, <1>5, <2>3, <2>4, FlattenIsFlat
<1> QED  BY <1>4, <1>5

\* The appends of a table follow each other from the first offset on.
Follow(table) ==
    /\ \A i \in DOMAIN table, p \in Partitions : table[i].from[p] <= table[i].to[p]
    /\ \A i \in DOMAIN table :
          table[i].from = IF i = 1 THEN Nowhere ELSE table[i - 1].to
UpTo(table) == IF table = <<>> THEN Nowhere ELSE table[Len(table)].to

\* ... and they end where the checkpoint is: at what is planned, once that has
\* been written.
Contiguous ==
    /\ Follow(bronze)
    /\ UpTo(bronze) = IF Landed THEN landing.planned ELSE landing.done

\* An append that starts where a table ends continues it.
LEMMA FollowOn ==
    ASSUME NEW S, NEW table \in Seq(S), Follow(table), NEW a, a \in S,
           a.from = UpTo(table), \A p \in Partitions : a.from[p] <= a.to[p]
    PROVE  Follow(Append(table, a)) /\ UpTo(Append(table, a)) = a.to
<1> DEFINE more == Append(table, a)
           n == Len(table)
<1>1. /\ n \in Nat /\ DOMAIN table = 1..n /\ DOMAIN more = 1..n + 1 /\ Len(more) = n + 1
      /\ more[n + 1] = a /\ \A i \in 1..n : more[i] = table[i]
      /\ more # <<>> /\ (table = <<>> <=> n = 0)
  OBVIOUS
<1> HIDE DEF more, n
<1>2. \A i \in 1..n + 1, p \in Partitions : more[i].from[p] <= more[i].to[p]
  <2>1. \A i \in 1..n + 1 : i = n + 1 \/ i \in 1..n
    BY <1>1
  <2> QED  BY <1>1, <2>1 DEF Follow
<1>3. ASSUME NEW i \in 1..n + 1
      PROVE  more[i].from = IF i = 1 THEN Nowhere ELSE more[i - 1].to
  <2>1. CASE i = n + 1
    <3>1. CASE n = 0
      BY <1>1, <2>1, <3>1 DEF UpTo
    <3>2. CASE n # 0
      <4>1. i # 1 /\ i - 1 = n /\ n \in 1..n
        BY <1>1, <2>1, <3>2
      <4>2. UpTo(table) = table[n].to
        BY <1>1, <3>2 DEF UpTo, n
      <4> QED  BY <1>1, <2>1, <4>1, <4>2
    <3> QED  BY <3>1, <3>2
  <2>2. CASE i \in 1..n
    <3>1. i # 1 => i - 1 \in 1..n
      BY <1>1, <2>2
    <3> QED  BY <1>1, <2>2, <3>1 DEF Follow
  <2> QED  BY <1>1, <2>1, <2>2
<1>4. UpTo(more) = a.to
  BY <1>1 DEF UpTo
<1> QED  BY <1>1, <1>2, <1>3, <1>4 DEF Follow, more

LEMMA ContiguousStep ==
    ASSUME MaxLosses = 0, Topic, SoundBronze, Contiguous, [StreamNext]_streamVars
    PROVE  Contiguous'
<1>1. /\ BronzeTypes /\ BronzeNumbers /\ WithinTopic /\ AppendsMatchCheckpoint /\ BronzePhase
      /\ landing.query = 0
  <2>1. landing.query \in 0..MaxLosses
    BY DEF SoundBronze, BronzeTypes, Checkpoints
  <2> QED  BY <2>1, BronzeCounts DEF SoundBronze
<1>2. \A i \in DOMAIN bronze : bronze[i].query = landing.query
  <2>1. \A i \in DOMAIN bronze : bronze[i].query \in 0..MaxLosses
    BY <1>1 DEF BronzeNumbers, Appended
  <2> QED  BY <1>1, <2>1
<1>3. \A i \in DOMAIN bronze : bronze[i].epoch \in Nat /\ bronze[i].epoch <= landing.epoch
  BY <1>1, <1>2 DEF AppendsMatchCheckpoint, BronzeNumbers
<1>4. Landed => Pending(landing)
  <2> SUFFICES ASSUME NEW i \in DOMAIN bronze, bronze[i].epoch >= landing.epoch
               PROVE  Pending(landing)
    BY DEF Landed
  <2>1. bronze[i].epoch = landing.epoch
    BY <1>1, <1>3 DEF BronzeNumbers
  <2> QED  BY <1>1, <1>2, <2>1 DEF AppendsMatchCheckpoint
<1>5. ASSUME bronze' = bronze, landing' = landing PROVE Contiguous'
  BY <1>5 DEF Contiguous, Landed
<1>6. CASE BronzePlans
  <2>1. CASE Pending(landing)
    BY <1>5, <1>6, <2>1 DEF BronzePlans
  <2>2. CASE ~Pending(landing)
    <3>1. /\ bronze' = bronze
          /\ landing' = [landing EXCEPT !.planned = bronzeRun.target]
      BY <1>6, <2>2 DEF BronzePlans, Plan
    <3>2. /\ landing'.query = landing.query /\ landing'.epoch = landing.epoch
          /\ landing'.done = landing.done
      BY <1>1, <3>1 DEF BronzeTypes, Checkpoints
    <3>3. ~Landed /\ ~Landed'
      BY <1>4, <2>2, <3>1, <3>2 DEF Landed
    <3> QED  BY <3>1, <3>2, <3>3 DEF Contiguous
  <2> QED  BY <2>1, <2>2
<1>7. CASE BronzeWrites
  <2> DEFINE new == [query |-> landing.query, epoch |-> landing.epoch,
                     from |-> landing.done, to |-> landing.planned]
  <2>1. CASE Landed
    BY <1>5, <1>7, <2>1 DEF BronzeWrites
  <2>2. CASE ~Landed
    <3>1. bronze' = Append(bronze, new) /\ landing' = landing
      BY <1>7, <2>2 DEF BronzeWrites
    <3>2. /\ new \in Appended /\ new.from = UpTo(bronze) /\ new.to = landing.planned
          /\ new.query = landing.query /\ new.epoch = landing.epoch
          /\ \A p \in Partitions : new.from[p] <= new.to[p]
      BY <1>1, <2>2 DEF Contiguous, BronzeTypes, Checkpoints, Appended, WithinTopic
    <3> HIDE DEF new
    <3>3. Follow(bronze') /\ UpTo(bronze') = landing.planned
      <4>1. bronze \in Seq(Appended) /\ Follow(bronze)
        BY <1>1 DEF BronzeTypes, Contiguous
      <4> QED  BY <3>1, <3>2, <4>1, FollowOn
    <3>4. Landed'
      <4>1. bronze \in Seq(Appended)
        BY <1>1 DEF BronzeTypes
      <4>2. Len(bronze) + 1 \in DOMAIN bronze' /\ bronze'[Len(bronze) + 1] = new
        BY <3>1, <4>1
      <4> QED  BY <1>1, <3>1, <3>2, <4>2 DEF Landed, BronzeNumbers
    <3> QED  BY <3>1, <3>3, <3>4 DEF Contiguous
  <2> QED  BY <2>1, <2>2
<1>8. CASE BronzeCommits
  <2>1. /\ bronze' = bronze /\ Landed
        /\ landing' = [landing EXCEPT !.done = landing.planned, !.epoch = landing.epoch + 1]
    BY <1>1, <1>8 DEF BronzeCommits, BronzePhase, Mark
  <2>2. /\ landing'.epoch = landing.epoch + 1
        /\ landing'.done = landing.planned /\ landing'.planned = landing.planned
    BY <1>1, <2>1 DEF BronzeTypes, Checkpoints
  <2> QED  BY <2>1, <2>2 DEF Contiguous
<1>9. CASE StartBronze \/ BronzeDone \/ BronzeDies
  BY <1>5, <1>9 DEF StartBronze, BronzeDone, BronzeDies
<1>10. CASE BronzeCheckpointLost
  BY <1>10 DEF BronzeCheckpointLost, Topic, Budget, Losses
<1>11. CASE \/ \E p \in Partitions, t \in Transactions : Produce(p, t)
            \/ SilverDies \/ AlertsDie \/ SilverCheckpointLost
  BY <1>5, <1>11 DEF Produce, SilverDies, AlertsDie, SilverCheckpointLost, bronzeVars
<1>12. CASE StartSilver \/ SilverSteps \/ StartAlerts \/ AlertsWrite \/ UNCHANGED streamVars
  BY <1>5, <1>12 DEF StartSilver, SilverSteps, SilverPlans, SilverDone, SilverWrites,
     SilverQuarantines, SilverCommits, StartAlerts, AlertsWrite, streamVars, bronzeVars
<1> QED  BY <1>6, <1>7, <1>8, <1>9, <1>10, <1>11, <1>12 DEF StreamNext, Outside, BronzeSteps

\* The rows of a partition that the appends of a table hold.
RowsIn(table, sent, p) ==
    FlattenSeq([i \in DOMAIN table |-> SubSeq(sent[p], table[i].from[p] + 1, table[i].to[p])])

LEMMA RowsFollow ==
    ASSUME NEW p \in Partitions, NEW table \in Seq(Appended), Follow(table),
           NEW sent \in [Partitions -> Seq(Transactions)],
           \A i \in DOMAIN table : table[i].to[p] <= Len(sent[p])
    PROVE  /\ UpTo(table)[p] \in 0..Len(sent[p])
           /\ RowsIn(table, sent, p) = SubSeq(sent[p], 1, UpTo(table)[p])
<1> DEFINE n == Len(table)
           s == sent[p]
           cut == [i \in 0..n |-> IF i = 0 THEN 0 ELSE table[i].to[p]]
           pieces == [i \in 1..n |-> SubSeq(s, cut[i - 1] + 1, cut[i])]
<1>1. /\ n \in Nat /\ DOMAIN table = 1..n /\ s \in Seq(Transactions) /\ Len(s) \in Nat
      /\ table = <<>> <=> n = 0
  OBVIOUS
<1>2. \A i \in 1..n : /\ table[i].from[p] \in Nat /\ table[i].to[p] \in Nat
                      /\ table[i].to[p] <= Len(s)
                      /\ table[i].from[p] <= table[i].to[p]
  <2> SUFFICES ASSUME NEW i \in 1..n
               PROVE  /\ table[i].from[p] \in Nat /\ table[i].to[p] \in Nat
                      /\ table[i].to[p] <= Len(s) /\ table[i].from[p] <= table[i].to[p]
    OBVIOUS
  <2>1. table[i] \in Appended
    BY <1>1
  <2>2. table[i].from \in Positions /\ table[i].to \in Positions
    BY <2>1 DEF Appended
  <2>3. \A f \in Positions : f[p] \in Nat
    BY BoundsAssumption DEF Positions
  <2> QED  BY <1>1, <2>2, <2>3 DEF Follow
<1>3. Nowhere[p] = 0
  BY DEF Nowhere
<1>4. \A i \in 1..n : table[i].from[p] = cut[i - 1] /\ table[i].to[p] = cut[i]
  <2> SUFFICES ASSUME NEW i \in 1..n
               PROVE  table[i].from[p] = cut[i - 1] /\ table[i].to[p] = cut[i]
    OBVIOUS
  <2>1. table[i].from = IF i = 1 THEN Nowhere ELSE table[i - 1].to
    BY <1>1 DEF Follow
  <2>2. i \in Nat /\ i # 0 /\ i \in 0..n /\ i - 1 \in 0..n
    BY <1>1
  <2>3. CASE i = 1  BY <1>3, <2>1, <2>2, <2>3
  <2>4. CASE i # 1
    <3>1. i - 1 # 0
      BY <2>2, <2>4
    <3> QED  BY <2>1, <2>2, <2>4, <3>1
  <2> QED  BY <2>3, <2>4
<1>5. cut \in [0..n -> 0..Len(s)] /\ cut[0] = 0 /\ \A i \in 1..n : cut[i - 1] <= cut[i]
  <2>1. \A i \in 0..n : i = 0 \/ i \in 1..n
    BY <1>1
  <2>2. \A i \in 0..n : cut[i] \in 0..Len(s)
    BY <1>1, <1>2, <2>1
  <2>3. \A i \in 1..n : cut[i - 1] <= cut[i]
    BY <1>2, <1>4
  <2>4. cut = [i \in 0..n |-> cut[i]] /\ 0 \in 0..n
    BY <1>1
  <2>5. cut[0] = 0
    BY <2>4
  <2> HIDE DEF cut, n, s
  <2> QED  BY <2>2, <2>3, <2>4, <2>5
<1>6. UpTo(table)[p] = cut[n]
  <2>1. CASE n = 0   BY <1>1, <1>3, <2>1 DEF UpTo
  <2>2. CASE n # 0   BY <1>1, <2>2 DEF UpTo
  <2> QED  BY <2>1, <2>2
<1>7. RowsIn(table, sent, p) = FlattenSeq(pieces)
  <2>1. pieces = [i \in DOMAIN table |-> SubSeq(s, table[i].from[p] + 1, table[i].to[p])]
    <3> HIDE DEF cut, n, s
    <3> QED  BY <1>1, <1>4
  <2> HIDE DEF pieces
  <2> QED  BY <2>1 DEF RowsIn
<1>8. cut[n] \in 0..Len(s)
  <2> HIDE DEF cut, n, s
  <2> QED  BY <1>1, <1>5
<1>9. FlattenSeq(pieces) = SubSeq(s, 1, cut[n])
  <2> HIDE DEF cut, n, s
  <2> QED  BY <1>1, <1>5, FlattenedSlices
<1> QED  BY <1>6, <1>7, <1>8, <1>9

\* What is on the topic up to an offset stays what it is.
LEMMA PrefixStays ==
    ASSUME NEW S, NEW s \in Seq(S), NEW t \in Seq(S), NEW n \in 0..Len(s),
           Len(s) <= Len(t), \A o \in 1..Len(s) : t[o] = s[o]
    PROVE  SubSeq(t, 1, n) = SubSeq(s, 1, n)
<1>1. n \in Nat /\ n <= Len(s) /\ Len(s) \in Nat /\ Len(t) \in Nat
  OBVIOUS
<1>2. \A o \in 1..n : s[o] \in S /\ t[o] \in S /\ t[o] = s[o]
  BY <1>1
<1>3. /\ SubSeq(s, 1, n) \in Seq(S) /\ SubSeq(t, 1, n) \in Seq(S)
      /\ \A o \in 1..n - 1 + 1 : SubSeq(s, 1, n)[o] = s[1 + o - 1]
      /\ \A o \in 1..n - 1 + 1 : SubSeq(t, 1, n)[o] = t[1 + o - 1]
      /\ Len(SubSeq(s, 1, n)) = IF 1 <= n THEN n - 1 + 1 ELSE 0
      /\ Len(SubSeq(t, 1, n)) = IF 1 <= n THEN n - 1 + 1 ELSE 0
  <2>1. 1 \in Int /\ n \in Int
    BY <1>1
  <2> QED  BY <1>2, <2>1, SubSeqProperties
<1>4. Len(SubSeq(s, 1, n)) = n /\ Len(SubSeq(t, 1, n)) = n
  BY <1>1, <1>3
<1>5. \A o \in 1..n : SubSeq(s, 1, n)[o] = SubSeq(t, 1, n)[o]
  <2> SUFFICES ASSUME NEW o \in 1..n PROVE SubSeq(s, 1, n)[o] = SubSeq(t, 1, n)[o]
    OBVIOUS
  <2>1. o \in 1..n - 1 + 1 /\ 1 + o - 1 = o
    BY <1>1
  <2> QED  BY <1>2, <1>3, <2>1
<1> QED  BY <1>3, <1>4, <1>5, SeqEqual

\* Where a table lands: of every partition, the topic up to the table's end.
LEMMA LandedRows ==
    ASSUME Topic, SoundBronze, Contiguous
    PROVE  \A p \in Partitions : /\ UpTo(bronze)[p] \in 0..Len(log[p])
                                 /\ RowsOf(p) = SubSeq(log[p], 1, UpTo(bronze)[p])
<1> SUFFICES ASSUME NEW p \in Partitions
             PROVE  /\ UpTo(bronze)[p] \in 0..Len(log[p])
                    /\ RowsOf(p) = SubSeq(log[p], 1, UpTo(bronze)[p])
  OBVIOUS
<1>1. /\ bronze \in Seq(Appended) /\ Follow(bronze)
      /\ \A i \in DOMAIN bronze : bronze[i].to[p] <= Len(log[p])
      /\ log \in [Partitions -> Seq(Transactions)]
  BY DEF SoundBronze, BronzeTypes, WithinTopic, Contiguous, Topic
<1>2. RowsOf(p) = RowsIn(bronze, log, p)
  BY DEF RowsOf, RowsIn
<1> QED  BY <1>1, <1>2, RowsFollow

\* A write of the sink lands what was planned, a message sent disturbs nothing
\* that has landed, and nothing else is seen.
LEMMA LandingStep ==
    ASSUME MaxLosses = 0, Topic, SoundBronze, Contiguous, [StreamNext]_streamVars
    PROVE  [Log!LogNext]_(Log!logVars)
<1>1. Topic' /\ LogGrows /\ SoundBronze' /\ Contiguous'
  BY TopicStep, BronzeStep, ContiguousStep
<1>2. \A p \in Partitions :
         /\ UpTo(bronze)[p] \in 0..Len(log[p])
         /\ RowsOf(p) = SubSeq(log[p], 1, UpTo(bronze)[p])
  BY LandedRows
<1>3. \A p \in Partitions :
         /\ UpTo(bronze')[p] \in 0..Len(log'[p])
         /\ RowsOf(p)' = SubSeq(log'[p], 1, UpTo(bronze')[p])
  <2> SUFFICES ASSUME NEW p \in Partitions
               PROVE  /\ UpTo(bronze')[p] \in 0..Len(log'[p])
                      /\ RowsOf(p)' = SubSeq(log'[p], 1, UpTo(bronze')[p])
    OBVIOUS
  <2>1. /\ bronze' \in Seq(Appended) /\ Follow(bronze')
        /\ \A i \in DOMAIN bronze' : bronze'[i].to[p] <= Len(log'[p])
        /\ log' \in [Partitions -> Seq(Transactions)]
    BY <1>1 DEF SoundBronze, BronzeTypes, WithinTopic, Contiguous, Topic
  <2>2. RowsOf(p)' = RowsIn(bronze', log', p)
    BY DEF RowsOf, RowsIn
  <2> QED  BY <2>1, <2>2, RowsFollow
<1>4. ASSUME bronze' = bronze, log' = log PROVE UNCHANGED (Log!logVars)
  <2>1. \A p \in Partitions : RowsOf(p)' = RowsOf(p)
    BY <1>2, <1>3, <1>4
  <2> QED  BY <1>4, <2>1 DEF Log!logVars
<1>5. CASE BronzeWrites
  <2>1. log' = log /\ landing' = landing
    BY <1>5 DEF BronzeWrites
  <2>2. CASE Landed
    BY <1>4, <1>5, <2>1, <2>2 DEF BronzeWrites
  <2>3. CASE ~Landed
    <3>1. \A p \in Partitions : /\ landing.done[p] <= landing.planned[p]
                                /\ landing.done[p] \in Nat /\ landing.planned[p] \in Nat
      BY BronzeCounts DEF SoundBronze, WithinTopic, BronzeNumbers
    <3>2. UpTo(bronze) = landing.done /\ UpTo(bronze') \in {landing.done, landing.planned}
      BY <1>1, <2>1, <2>3 DEF Contiguous
    <3>3. \A p \in Partitions : UpTo(bronze)[p] <= UpTo(bronze')[p]
      BY <3>1, <3>2
    <3>4. \A p \in Partitions :
             \E n \in Len(RowsOf(p))..Len(log[p]) : RowsOf(p)' = SubSeq(log[p], 1, n)
      <4> SUFFICES ASSUME NEW p \in Partitions
                   PROVE  \E n \in Len(RowsOf(p))..Len(log[p]) :
                             RowsOf(p)' = SubSeq(log[p], 1, n)
        OBVIOUS
      <4>1. /\ UpTo(bronze')[p] \in 0..Len(log[p]) /\ UpTo(bronze)[p] \in 0..Len(log[p])
            /\ Len(log[p]) \in Nat /\ log[p] \in Seq(Transactions)
        BY <1>2, <1>3, <2>1 DEF Topic
      <4>2. Len(RowsOf(p)) = UpTo(bronze)[p]
        <5> DEFINE s == log[p]  n == UpTo(bronze)[p]
        <5>1. RowsOf(p) = SubSeq(s, 1, n)
          BY <1>2
        <5>2. s \in Seq(Transactions) /\ n \in 0..Len(s) /\ Len(s) \in Nat
          BY <4>1
        <5> HIDE DEF s, n
        <5>3. Len(SubSeq(s, 1, n)) = n
          BY <5>2
        <5> QED  BY <5>1, <5>3 DEF n
      <4>3. UpTo(bronze')[p] \in Len(RowsOf(p))..Len(log[p])
        BY <3>3, <4>1, <4>2
      <4> QED  BY <1>3, <2>1, <4>3
    <3> QED  BY <2>1, <3>4 DEF Log!LogNext, Log!Land
  <2> QED  BY <2>2, <2>3
<1>6. ASSUME NEW p \in Partitions, NEW t \in Transactions, Produce(p, t)
      PROVE  Log!LogNext
  <2>1. log' = [log EXCEPT ![p] = Append(@, t)] /\ bronze' = bronze
    BY <1>6 DEF Produce, bronzeVars
  <2>2. \A q \in Partitions : RowsOf(q)' = RowsOf(q)
    <3> SUFFICES ASSUME NEW q \in Partitions PROVE RowsOf(q)' = RowsOf(q)
      OBVIOUS
    <3>1. log[q] \in Seq(Transactions) /\ log'[q] \in Seq(Transactions)
      BY <1>1 DEF Topic
    <3>2. Len(log[q]) <= Len(log'[q]) /\ \A o \in 1..Len(log[q]) : log'[q][o] = log[q][o]
      BY <1>1 DEF LogGrows
    <3>3. SubSeq(log'[q], 1, UpTo(bronze)[q]) = SubSeq(log[q], 1, UpTo(bronze)[q])
      BY <1>2, <3>1, <3>2, PrefixStays
    <3> QED  BY <1>2, <1>3, <2>1, <3>3
  <2> QED  BY <2>1, <2>2 DEF Log!LogNext, Log!Send
<1>7. CASE StartBronze \/ BronzePlans \/ BronzeDone \/ BronzeCommits
  BY <1>4, <1>7 DEF StartBronze, BronzePlans, BronzeDone, BronzeCommits
<1>8. CASE \/ BronzeDies \/ SilverDies \/ AlertsDie \/ BronzeCheckpointLost \/ SilverCheckpointLost
  BY <1>4, <1>8 DEF BronzeDies, SilverDies, AlertsDie, BronzeCheckpointLost,
     SilverCheckpointLost, bronzeVars
<1>9. CASE StartSilver \/ SilverSteps \/ StartAlerts \/ AlertsWrite \/ UNCHANGED streamVars
  BY <1>4, <1>9 DEF StartSilver, SilverSteps, SilverPlans, SilverDone, SilverWrites,
     SilverQuarantines, SilverCommits, StartAlerts, AlertsWrite, streamVars, bronzeVars
<1> QED  BY <1>5, <1>6, <1>7, <1>8, <1>9 DEF StreamNext, Outside, BronzeSteps

\* Refinement: as long as its checkpoint survives, bronze implements an
\* exactly-once landing, whenever its query dies.
THEOREM BronzeImplementsLog ==
    ASSUME MaxLosses = 0
    PROVE  StreamSpec => BronzeLandsTheLog
<1>1. StreamInit => Contiguous /\ Log!LogInit
  <2> SUFFICES ASSUME StreamInit PROVE Contiguous /\ Log!LogInit
    OBVIOUS
  <2>1. bronze = <<>> /\ landing = Fresh(0, Nowhere) /\ log = [p \in Partitions |-> <<>>]
    BY DEF StreamInit
  <2>2. Contiguous
    BY <2>1 DEF Contiguous, Follow, UpTo, Landed, Fresh
  <2>3. Topic /\ SoundBronze
    BY TopicInit, BronzeInit
  <2>4. ASSUME NEW p \in Partitions PROVE RowsOf(p) = <<>>
    <3>1. UpTo(bronze)[p] = 0
      BY <2>1 DEF UpTo, Nowhere
    <3>2. RowsOf(p) = SubSeq(log[p], 1, 0)
      BY <2>2, <2>3, <3>1, LandedRows
    <3> QED  BY <3>2, SubSeqEmpty
  <2> QED  BY <2>1, <2>2, <2>4 DEF Log!LogInit
<1>2. Topic /\ SoundBronze /\ Contiguous /\ [StreamNext]_streamVars => Contiguous'
  BY ContiguousStep
<1>3. Topic /\ SoundBronze /\ Contiguous /\ [StreamNext]_streamVars
         => [Log!LogNext]_(Log!logVars)
  BY LandingStep
<1> QED  BY <1>1, <1>2, <1>3, BronzeIsSound, PTL DEF StreamSpec, BronzeLandsTheLog, Log!LogSpec

-----------------------------------------------------------------------------
(***************************************************************************)
(* The schedule only ever takes steps of the stream, so what is proved of  *)
(* the stream holds under it.  What it adds is order: a DAG run reads what *)
(* its own earlier stages have reached.                                    *)
(***************************************************************************)
(***************************************************************************)
(* What a stage that succeeded has reached, whatever happens after.        *)
(***************************************************************************)
BronzeReached ==
    bronzeRun.pc = "succeeded" =>
        \A p \in Partitions : \A o \in 1..bronzeRun.target[p] :
            \E i \in DOMAIN bronze : Holds(bronze[i], <<p, o>>)

SilverReached ==
    silverRun.pc = "succeeded" => \A i \in 1..silverRun.target : Covers(silver, i)

AlertsReached ==
    alertRun.pc = "succeeded" =>
        (HasAlerts(alertRun.target) => alerts = alertRun.target)

\* The bronze stage stops when its checkpoint is at its target, and behind the
\* checkpoint there is no gap.
LEMMA BronzeReachedStep ==
    ASSUME Topic, SoundBronze, BronzeReached, [StreamNext]_streamVars
    PROVE  BronzeReached'
<1>1. BronzeGrows
  BY BronzeOnlyGrows DEF SoundBronze
<1>2. ASSUME bronzeRun' = bronzeRun PROVE BronzeReached'
  BY <1>1, <1>2 DEF BronzeReached, BronzeGrows
<1>3. ASSUME bronzeRun'.pc # "succeeded" PROVE BronzeReached'
  BY <1>3 DEF BronzeReached
<1>4. bronzeRun \in Runs(Positions, {"select", "write", "commit"})
  BY DEF SoundBronze, BronzeTypes
<1>5. CASE StartBronze
  BY <1>3, <1>5 DEF StartBronze
<1>6. CASE BronzePlans \/ BronzeWrites \/ BronzeCommits \/ BronzeDies
  BY <1>3, <1>4, <1>6 DEF BronzePlans, BronzeWrites, BronzeCommits, BronzeDies, Runs
<1>7. CASE BronzeDone
  <2>1. /\ landing.done = bronzeRun.target /\ bronze' = bronze
        /\ bronzeRun' = [bronzeRun EXCEPT !.pc = "succeeded"]
    BY <1>7 DEF BronzeDone
  <2>2. bronzeRun'.target = landing.done
    BY <2>1, <1>4 DEF Runs
  <2> QED  BY <2>1, <2>2 DEF BronzeReached, SoundBronze, NoGapBehindCheckpoint
<1>8. CASE \/ \E p \in Partitions, t \in Transactions : Produce(p, t)
           \/ SilverDies \/ AlertsDie \/ BronzeCheckpointLost \/ SilverCheckpointLost
  BY <1>2, <1>8 DEF Produce, SilverDies, AlertsDie, BronzeCheckpointLost,
     SilverCheckpointLost, bronzeVars
<1>9. CASE StartSilver \/ SilverSteps \/ StartAlerts \/ AlertsWrite \/ UNCHANGED streamVars
  BY <1>2, <1>9 DEF StartSilver, SilverSteps, SilverPlans, SilverDone, SilverWrites,
     SilverQuarantines, SilverCommits, StartAlerts, AlertsWrite, streamVars, bronzeVars
<1> QED  BY <1>5, <1>6, <1>7, <1>8, <1>9 DEF StreamNext, Outside, BronzeSteps

SilverGrows ==
    /\ Len(silver) <= Len(silver')
    /\ \A a \in DOMAIN silver : a \in DOMAIN silver' /\ silver'[a] = silver[a]

LEMMA SilverOnlyGrows ==
    ASSUME SilverTypes, [StreamNext]_streamVars
    PROVE  SilverGrows
<1>1. silver \in Seq(Ranges(Nat)) /\ Len(silver) \in Nat /\ DOMAIN silver = 1..Len(silver)
  BY DEF SilverTypes
<1>2. CASE SilverWrites
  <2>1. silver' = Append(silver, Batch)
    BY <1>2 DEF SilverWrites
  <2> HIDE DEF Batch
  <2> QED  BY <1>1, <2>1 DEF SilverGrows
<1>3. ASSUME UNCHANGED silver PROVE SilverGrows
  BY <1>1, <1>3 DEF SilverGrows
<1>4. CASE Outside \/ StartBronze \/ BronzeSteps \/ StartAlerts \/ AlertsWrite
  BY <1>3, <1>4 DEF Outside, Produce, BronzeDies, SilverDies, AlertsDie,
     BronzeCheckpointLost, SilverCheckpointLost, StartBronze, BronzeSteps, BronzePlans,
     BronzeDone, BronzeWrites, BronzeCommits, StartAlerts, AlertsWrite, silverVars
<1>5. CASE StartSilver \/ SilverPlans \/ SilverDone \/ SilverQuarantines \/ SilverCommits
           \/ UNCHANGED streamVars
  BY <1>3, <1>5 DEF StartSilver, SilverPlans, SilverDone, SilverQuarantines, SilverCommits,
     streamVars, silverVars
<1> QED  BY <1>2, <1>4, <1>5 DEF StreamNext, SilverSteps

LEMMA SilverReachedStep ==
    ASSUME SoundSilver, SilverReached, [StreamNext]_streamVars
    PROVE  SilverReached'
<1>1. SilverGrows
  BY SilverOnlyGrows DEF SoundSilver
<1>2. ASSUME silverRun' = silverRun PROVE SilverReached'
  BY <1>1, <1>2 DEF SilverReached, SilverGrows, Covers
<1>3. ASSUME silverRun'.pc # "succeeded" PROVE SilverReached'
  BY <1>3 DEF SilverReached
<1>4. silverRun \in Runs(Nat, {"select", "write", "quarantine", "commit"})
  BY DEF SoundSilver, SilverTypes
<1>5. CASE StartSilver
  BY <1>3, <1>5 DEF StartSilver
<1>6. CASE SilverPlans \/ SilverQuarantines \/ SilverCommits \/ SilverDies
  BY <1>3, <1>4, <1>6 DEF SilverPlans, SilverQuarantines, SilverCommits, SilverDies, Runs
<1>7. CASE SilverWrites
  <2>1. silverRun'.pc \in {"quarantine", "commit"}
    BY <1>4, <1>7 DEF SilverWrites, Runs
  <2> QED  BY <1>3, <2>1
<1>8. CASE SilverDone
  <2>1. /\ conforming.done = silverRun.target /\ silver' = silver
        /\ silverRun' = [silverRun EXCEPT !.pc = "succeeded"]
    BY <1>8 DEF SilverDone
  <2>2. silverRun'.target = conforming.done
    BY <2>1, <1>4 DEF Runs
  <2> QED  BY <2>1, <2>2 DEF SilverReached, SoundSilver, NothingBehind, Covers
<1>9. CASE \/ \E p \in Partitions, t \in Transactions : Produce(p, t)
           \/ BronzeDies \/ AlertsDie \/ BronzeCheckpointLost \/ SilverCheckpointLost
  BY <1>2, <1>9 DEF Produce, BronzeDies, AlertsDie, BronzeCheckpointLost,
     SilverCheckpointLost, silverVars
<1>10. CASE StartBronze \/ BronzeSteps \/ StartAlerts \/ AlertsWrite \/ UNCHANGED streamVars
  BY <1>2, <1>10 DEF StartBronze, BronzeSteps, BronzePlans, BronzeDone, BronzeWrites,
     BronzeCommits, StartAlerts, AlertsWrite, streamVars, silverVars
<1> QED  BY <1>5, <1>6, <1>7, <1>8, <1>9, <1>10 DEF StreamNext, Outside, SilverSteps

\* No later message makes silver's first appends ones with something to report.
LEMMA AlertsAreSettled ==
    ASSUME Topic, Topic', LogGrows, BronzeGrows, SilverGrows, SoundBronze, SoundSilver,
           NEW n \in Nat, n <= Len(silver)
    PROVE  HasAlerts(n)' <=> HasAlerts(n)
<1>1. \A a \in 1..n : a \in DOMAIN silver /\ silver'[a] = silver[a]
  BY DEF SilverGrows, SoundSilver, SilverTypes
<1>2. Conformed(n)' = Conformed(n)
  BY <1>1 DEF Conformed
<1>3. \A i \in Conformed(n) : i \in DOMAIN bronze /\ bronze'[i] = bronze[i]
  <2> SUFFICES ASSUME NEW a \in 1..n, NEW i \in silver[a].from + 1..silver[a].to
               PROVE  i \in DOMAIN bronze /\ bronze'[i] = bronze[i]
    BY DEF Conformed
  <2>1. silver[a].from \in Nat /\ silver[a].to \in Nat /\ silver[a].to <= Len(bronze)
    BY <1>1, SilverCounts DEF SoundSilver, SoundBronze, SilverNumbers, WithinBronze, InTable
  <2>2. i \in DOMAIN bronze
    BY <2>1 DEF SoundBronze, BronzeTypes
  <2> QED  BY <2>2 DEF BronzeGrows
<1>4. ASSUME HasAlerts(n)' PROVE HasAlerts(n)
  <2>1. PICK i \in Conformed(n), po \in Messages' :
           Holds(bronze'[i], po) /\ Alerting(log'[po[1]][po[2]])
    BY <1>2, <1>4 DEF HasAlerts, Holds, PayloadAt
  <2> QED  BY <1>3, <2>1, HeldIsSettled DEF HasAlerts, PayloadAt, SoundBronze
<1>5. ASSUME HasAlerts(n) PROVE HasAlerts(n)'
  <2>1. PICK i \in Conformed(n), po \in Messages :
           Holds(bronze[i], po) /\ Alerting(log[po[1]][po[2]])
    BY <1>5 DEF HasAlerts, PayloadAt
  <2>2. po \in Messages' /\ log'[po[1]][po[2]] = log[po[1]][po[2]]
    BY BoundsAssumption DEF Messages, LogGrows, Topic
  <2> QED  BY <1>2, <1>3, <2>1, <2>2 DEF HasAlerts, PayloadAt, Holds
<1> QED  BY <1>4, <1>5

LEMMA AlertsReachedStep ==
    ASSUME Topic, SoundBronze, SoundSilver, WithinSilver, AlertsReached, [StreamNext]_streamVars
    PROVE  AlertsReached'
<1>1. /\ Topic' /\ LogGrows /\ BronzeGrows /\ SilverGrows
      /\ Len(silver) \in Nat
  BY TopicStep, BronzeOnlyGrows, SilverOnlyGrows DEF SoundBronze, SoundSilver, SilverTypes
<1>2. alertRun \in Runs(0..Len(silver), {"write"}) /\ alertRun.target \in 0..Len(silver)
  BY DEF WithinSilver, Runs
<1>3. PICK n : n = alertRun.target /\ n \in Nat /\ n <= Len(silver)
  BY <1>1, <1>2
<1>4. HasAlerts(n)' <=> HasAlerts(n)
  BY <1>1, <1>3, AlertsAreSettled
<1>5. ASSUME UNCHANGED alertVars PROVE AlertsReached'
  <2>1. alertRun' = alertRun /\ alerts' = alerts
    BY <1>5 DEF alertVars
  <2> SUFFICES ASSUME alertRun.pc = "succeeded", HasAlerts(n)'
               PROVE  alerts = n
    BY <1>3, <2>1 DEF AlertsReached, HasAlerts, Conformed
  <2> QED  BY <1>3, <1>4 DEF AlertsReached
<1>6. ASSUME alertRun'.pc # "succeeded" PROVE AlertsReached'
  BY <1>6 DEF AlertsReached
<1>7. CASE StartAlerts
  BY <1>6, <1>7 DEF StartAlerts
<1>8. CASE AlertsDie
  BY <1>2, <1>6, <1>8 DEF AlertsDie, Runs
<1>9. CASE AlertsWrite
  <2>1. /\ alerts' = IF HasAlerts(n) THEN n ELSE alerts
        /\ alertRun' = [alertRun EXCEPT !.pc = "succeeded"]
    BY <1>3, <1>9 DEF AlertsWrite
  <2>2. alertRun'.target = n
    BY <1>2, <1>3, <2>1 DEF Runs
  <2> SUFFICES ASSUME HasAlerts(n)' PROVE alerts' = n
    BY <2>2 DEF AlertsReached, HasAlerts, Conformed
  <2> QED  BY <1>4, <2>1
<1>10. CASE \/ \E p \in Partitions, t \in Transactions : Produce(p, t)
            \/ BronzeDies \/ SilverDies \/ BronzeCheckpointLost \/ SilverCheckpointLost
  BY <1>5, <1>10 DEF Produce, BronzeDies, SilverDies, BronzeCheckpointLost, SilverCheckpointLost
<1>11. CASE StartBronze \/ BronzeSteps \/ StartSilver \/ SilverSteps \/ UNCHANGED streamVars
  BY <1>5, <1>11 DEF StartBronze, BronzeSteps, BronzePlans, BronzeDone, BronzeWrites,
     BronzeCommits, StartSilver, SilverSteps, SilverPlans, SilverDone, SilverWrites,
     SilverQuarantines, SilverCommits, streamVars
<1> QED  BY <1>7, <1>8, <1>9, <1>10, <1>11 DEF StreamNext, Outside

(***************************************************************************)
(* The schedule.                                                           *)
(***************************************************************************)

\* What the scheduler does to the stream, the stream may do by itself.
LEMMA SchedulerTakesStreamSteps == [DagNext]_allVars => [StreamNext]_streamVars
<1> QED  BY DEF DagNext, allVars, Airflow, Begin, StartStage, StageSucceeds, StageFails, Jobs,
     StreamNext

\* A job keeps the target it was started with, and one that has ended makes no
\* step and adds nothing to its table.
JobsKeepTo ==
    /\ silverRun'.target = silverRun.target /\ alertRun'.target = alertRun.target
    /\ bronzeRun.pc \in Ended => bronzeRun' = bronzeRun /\ bronze' = bronze
    /\ silverRun.pc \in Ended => silverRun' = silverRun /\ silver' = silver
    /\ alertRun.pc \in Ended => alertRun' = alertRun

LEMMA JobsKeep ==
    ASSUME SoundSilver, WithinSilver, Jobs \/ Outside
    PROVE  JobsKeepTo
<1> USE DEF JobsKeepTo, Ended
<1>0. \A pc : /\ [silverRun EXCEPT !.pc = pc].target = silverRun.target
              /\ [alertRun EXCEPT !.pc = pc].target = alertRun.target
  BY DEF SoundSilver, SilverTypes, WithinSilver, Runs
<1>1. CASE \E p \in Partitions, t \in Transactions : Produce(p, t)
  BY <1>1 DEF Produce, bronzeVars, silverVars, alertVars
<1>2. CASE BronzeDies \/ SilverDies \/ AlertsDie
  BY <1>0, <1>2 DEF BronzeDies, SilverDies, AlertsDie, bronzeVars, silverVars, alertVars
<1>3. CASE BronzeCheckpointLost \/ SilverCheckpointLost
  BY <1>3 DEF BronzeCheckpointLost, SilverCheckpointLost, bronzeVars, silverVars, alertVars
<1>4. CASE BronzeSteps
  BY <1>4 DEF BronzeSteps, BronzePlans, BronzeDone, BronzeWrites, BronzeCommits,
     silverVars, alertVars
<1>5. CASE SilverSteps
  BY <1>0, <1>5 DEF SilverSteps, SilverPlans, SilverDone, SilverWrites, SilverQuarantines,
     SilverCommits, bronzeVars, alertVars
<1>6. CASE AlertsWrite
  BY <1>0, <1>6 DEF AlertsWrite, bronzeVars, silverVars
<1> QED  BY <1>1, <1>2, <1>3, <1>4, <1>5, <1>6 DEF Jobs, Outside

\* The type invariant, job by job; and an attempt is one of a task.
Scheduled ==
    /\ stage \in 0..3 /\ try \in 1..Retries + 1
    /\ started \in BOOLEAN /\ outcome \in {"none", "success", "failed"}
    /\ started => stage # 0
    /\ bronzeRun.pc \notin Ended => stage = 1 /\ started
    /\ silverRun.pc \notin Ended => stage = 2 /\ started
    /\ alertRun.pc \notin Ended => stage = 3 /\ started

LEMMA ScheduledIsTyped ==
    ASSUME Scheduled, StreamTypeOK
    PROVE  DagTypeOK
<1>1. \A s \in Stages : s = 1 \/ s = 2 \/ s = 3
  BY DEF Stages
<1>2. stage \in Stages \cup {0}
  BY DEF Stages, Scheduled
<1>3. JobOf[1] = bronzeRun.pc /\ JobOf[2] = silverRun.pc /\ JobOf[3] = alertRun.pc
  BY DEF JobOf
<1>4. ASSUME NEW s \in Stages, JobOf[s] \notin Ended PROVE stage = s /\ started
  BY <1>1, <1>3, <1>4 DEF Scheduled
<1> QED  BY <1>2, <1>4 DEF DagTypeOK, Scheduled

\* A stage reads what its DAG run's earlier stages have reached: they are done,
\* and nothing has been added to what they wrote.
InOrder ==
    /\ stage \in {2, 3} => bronzeRun.pc = "succeeded"
    /\ stage = 2 /\ started => silverRun.target = Len(bronze)
    /\ stage = 3 => silverRun.pc = "succeeded" /\ silverRun.target = Len(bronze)
    /\ stage = 3 /\ started => alertRun.target = Len(silver)

LEMMA ScheduleStep ==
    ASSUME Scheduled, InOrder, SoundSilver, WithinSilver, [DagNext]_allVars
    PROVE  Scheduled' /\ InOrder'
<1> USE DEF InOrder, Ended
<1> USE DEF Scheduled
<1>0. Retries \in Nat /\ 1 \in 1..Retries + 1
  BY RetriesAssumption
<1>1. CASE Begin
  <2>1. /\ UNCHANGED <<bronzeRun, silverRun, alertRun, bronze, silver, outcome>>
        /\ stage' = 1 /\ try' = 1 /\ started' = FALSE
    BY <1>1 DEF Begin, streamVars, bronzeVars, silverVars, alertVars
  <2>2. stage = 0
    BY <1>1 DEF Begin
  <2>3. started' \in BOOLEAN
    BY <2>1
  <2>4. try' \in 1..Retries + 1
    BY <1>0, <2>1
  <2>5. stage' \in 0..3
    BY <2>1
  <2>6. Scheduled'
    BY <2>1, <2>2, <2>3, <2>4, <2>5
  <2> QED  BY <2>1, <2>6
<1>2. CASE StartStage
  <2>1. CASE stage = 1
    BY <1>2, <2>1 DEF StartStage, StartBronze, silverVars, alertVars
  <2>2. CASE stage = 2
    BY <1>2, <2>2 DEF StartStage, StartSilver, bronzeVars, alertVars
  <2>3. CASE stage = 3
    BY <1>2, <2>3 DEF StartStage, StartAlerts, bronzeVars, silverVars
  <2> QED  BY <1>2, <2>1, <2>2, <2>3 DEF StartStage
<1>3. JobOf[1] = bronzeRun.pc /\ JobOf[2] = silverRun.pc /\ JobOf[3] = alertRun.pc
  BY DEF JobOf
<1>4. CASE StageSucceeds
  <2>1. /\ UNCHANGED streamVars /\ try' = 1 /\ started' = FALSE
        /\ stage = 3 => stage' = 0 /\ outcome' = "success"
        /\ stage # 3 => stage' = stage + 1 /\ outcome' = outcome
        /\ JobOf[stage] = "succeeded"
    BY <1>4 DEF StageSucceeds
  <2>2. /\ bronzeRun' = bronzeRun /\ silverRun' = silverRun /\ alertRun' = alertRun
        /\ bronze' = bronze /\ silver' = silver
    BY <2>1 DEF streamVars, bronzeVars, silverVars, alertVars
  <2>3. started' \in BOOLEAN
    BY <2>1
  <2>4. try' \in 1..Retries + 1
    BY <1>0, <2>1
  <2>5. stage # 0 /\ stage \in 0..3
    BY <1>4 DEF StageSucceeds
  <2>6. /\ bronzeRun.pc \in Ended /\ silverRun.pc \in Ended /\ alertRun.pc \in Ended
        /\ stage = 1 => bronzeRun.pc = "succeeded"
        /\ stage = 2 => silverRun.pc = "succeeded"
    BY <1>3, <2>1, <2>5
  <2>7. stage' = IF stage = 3 THEN 0 ELSE stage + 1
    BY <2>1
  <2>8. stage' \in 0..3
    BY <2>5, <2>7
  <2>9. Scheduled'
    BY <2>1, <2>2, <2>3, <2>4, <2>6, <2>8
  <2>10. InOrder'
    <3>1. stage' \in {2, 3} => bronzeRun.pc = "succeeded"
      BY <2>5, <2>6, <2>7
    <3>2. stage' = 3 => silverRun.pc = "succeeded" /\ silverRun.target = Len(bronze)
      <4>1. stage' = 3 => stage = 2
        BY <2>5, <2>7
      <4>2. started
        BY <1>4 DEF StageSucceeds
      <4> QED  BY <2>6, <4>1, <4>2
    <3> QED  BY <2>1, <2>2, <3>1, <3>2
  <2> QED  BY <2>9, <2>10
<1>5. CASE StageFails
  <2>1. /\ UNCHANGED streamVars /\ started' = FALSE
        /\ IF try <= Retries THEN try' = try + 1 /\ stage' = stage /\ outcome' = outcome
                             ELSE stage' = 0 /\ try' = 1 /\ outcome' = "failed"
        /\ JobOf[stage] = "failed"
    BY <1>5 DEF StageFails
  <2>2. /\ bronzeRun' = bronzeRun /\ silverRun' = silverRun /\ alertRun' = alertRun
        /\ bronze' = bronze /\ silver' = silver
    BY <2>1 DEF streamVars, bronzeVars, silverVars, alertVars
  <2>3. started' \in BOOLEAN
    BY <2>1
  <2>4. try' \in 1..Retries + 1
    <3>1. try \in 1..Retries + 1
      OBVIOUS
    <3>2. try' = IF try <= Retries THEN try + 1 ELSE 1
      BY <2>1
    <3> QED  BY <1>0, <3>1, <3>2
  <2>5. stage' \in {0, stage} /\ outcome' \in {"failed", outcome} /\ stage \in 0..3
    BY <2>1
  <2>6. bronzeRun.pc \in Ended /\ silverRun.pc \in Ended /\ alertRun.pc \in Ended
    BY <1>3, <2>1, <2>5
  <2>7. Scheduled'
    BY <2>1, <2>2, <2>3, <2>4, <2>5, <2>6
  <2>8. InOrder'
    BY <2>1, <2>2, <2>5
  <2> QED  BY <2>7, <2>8
<1>6. CASE (Jobs \/ Outside) /\ UNCHANGED dagVars
  <2>1. JobsKeepTo /\ UNCHANGED dagVars
    BY <1>6, JobsKeep
  <2> QED  BY <2>1 DEF JobsKeepTo, dagVars
<1>7. CASE UNCHANGED allVars
  BY <1>7 DEF allVars, dagVars, streamVars, bronzeVars, silverVars, alertVars
<1> QED  BY <1>1, <1>2, <1>4, <1>5, <1>6, <1>7 DEF DagNext, Airflow

(***************************************************************************)
(* The theorems.                                                           *)
(***************************************************************************)
DagInvariant ==
    /\ Topic /\ SoundBronze /\ SoundSilver /\ WithinSilver
    /\ BronzeReached /\ SilverReached /\ AlertsReached
    /\ Scheduled /\ InOrder

\* Everything that is proved of the stream holds of it under its schedule.
THEOREM ScheduleIsStream == DagSpec => StreamSpec
<1>1. DagInit => StreamInit
  BY DEF DagInit
<1> QED  BY <1>1, SchedulerTakesStreamSteps, PTL DEF DagSpec, StreamSpec

\* The inductive invariant of the schedule: the stream's own, how far each stage of
\* the current run has got, and which job may be at work.
THEOREM ScheduledStreamIsSound == DagSpec => []DagInvariant
<1>1. DagInit => DagInvariant
  <2> SUFFICES ASSUME DagInit PROVE DagInvariant
    OBVIOUS
  <2>1. /\ StreamInit
        /\ stage = 0 /\ try = 1 /\ started = FALSE /\ outcome = "none"
    BY DEF DagInit
  <2>2. bronzeRun.pc = "idle" /\ silverRun.pc = "idle" /\ alertRun.pc = "idle"
    BY <2>1 DEF StreamInit
  <2>3. WithinSilver
    BY <2>1 DEF StreamInit, WithinSilver, Runs, Ended
  <2>4. Topic /\ SoundBronze /\ SoundSilver
    BY <2>1, TopicInit, BronzeInit, SilverInit
  <2>5. BronzeReached /\ SilverReached /\ AlertsReached
    BY <2>2 DEF BronzeReached, SilverReached, AlertsReached
  <2>6. try \in 1..Retries + 1
    BY <2>1, RetriesAssumption
  <2>7. started \in BOOLEAN
    BY <2>1
  <2>8. Scheduled /\ InOrder
    BY <2>1, <2>2, <2>6, <2>7 DEF Scheduled, InOrder, Ended
  <2> QED  BY <2>3, <2>4, <2>5, <2>8 DEF DagInvariant
<1>2. DagInvariant /\ [DagNext]_allVars => DagInvariant'
  <2> SUFFICES ASSUME DagInvariant, [DagNext]_allVars PROVE DagInvariant'
    OBVIOUS
  <2> USE DEF DagInvariant
  <2>1. [StreamNext]_streamVars
    BY SchedulerTakesStreamSteps
  <2>2. Topic' /\ SoundBronze' /\ SoundSilver'
    BY <2>1, TopicStep, BronzeStep, SilverStep
  <2>3. WithinSilver'
    BY <2>1, <2>2, AlertsStep DEF SoundBronze, SoundSilver
  <2>4. BronzeReached' /\ SilverReached' /\ AlertsReached'
    BY <2>1, BronzeReachedStep, SilverReachedStep, AlertsReachedStep
  <2>5. Scheduled' /\ InOrder'
    BY ScheduleStep
  <2> QED  BY <2>2, <2>3, <2>4, <2>5
<1> QED  BY <1>1, <1>2, PTL DEF DagSpec

\* The tables, checkpoints and the schedule are well-formed, and no job of the
\* stream runs outside the task of it.
THEOREM StreamScheduleIsTyped == DagSpec => []DagTypeOK
<1>1. DagInvariant => DagTypeOK
  BY ScheduledIsTyped, SoundIsTyped DEF DagInvariant
<1> QED  BY <1>1, ScheduledStreamIsSound, PTL

\* A DAG run that succeeds has screened what was on the topic when it began:
\* bronze reached its target, silver all of bronze, and the rule all of silver.
THEOREM ScreeningFollowsTopic == DagSpec => AlertsFollowTopic
<1> DEFINE Success == stage = 3 /\ outcome' = "success" /\ stage' = 0
           Screening == \A po \in Messages :
               po[2] <= bronzeRun.target[po[1]] /\ Alerting(PayloadAt(po)) => InAlerts(po)
<1>1. DagInvariant /\ [DagNext]_allVars => [Success => Screening]_allVars
  <2> SUFFICES ASSUME DagInvariant, DagNext, Success, NEW po \in Messages,
                      po[2] <= bronzeRun.target[po[1]], Alerting(PayloadAt(po))
               PROVE  InAlerts(po)
    OBVIOUS
  <2>1. StageSucceeds
    <3>1. ~Begin /\ ~StartStage
      BY DEF Begin, StartStage
    <3>2. ~StageFails
      BY DEF StageFails
    <3>3. ~UNCHANGED dagVars
      BY DEF dagVars
    <3> QED  BY <3>1, <3>2, <3>3 DEF DagNext, Airflow
  <2>2. started /\ alertRun.pc = "succeeded"
    BY <2>1 DEF StageSucceeds, JobOf
  <2>3. /\ bronzeRun.pc = "succeeded" /\ silverRun.pc = "succeeded"
        /\ silverRun.target = Len(bronze) /\ alertRun.target = Len(silver)
    BY <2>2 DEF DagInvariant, InOrder
  <2>4. po[1] \in Partitions /\ po[2] \in Nat /\ po[2] >= 1 /\ po = <<po[1], po[2]>>
    BY BoundsAssumption DEF Messages
  <2>5. bronzeRun.target[po[1]] \in Nat
    BY <2>4, BronzeCounts DEF DagInvariant, SoundBronze, BronzeNumbers
  <2>6. PICK i \in DOMAIN bronze : Holds(bronze[i], po)
    <3>1. po[2] \in 1..bronzeRun.target[po[1]]
      BY <2>4, <2>5
    <3> QED  BY <2>3, <2>4, <3>1 DEF DagInvariant, BronzeReached
  <2>7. i \in Conformed(Len(silver))
    <3>1. i \in 1..silverRun.target
      BY <2>3 DEF DagInvariant, SoundBronze, BronzeTypes
    <3>2. PICK a \in DOMAIN silver : silver[a].from < i /\ i <= silver[a].to
      BY <2>3, <3>1 DEF DagInvariant, SilverReached, Covers
    <3>3. a \in 1..Len(silver) /\ silver[a].from \in Nat /\ silver[a].to \in Nat /\ i \in Nat
      <4>1. SilverTypes /\ BronzeTypes
        BY <2>3 DEF DagInvariant, SoundSilver, SoundBronze
      <4>2. silver[a].from \in Nat /\ silver[a].to \in Nat
        BY <3>2, <4>1, SilverCounts DEF SilverNumbers
      <4>3. a \in 1..Len(silver)
        BY <3>2, <4>1 DEF SilverTypes
      <4>4. silverRun.target \in Nat
        BY <4>1, SilverCounts DEF SilverNumbers
      <4> QED  BY <3>1, <4>2, <4>3, <4>4
    <3>4. i \in silver[a].from + 1..silver[a].to
      BY <3>2, <3>3
    <3> QED  BY <3>3, <3>4 DEF Conformed
  <2>8. HasAlerts(Len(silver))
    BY <2>6, <2>7 DEF HasAlerts
  <2>9. alerts = Len(silver)
    BY <2>2, <2>3, <2>8 DEF DagInvariant, AlertsReached
  <2> QED  BY <2>6, <2>7, <2>9 DEF InAlerts
<1>2. DagSpec => [][DagNext]_allVars
  BY PTL DEF DagSpec
<1> HIDE DEF Success, Screening
<1>3. DagSpec => [][Success => Screening]_allVars
  BY <1>1, <1>2, ScheduledStreamIsSound, PTL
<1> QED  BY <1>3 DEF AlertsFollowTopic, Success, Screening
=============================================================================
