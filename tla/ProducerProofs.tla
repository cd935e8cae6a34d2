---------------------------- MODULE ProducerProofs ---------------------------
(***************************************************************************)
(* Proofs about Producer, for every file, every number of partitions, any  *)
(* queue, and any number of faults.                                        *)
(***************************************************************************)
EXTENDS Producer, Induction, SequenceTheorems

(***************************************************************************)
(* Event time: numbering the rows by how many come earlier sorts them.     *)
(***************************************************************************)
LEMMA FileRows ==
    ASSUME NEW file \in Csvs
    PROVE  /\ Len(file) \in Nat /\ DOMAIN file = 1..Len(file)
           /\ \A i \in 1..Len(file) : /\ file[i].step \in Int /\ file[i] \in CsvRows
                                      /\ PartitionOf[file[i].name_orig] \in Partitions
<1>1. file \in Seq(Range(file))
  BY ProducerAssumption
<1>2. Len(file) \in Nat /\ DOMAIN file = 1..Len(file)
  BY <1>1
<1>3. \A i \in 1..Len(file) : file[i] \in CsvRows
  BY <1>2 DEF CsvRows, Range
<1> QED  BY <1>2, <1>3, ProducerAssumption

\* Of two rows one is the earlier, and it comes in an earlier place.
LEMMA EarlierRowsComeFirst ==
    ASSUME NEW file \in Csvs, NEW i \in 1..Len(file), NEW j \in 1..Len(file)
    PROVE  /\ Place(file, i) \in 1..Len(file)
           /\ Earlier(file, i, j) => Place(file, i) < Place(file, j)
           /\ i # j => Earlier(file, i, j) \/ Earlier(file, j, i)
<1> DEFINE N == Len(file)
           Before(k) == {m \in 1..N : Earlier(file, m, k)}
<1>1. /\ N \in Nat /\ DOMAIN file = 1..N /\ \A k \in 1..N : file[k].step \in Int
  BY FileRows
<1>2. IsFiniteSet(1..N) /\ Cardinality(1..N) = N
  <2>1. 1 \in Int /\ N \in Int
    BY <1>1
  <2>2. IsFiniteSet(1..N) /\ Cardinality(1..N) = IF 1 > N THEN 0 ELSE N - 1 + 1
    BY <2>1, FS_Interval
  <2> HIDE DEF N
  <2> QED  BY <1>1, <2>2
<1>3. ASSUME NEW k \in 1..N
      PROVE  /\ IsFiniteSet(Before(k)) /\ Cardinality(Before(k)) \in 0..N - 1
             /\ Place(file, k) = Cardinality(Before(k)) + 1 /\ k \notin Before(k)
  <2>1. k \notin Before(k)
    BY <1>1 DEF Earlier
  <2>2. Before(k) \in SUBSET ((1..N) \ {k})
    BY <2>1
  <2>3. IsFiniteSet((1..N) \ {k}) /\ Cardinality((1..N) \ {k}) = N - 1
    <3> DEFINE S == 1..N
    <3>1. IsFiniteSet(S) /\ Cardinality(S) = N /\ k \in S
      BY <1>2
    <3> HIDE DEF S
    <3>2. IsFiniteSet(S \ {k}) /\ Cardinality(S \ {k}) = Cardinality(S) - 1
      BY <3>1, FS_RemoveElement
    <3> QED  BY <3>1, <3>2 DEF S
  <2> HIDE DEF Before
  <2>4. IsFiniteSet(Before(k)) /\ Cardinality(Before(k)) <= N - 1
    BY <2>2, <2>3, FS_Subset
  <2>5. Cardinality(Before(k)) \in Nat
    BY <2>4, FS_CardinalityType
  <2>6. Place(file, k) = Cardinality(Before(k)) + 1
    BY <1>1 DEF Place, Before
  <2> QED  BY <1>1, <2>1, <2>4, <2>5, <2>6
<1>4. i # j => Earlier(file, i, j) \/ Earlier(file, j, i)
  BY <1>1 DEF Earlier
<1>5. ASSUME Earlier(file, i, j) PROVE Place(file, i) < Place(file, j)
  <2>1. Before(i) \cup {i} \in SUBSET Before(j)
    <3>1. ASSUME NEW m \in 1..N, Earlier(file, m, i) PROVE Earlier(file, m, j)
      <4>1. file[m].step \in Int /\ file[i].step \in Int /\ file[j].step \in Int
        BY <1>1
      <4> QED  BY <1>5, <3>1, <4>1 DEF Earlier
    <3> QED  BY <1>5, <3>1
  <2> HIDE DEF Before
  <2>2. /\ IsFiniteSet(Before(i)) /\ IsFiniteSet(Before(j)) /\ i \notin Before(i)
        /\ Cardinality(Before(i)) \in Nat /\ Cardinality(Before(j)) \in Nat
    BY <1>3
  <2>3. Cardinality(Before(i) \cup {i}) = Cardinality(Before(i)) + 1
    BY <2>2, FS_AddElement
  <2>4. Cardinality(Before(i) \cup {i}) <= Cardinality(Before(j))
    BY <2>1, <2>2, FS_Subset
  <2>5. /\ Place(file, i) = Cardinality(Before(i)) + 1
        /\ Place(file, j) = Cardinality(Before(j)) + 1
    BY <1>3
  <2> QED  BY <2>2, <2>3, <2>4, <2>5
<1>6. Place(file, i) \in 1..N
  <2> HIDE DEF Before
  <2> QED  BY <1>1, <1>3
<1> QED  BY <1>4, <1>5, <1>6

LEMMA EveryPlaceIsTaken ==
    ASSUME NEW file \in Csvs, NEW k \in 1..Len(file)
    PROVE  \E i \in 1..Len(file) : Place(file, i) = k
<1> DEFINE N == Len(file)
           place == [i \in 1..N |-> Place(file, i)]
<1>1. N \in Nat /\ IsFiniteSet(1..N)
  BY FileRows, FS_Interval
<1>2. \A i, j \in 1..N : place[i] = place[j] => i = j
  <2> SUFFICES ASSUME NEW i \in 1..N, NEW j \in 1..N, i # j PROVE place[i] # place[j]
    OBVIOUS
  <2>1. Place(file, i) \in 1..N /\ Place(file, j) \in 1..N
    BY EarlierRowsComeFirst
  <2>2. Place(file, i) < Place(file, j) \/ Place(file, j) < Place(file, i)
    BY EarlierRowsComeFirst
  <2> QED  BY <2>1, <2>2
<1>3. place \in Injection(1..N, 1..N)
  <2>1. place \in [1..N -> 1..N]
    BY EarlierRowsComeFirst
  <2> HIDE DEF place, N
  <2> QED  BY <1>2, <2>1 DEF Injection, IsInjective
<1>4. place \in Surjection(1..N, 1..N)
  <2> HIDE DEF place, N
  <2> QED  BY <1>1, <1>3, FS_Injection
<1>5. \E i \in 1..N : place[i] = k
  <2> HIDE DEF place
  <2> QED  BY <1>4 DEF Surjection
<1> QED  BY <1>5

\* What is published is in event time, and every row of it has a partition.
Ordered(rows) ==
    /\ \E n \in Nat : DOMAIN rows = 1..n
    /\ \A m \in DOMAIN rows : /\ rows[m].step \in Int /\ rows[m] \in CsvRows
                              /\ PartitionOf[rows[m].name_orig] \in Partitions
    /\ \A m, o \in DOMAIN rows : m < o => rows[m].step <= rows[o].step

LEMMA PublishedInEventTime ==
    ASSUME NEW file \in Csvs
    PROVE  Ordered(RowsInEventTime(file))
<1> DEFINE N == Len(file)
           n == IF Limit = 0 \/ Limit > N THEN N ELSE Limit
           order == EventTimeOrder(file)
           rows == RowsInEventTime(file)
<1>1. /\ N \in Nat /\ DOMAIN file = 1..N /\ Limit \in Nat
      /\ \A i \in 1..N : /\ file[i].step \in Int /\ file[i] \in CsvRows
                         /\ PartitionOf[file[i].name_orig] \in Partitions
  BY FileRows, ProducerAssumption
<1>2. n \in Nat /\ 1..n \subseteq 1..N
  BY <1>1
<1>3. \A k \in 1..N : order[k] \in 1..N /\ Place(file, order[k]) = k
  <2> SUFFICES ASSUME NEW k \in 1..N
               PROVE  order[k] \in 1..N /\ Place(file, order[k]) = k
    OBVIOUS
  <2>1. order[k] = CHOOSE i \in 1..N : Place(file, i) = k
    BY <1>1 DEF EventTimeOrder
  <2>2. \E i \in 1..N : Place(file, i) = k
    BY EveryPlaceIsTaken
  <2> HIDE DEF order
  <2> QED  BY <2>1, <2>2
<1>4. rows = [i \in 1..n |-> file[order[i]]]
  BY DEF RowsInEventTime
<1> HIDE DEF order, rows, n
<1>5. \A m \in 1..n : rows[m] = file[order[m]] /\ order[m] \in 1..N
  BY <1>2, <1>3, <1>4
<1>6. ASSUME NEW m \in 1..n, NEW o \in 1..n, m < o PROVE rows[m].step <= rows[o].step
  <2> DEFINE i == order[m]  j == order[o]
  <2>1. i \in 1..N /\ j \in 1..N /\ Place(file, i) = m /\ Place(file, j) = o
    BY <1>2, <1>3
  <2> HIDE DEF i, j
  <2>2. Earlier(file, i, j)
    <3>1. i # j /\ ~(o < m)
      BY <1>2, <1>6, <2>1
    <3> QED  BY <2>1, <3>1, EarlierRowsComeFirst
  <2>3. file[i].step <= file[j].step
    BY <1>1, <2>1, <2>2 DEF Earlier
  <2> QED  BY <1>5, <2>3 DEF i, j
<1>7. DOMAIN rows = 1..n
  BY <1>4
<1>8. Ordered(rows)
  BY <1>1, <1>2, <1>5, <1>6, <1>7 DEF Ordered
<1> QED  BY <1>8 DEF rows

(***************************************************************************)
(* The client: its queue, and the requests it has in flight.               *)
(***************************************************************************)

\* One more, one less, and one put back at the front of a line.
LEMMA OneMore ==
    ASSUME NEW S, NEW s \in Seq(S), NEW x \in S
    PROVE  /\ Append(s, x) \in Seq(S) /\ Len(s) \in Nat
           /\ DOMAIN s = 1..Len(s) /\ DOMAIN Append(s, x) = 1..Len(s) + 1
           /\ Append(s, x)[Len(s) + 1] = x
           /\ \A i \in 1..Len(s) : Append(s, x)[i] = s[i]
<1> QED  OBVIOUS

LEMMA OneOff ==
    ASSUME NEW S, NEW s \in Seq(S), s # <<>>
    PROVE  /\ Tail(s) \in Seq(S) /\ Len(s) \in Nat /\ Len(s) >= 1
           /\ DOMAIN s = 1..Len(s) /\ DOMAIN Tail(s) = 1..Len(s) - 1
           /\ Head(s) = s[1] /\ s[1] \in S
           /\ \A i \in 1..Len(s) - 1 : i + 1 \in 1..Len(s) /\ Tail(s)[i] = s[i + 1]
<1>1. Len(s) \in Nat /\ Len(s) >= 1 /\ DOMAIN s = 1..Len(s) /\ s[1] \in S /\ Head(s) = s[1]
  OBVIOUS
<1>2. /\ Tail(s) \in Seq(S) /\ Len(Tail(s)) = Len(s) - 1
      /\ \A i \in 1..Len(Tail(s)) : Tail(s)[i] = s[i + 1]
  BY HeadTailProperties
<1> QED  BY <1>1, <1>2

LEMMA OneBack ==
    ASSUME NEW S, NEW s \in Seq(S), NEW x \in S
    PROVE  /\ <<x>> \o s \in Seq(S) /\ Len(s) \in Nat
           /\ DOMAIN s = 1..Len(s) /\ DOMAIN (<<x>> \o s) = 1..Len(s) + 1
           /\ (<<x>> \o s)[1] = x
           /\ \A i \in 2..Len(s) + 1 : i - 1 \in 1..Len(s) /\ (<<x>> \o s)[i] = s[i - 1]
<1>1. <<x>> \in Seq(S) /\ Len(<<x>>) = 1 /\ <<x>>[1] = x
  OBVIOUS
<1>2. Len(s) \in Nat /\ DOMAIN s = 1..Len(s)
  OBVIOUS
<1>3. /\ <<x>> \o s \in Seq(S) /\ Len(<<x>> \o s) = 1 + Len(s)
      /\ \A i \in 1..1 + Len(s) : (<<x>> \o s)[i] = IF i <= 1 THEN <<x>>[i] ELSE s[i - 1]
  BY <1>1, ConcatProperties
<1> QED  BY <1>1, <1>2, <1>3

Outcomes == {"sent", "written", "rejected"}
Requests == (1..sent) \X Outcomes

ClientTypes ==
    /\ Ordered(df)
    /\ status \in {"running", "done", "dead"}
    /\ sent \in Nat /\ 1..sent \subseteq Messages
    /\ queue \in Seq(1..sent)
    /\ flight \in Seq(Requests)
    /\ topic \in [Partitions -> Seq(Messages)]
    /\ status # "running" => queue = <<>> /\ flight = <<>>
    /\ status = "done" => Messages \subseteq 1..sent

\* A message handed to the client is on the topic or given up, unless the
\* client still has it.
Waiting(m) == \/ \E i \in DOMAIN queue : queue[i] = m
              \/ \E k \in DOMAIN flight : flight[k][1] = m
Accounted ==
    /\ status # "dead" => \A m \in 1..sent : m \in Written \cup expired \/ Waiting(m)
    /\ \A k \in DOMAIN flight : flight[k][2] = "written" => flight[k][1] \in Written

Asked(k) == flight[k][2] = "sent" /\ flight[k][1] \notin retried
Queued(i) == queue[i] \notin retried
Placed(p, i) == topic[p][i] \notin retried

\* The messages sent out once keep their order, on the topic, in the requests
\* not answered, and in the queue.
LineRises ==
    /\ \A i, j \in DOMAIN queue : i < j /\ Queued(i) /\ Queued(j) => queue[i] < queue[j]
    /\ \A k, l \in DOMAIN flight : k < l /\ Asked(k) /\ Asked(l) => flight[k][1] < flight[l][1]
    /\ \A k \in DOMAIN flight, i \in DOMAIN queue :
          Asked(k) /\ Queued(i) => flight[k][1] < queue[i]

TopicRises ==
    \A p \in Partitions :
        /\ \A i, j \in DOMAIN topic[p] :
              i < j /\ Placed(p, i) /\ Placed(p, j) => topic[p][i] < topic[p][j]
        /\ \A i \in DOMAIN topic[p] : Placed(p, i) =>
              /\ \A k \in DOMAIN flight : Asked(k) => topic[p][i] < flight[k][1]
              /\ \A j \in DOMAIN queue : Queued(j) => topic[p][i] < queue[j]
              /\ topic[p][i] <= sent

InPartition ==
    \A p \in Partitions : \A i \in DOMAIN topic[p] : PartitionOfMessage(topic[p][i]) = p

ClientInvariant == ClientTypes /\ Accounted /\ LineRises /\ TopicRises /\ InPartition

\* What the types come to.
LEMMA ClientFacts ==
    ASSUME ClientTypes
    PROVE  /\ Len(queue) \in Nat /\ DOMAIN queue = 1..Len(queue)
           /\ \A i \in DOMAIN queue : queue[i] \in 1..sent
           /\ Len(flight) \in Nat /\ DOMAIN flight = 1..Len(flight)
           /\ \A k \in DOMAIN flight : flight[k] \in Requests /\ flight[k][1] \in 1..sent
           /\ \A p \in Partitions :
                 /\ topic[p] \in Seq(Messages) /\ DOMAIN topic[p] = 1..Len(topic[p])
                 /\ Len(topic[p]) \in Nat
                 /\ \A i \in DOMAIN topic[p] : topic[p][i] \in Messages
           /\ \A m \in Messages : m \in Nat /\ m >= 1
           /\ \A m \in Messages : PartitionOfMessage(m) \in Partitions
           /\ sent \in Nat
<1>1. queue \in Seq(1..sent) /\ flight \in Seq(Requests) /\ sent \in Nat
  BY DEF ClientTypes
<1>2. \A k \in DOMAIN flight : flight[k] \in Requests
  BY <1>1
<1>3. \A r \in Requests : r[1] \in 1..sent
  BY DEF Requests
<1>4. \A m \in Messages : m \in Nat /\ m >= 1
  BY DEF ClientTypes, Ordered, Messages
<1>5. \A m \in Messages : PartitionOfMessage(m) \in Partitions
  BY DEF ClientTypes, Ordered, Messages, PartitionOfMessage, Row
<1>6. \A p \in Partitions : topic[p] \in Seq(Messages)
  BY DEF ClientTypes
<1> QED  BY <1>1, <1>2, <1>3, <1>4, <1>5, <1>6

LEMMA ClientStarts == ProducerInit => ClientInvariant
<1> SUFFICES ASSUME ProducerInit PROVE ClientInvariant
  OBVIOUS
<1> USE DEF ProducerInit
<1>1. Ordered(df)
  BY PublishedInEventTime
<1>2. /\ sent = 0 /\ queue = <<>> /\ flight = <<>> /\ status = "running"
      /\ topic = [p \in Partitions |-> <<>>]
  OBVIOUS
<1>3. ClientTypes
  BY <1>1, <1>2 DEF ClientTypes
<1>4. Accounted
  BY <1>2 DEF Accounted
<1>5. LineRises /\ TopicRises /\ InPartition
  BY <1>2 DEF LineRises, TopicRises, InPartition
<1> QED  BY <1>3, <1>4, <1>5 DEF ClientInvariant

\* Sequences over a set are sequences over a larger one.
LEMMA WiderSeq ==
    ASSUME NEW S, NEW T, S \subseteq T, NEW s \in Seq(S)
    PROVE  s \in Seq(T)
OBVIOUS

LEMMA ProduceStep ==
    ASSUME ClientInvariant, Produce
    PROVE  ClientInvariant'
<1> DEFINE N == Len(queue)
<1>1. ClientTypes /\ Accounted /\ LineRises /\ TopicRises /\ InPartition
  BY DEF ClientInvariant
<1>2. /\ status = "running" /\ sent + 1 \in Messages
      /\ queue' = Append(queue, sent + 1) /\ sent' = sent + 1
      /\ UNCHANGED <<df, status, flight, topic, retried, expired, faults>>
  BY DEF Produce
<1>3. sent \in Nat /\ 1..sent \subseteq Messages /\ queue \in Seq(1..sent)
  BY <1>1 DEF ClientTypes
<1>4. 1..sent + 1 = 1..sent \cup {sent + 1}
  BY <1>3
<1>5. queue \in Seq(1..sent + 1) /\ flight \in Seq((1..sent + 1) \X Outcomes)
  <2>1. Requests \subseteq (1..sent + 1) \X Outcomes /\ flight \in Seq(Requests)
    BY <1>1, <1>4 DEF Requests, ClientTypes
  <2>2. flight \in Seq((1..sent + 1) \X Outcomes)
    BY <2>1, WiderSeq
  <2> QED  BY <2>2, <1>3, <1>4, WiderSeq
<1>6. /\ queue' \in Seq(1..sent + 1) /\ N \in Nat
      /\ DOMAIN queue = 1..N /\ DOMAIN queue' = 1..N + 1 /\ queue'[N + 1] = sent + 1
      /\ \A i \in 1..N : queue'[i] = queue[i]
  BY <1>2, <1>3, <1>4, <1>5, OneMore
<1> HIDE DEF N
<1>7. ClientTypes'
  <2>1. Ordered(df') /\ topic' \in [Partitions -> Seq(Messages')] /\ Messages' = Messages
    BY <1>1, <1>2 DEF ClientTypes, Messages
  <2>2. /\ sent' \in Nat /\ 1..sent' \subseteq Messages' /\ queue' \in Seq(1..sent')
        /\ flight' \in Seq(Requests')
    BY <1>2, <1>3, <1>4, <1>5, <1>6, <2>1 DEF Requests
  <2> QED  BY <1>2, <2>1, <2>2 DEF ClientTypes
<1>8. Accounted'
  <2>1. Written' = Written /\ expired' = expired /\ flight' = flight
    BY <1>2 DEF Written
  <2>2. ASSUME NEW m \in 1..sent + 1 PROVE m \in Written' \cup expired' \/ Waiting(m)'
    <3>1. CASE m = sent + 1
      BY <1>6, <3>1 DEF Waiting
    <3>2. CASE m \in 1..sent
      <4>1. m \in Written \cup expired \/ Waiting(m)
        BY <1>1, <1>2, <3>2 DEF Accounted
      <4>2. Waiting(m) => Waiting(m)'
        BY <1>6, <2>1 DEF Waiting
      <4> QED  BY <2>1, <4>1, <4>2
    <3> QED  BY <1>4, <3>1, <3>2
  <2> QED  BY <1>1, <1>2, <2>1, <2>2 DEF Accounted
<1>9. /\ \A i \in DOMAIN queue : queue[i] <= sent
      /\ \A k \in DOMAIN flight : flight[k][1] \in 1..sent
      /\ \A i \in DOMAIN queue : queue[i] \in 1..sent
  BY <1>1, <1>3, ClientFacts
<1>10. LineRises'
  <2>1. \A i \in DOMAIN queue' : \/ i \in DOMAIN queue /\ queue'[i] = queue[i]
                                 \/ i = N + 1 /\ queue'[i] = sent + 1
    BY <1>6
  <2>2. /\ \A i, j \in DOMAIN queue : i < j /\ Queued(i) /\ Queued(j) => queue[i] < queue[j]
        /\ \A k, l \in DOMAIN flight : k < l /\ Asked(k) /\ Asked(l) => flight[k][1] < flight[l][1]
        /\ \A k \in DOMAIN flight, i \in DOMAIN queue :
              Asked(k) /\ Queued(i) => flight[k][1] < queue[i]
    BY <1>1 DEF LineRises
  <2>3. ASSUME NEW i \in DOMAIN queue', NEW j \in DOMAIN queue', i < j,
               queue'[i] \notin retried, queue'[j] \notin retried
        PROVE  queue'[i] < queue'[j]
    <3>1. i \in DOMAIN queue
      BY <1>6, <2>1, <2>3
    <3>2. CASE j \in DOMAIN queue
      BY <1>6, <2>2, <2>3, <3>1, <3>2 DEF Queued
    <3>3. CASE j = N + 1
      BY <1>3, <1>6, <1>9, <3>1, <3>3
    <3> QED  BY <2>1, <3>2, <3>3
  <2>4. ASSUME NEW k \in DOMAIN flight, NEW i \in DOMAIN queue', Asked(k), queue'[i] \notin retried
        PROVE  flight[k][1] < queue'[i]
    <3>1. CASE i \in DOMAIN queue
      BY <1>6, <2>2, <2>4, <3>1 DEF Queued
    <3>2. CASE i = N + 1
      BY <1>3, <1>6, <1>9, <3>2
    <3> QED  BY <2>1, <3>1, <3>2
  <2> QED  BY <1>2, <2>2, <2>3, <2>4 DEF LineRises, Asked, Queued
<1>11. TopicRises'
  <2> SUFFICES ASSUME NEW p \in Partitions
               PROVE  /\ \A i, j \in DOMAIN topic[p] :
                            i < j /\ Placed(p, i) /\ Placed(p, j) => topic[p][i] < topic[p][j]
                      /\ \A i \in DOMAIN topic[p] : Placed(p, i) =>
                            /\ \A k \in DOMAIN flight : Asked(k) => topic[p][i] < flight[k][1]
                            /\ \A j \in DOMAIN queue' :
                                  queue'[j] \notin retried => topic[p][i] < queue'[j]
                            /\ topic[p][i] <= sent + 1
    BY <1>2 DEF TopicRises, Placed, Asked, Queued
  <2>1. /\ \A i, j \in DOMAIN topic[p] :
              i < j /\ Placed(p, i) /\ Placed(p, j) => topic[p][i] < topic[p][j]
        /\ \A i \in DOMAIN topic[p] : Placed(p, i) =>
              /\ \A k \in DOMAIN flight : Asked(k) => topic[p][i] < flight[k][1]
              /\ \A j \in DOMAIN queue : Queued(j) => topic[p][i] < queue[j]
              /\ topic[p][i] <= sent
    BY <1>1 DEF TopicRises
  <2>2. ASSUME NEW i \in DOMAIN topic[p], Placed(p, i)
        PROVE  /\ \A j \in DOMAIN queue' :
                     queue'[j] \notin retried => topic[p][i] < queue'[j]
               /\ topic[p][i] <= sent + 1
    <3>1. topic[p][i] \in Nat /\ topic[p][i] <= sent
      BY <1>1, <2>1, <2>2, ClientFacts
    <3>2. \A j \in 1..N : queue[j] \notin retried => topic[p][i] < queue[j]
      BY <1>6, <2>1, <2>2 DEF Queued
    <3> QED  BY <1>3, <1>6, <3>1, <3>2
  <2> QED  BY <2>1, <2>2
<1>12. InPartition'
  BY <1>1, <1>2 DEF InPartition, PartitionOfMessage, Row
<1> QED  BY <1>7, <1>8, <1>10, <1>11, <1>12 DEF ClientInvariant

LEMMA FinishStep ==
    ASSUME ClientInvariant, Finish
    PROVE  ClientInvariant'
<1>1. ClientTypes /\ Accounted /\ LineRises /\ TopicRises /\ InPartition
  BY DEF ClientInvariant
<1>2. /\ status = "running" /\ sent + 1 \notin Messages /\ Len(queue) + Len(flight) = 0
      /\ status' = "done"
      /\ UNCHANGED <<df, sent, queue, flight, topic, retried, expired, faults>>
  BY DEF Finish, Outstanding
<1>3. queue = <<>> /\ flight = <<>>
  BY <1>1, <1>2, ClientFacts DEF ClientTypes
<1>4. Messages \subseteq 1..sent
  <2>1. PICK n \in Nat : DOMAIN df = 1..n
    BY <1>1 DEF ClientTypes, Ordered
  <2>2. sent \in Nat /\ sent + 1 \notin 1..n
    BY <1>1, <1>2, <2>1 DEF ClientTypes, Messages
  <2> QED  BY <2>1, <2>2 DEF Messages
<1>5. ClientTypes'
  BY <1>1, <1>2, <1>3, <1>4 DEF ClientTypes, Requests, Messages
<1>6. Accounted'
  BY <1>1, <1>2 DEF Accounted, Waiting, Written
<1>7. LineRises' /\ TopicRises' /\ InPartition'
  BY <1>1, <1>2
     DEF LineRises, TopicRises, InPartition, Asked, Queued, Placed, PartitionOfMessage, Row
<1> QED  BY <1>5, <1>6, <1>7 DEF ClientInvariant

LEMMA CrashStep ==
    ASSUME ClientInvariant, Crash
    PROVE  ClientInvariant'
<1>1. ClientTypes /\ Accounted /\ LineRises /\ TopicRises /\ InPartition
  BY DEF ClientInvariant
<1>2. /\ status' = "dead" /\ queue' = <<>> /\ flight' = <<>>
      /\ UNCHANGED <<df, sent, topic, retried, expired>>
  BY DEF Crash
<1>3. ClientTypes'
  BY <1>1, <1>2 DEF ClientTypes, Requests, Messages
<1>4. Accounted'
  BY <1>2 DEF Accounted
<1>5. LineRises'
  BY <1>2 DEF LineRises
<1>6. TopicRises'
  BY <1>1, <1>2 DEF TopicRises, Placed
<1>7. InPartition'
  BY <1>1, <1>2 DEF InPartition, PartitionOfMessage, Row
<1> QED  BY <1>3, <1>4, <1>5, <1>6, <1>7 DEF ClientInvariant

LEMMA RerunStep ==
    ASSUME ClientInvariant, Rerun
    PROVE  ClientInvariant'
<1>1. ClientTypes /\ Accounted /\ LineRises /\ TopicRises /\ InPartition
  BY DEF ClientInvariant
<1>2. /\ status = "dead" /\ status' = "running" /\ sent' = 0
      /\ retried' = retried \cup 1..sent
      /\ UNCHANGED <<df, queue, flight, topic, expired, faults>>
  BY DEF Rerun
<1>3. queue = <<>> /\ flight = <<>> /\ sent \in Nat
  BY <1>1, <1>2 DEF ClientTypes
<1>4. ClientTypes'
  <2>1. Ordered(df') /\ topic' \in [Partitions -> Seq(Messages')]
    BY <1>1, <1>2 DEF ClientTypes, Messages
  <2>2. queue' \in Seq(1..sent') /\ flight' \in Seq(Requests')
    BY <1>2, <1>3
  <2> QED  BY <1>2, <2>1, <2>2 DEF ClientTypes
<1>5. Accounted'
  BY <1>2, <1>3 DEF Accounted
<1>6. LineRises'
  BY <1>2, <1>3 DEF LineRises
<1>7. TopicRises'
  <2>1. ASSUME NEW p \in Partitions, NEW i \in DOMAIN topic[p], topic[p][i] \notin retried'
        PROVE  FALSE
    <3>1. Placed(p, i)
      BY <1>2, <2>1 DEF Placed
    <3>2. topic[p][i] \in Nat /\ topic[p][i] >= 1 /\ topic[p][i] <= sent
      BY <1>1, <3>1, ClientFacts DEF TopicRises
    <3> QED  BY <1>2, <1>3, <2>1, <3>2
  <2> QED  BY <1>2, <2>1 DEF TopicRises, Placed
<1>8. InPartition'
  BY <1>1, <1>2 DEF InPartition, PartitionOfMessage, Row
<1> QED  BY <1>4, <1>5, <1>6, <1>7, <1>8 DEF ClientInvariant

LEMMA SendStep ==
    ASSUME ClientInvariant, Send
    PROVE  ClientInvariant'
<1> DEFINE N == Len(queue)  K == Len(flight)
<1>1. ClientTypes /\ Accounted /\ LineRises /\ TopicRises /\ InPartition
  BY DEF ClientInvariant
<1>2. /\ queue # <<>> /\ queue' = Tail(queue)
      /\ flight' = Append(flight, <<Head(queue), "sent">>)
      /\ UNCHANGED <<df, status, sent, topic, retried, expired, faults>>
  BY DEF Send
<1>3. sent \in Nat /\ queue \in Seq(1..sent) /\ flight \in Seq(Requests)
  BY <1>1 DEF ClientTypes
<1>4. /\ queue' \in Seq(1..sent) /\ N \in Nat /\ N >= 1
      /\ DOMAIN queue = 1..N /\ DOMAIN queue' = 1..N - 1
      /\ Head(queue) = queue[1] /\ queue[1] \in 1..sent
      /\ \A i \in 1..N - 1 : i + 1 \in 1..N /\ queue'[i] = queue[i + 1]
  BY <1>2, <1>3, OneOff
<1>5. <<queue[1], "sent">> \in Requests
  BY <1>4 DEF Requests, Outcomes
<1>6. /\ flight' \in Seq(Requests) /\ K \in Nat
      /\ DOMAIN flight = 1..K /\ DOMAIN flight' = 1..K + 1
      /\ flight'[K + 1] = <<queue[1], "sent">>
      /\ \A k \in 1..K : flight'[k] = flight[k]
  BY <1>2, <1>3, <1>4, <1>5, OneMore
<1> HIDE DEF N, K
<1>7. ClientTypes'
  <2>1. /\ Ordered(df') /\ topic' \in [Partitions -> Seq(Messages')]
        /\ 1..sent' \subseteq Messages'
        /\ (status' = "done" => Messages' \subseteq 1..sent')
        /\ status' \in {"running", "done", "dead"}
        /\ sent' \in Nat /\ queue' \in Seq(1..sent') /\ flight' \in Seq(Requests')
    BY <1>1, <1>2, <1>4, <1>6 DEF ClientTypes, Messages, Requests
  <2>2. status' = "running"
    BY <1>1, <1>2 DEF ClientTypes
  <2> QED  BY <2>1, <2>2 DEF ClientTypes
<1>8. Accounted'
  <2>1. Written' = Written /\ expired' = expired /\ sent' = sent /\ status' = status
    BY <1>2 DEF Written
  <2>2. ASSUME NEW m, Waiting(m) PROVE Waiting(m)'
    <3>1. ASSUME NEW i \in DOMAIN queue, queue[i] = m PROVE Waiting(m)'
      <4>1. CASE i = 1
        <5>1. K + 1 \in DOMAIN flight' /\ flight'[K + 1][1] = m
          BY <1>6, <3>1, <4>1
        <5> QED  BY <5>1 DEF Waiting
      <4>2. CASE i # 1
        <5>1. i - 1 \in DOMAIN queue' /\ queue'[i - 1] = m
          <6>1. i - 1 \in 1..N - 1
            BY <1>4, <4>2
          <6> QED  BY <1>4, <3>1, <6>1
        <5> QED  BY <5>1 DEF Waiting
      <4> QED  BY <4>1, <4>2
    <3>2. ASSUME NEW k \in DOMAIN flight, flight[k][1] = m PROVE Waiting(m)'
      <4>1. k \in DOMAIN flight' /\ flight'[k][1] = m
        BY <1>6, <3>2
      <4> QED  BY <4>1 DEF Waiting
    <3> QED  BY <2>2, <3>1, <3>2 DEF Waiting
  <2>3. \A k \in DOMAIN flight' : flight'[k][2] = "written" => flight'[k][1] \in Written
    <3>1. ASSUME NEW k \in DOMAIN flight', flight'[k][2] = "written"
          PROVE  flight'[k][1] \in Written
      <4>1. k # K + 1
        BY <1>6, <3>1
      <4>2. k \in 1..K
        BY <1>6, <4>1
      <4> QED  BY <1>1, <1>6, <3>1, <4>2 DEF Accounted
    <3> QED  BY <3>1
  <2>4. status # "dead" => \A m \in 1..sent : m \in Written \cup expired \/ Waiting(m)
    BY <1>1 DEF Accounted
  <2>5. status' # "dead" =>
           \A m \in 1..sent' : m \in Written' \cup expired' \/ Waiting(m)'
    BY <2>1, <2>2, <2>4
  <2> QED  BY <2>1, <2>3, <2>5 DEF Accounted
<1>9. /\ \A i \in DOMAIN queue' : i + 1 \in DOMAIN queue /\ queue'[i] = queue[i + 1] /\ i >= 1
      /\ 1 \in DOMAIN queue
  BY <1>4
<1>10. \A k \in DOMAIN flight' :
          \/ k \in DOMAIN flight /\ flight'[k] = flight[k]
          \/ k = K + 1 /\ flight'[k][1] = queue[1]
  BY <1>6
<1>11. LineRises'
  <2>1. /\ \A i, j \in DOMAIN queue : i < j /\ Queued(i) /\ Queued(j) => queue[i] < queue[j]
        /\ \A k, l \in DOMAIN flight : k < l /\ Asked(k) /\ Asked(l) => flight[k][1] < flight[l][1]
        /\ \A k \in DOMAIN flight, i \in DOMAIN queue :
              Asked(k) /\ Queued(i) => flight[k][1] < queue[i]
    BY <1>1 DEF LineRises
  <2>2. ASSUME NEW i \in DOMAIN queue', NEW j \in DOMAIN queue', i < j,
               queue'[i] \notin retried, queue'[j] \notin retried
        PROVE  queue'[i] < queue'[j]
    <3>1. i + 1 < j + 1
      BY <1>4, <2>2
    <3> QED  BY <1>9, <2>1, <2>2, <3>1 DEF Queued
  <2>3. ASSUME NEW k \in DOMAIN flight', NEW l \in DOMAIN flight', k < l,
               flight'[k][2] = "sent", flight'[k][1] \notin retried,
               flight'[l][2] = "sent", flight'[l][1] \notin retried
        PROVE  flight'[k][1] < flight'[l][1]
    <3>1. k \in DOMAIN flight /\ flight'[k] = flight[k]
      BY <1>6, <1>10, <2>3
    <3>2. CASE l \in DOMAIN flight /\ flight'[l] = flight[l]
      BY <2>1, <2>3, <3>1, <3>2 DEF Asked
    <3>3. CASE flight'[l][1] = queue[1]
      BY <1>9, <2>1, <2>3, <3>1, <3>3 DEF Asked, Queued
    <3> QED  BY <1>10, <3>2, <3>3
  <2>4. ASSUME NEW k \in DOMAIN flight', NEW i \in DOMAIN queue',
               flight'[k][2] = "sent", flight'[k][1] \notin retried, queue'[i] \notin retried
        PROVE  flight'[k][1] < queue'[i]
    <3>1. CASE k \in DOMAIN flight /\ flight'[k] = flight[k]
      BY <1>9, <2>1, <2>4, <3>1 DEF Asked, Queued
    <3>2. CASE flight'[k][1] = queue[1]
      <4>1. 1 < i + 1
        BY <1>4
      <4> QED  BY <1>9, <2>1, <2>4, <3>2, <4>1 DEF Queued
    <3> QED  BY <1>10, <3>1, <3>2
  <2> QED  BY <1>2, <2>2, <2>3, <2>4 DEF LineRises, Asked, Queued
<1>12. TopicRises'
  <2> SUFFICES ASSUME NEW p \in Partitions
               PROVE  /\ \A i, j \in DOMAIN topic[p] :
                            i < j /\ Placed(p, i) /\ Placed(p, j) => topic[p][i] < topic[p][j]
                      /\ \A i \in DOMAIN topic[p] : Placed(p, i) =>
                            /\ \A k \in DOMAIN flight' :
                                  flight'[k][2] = "sent" /\ flight'[k][1] \notin retried
                                     => topic[p][i] < flight'[k][1]
                            /\ \A j \in DOMAIN queue' :
                                  queue'[j] \notin retried => topic[p][i] < queue'[j]
                            /\ topic[p][i] <= sent
    BY <1>2 DEF TopicRises, Placed, Asked, Queued
  <2>1. /\ \A i, j \in DOMAIN topic[p] :
              i < j /\ Placed(p, i) /\ Placed(p, j) => topic[p][i] < topic[p][j]
        /\ \A i \in DOMAIN topic[p] : Placed(p, i) =>
              /\ \A k \in DOMAIN flight : Asked(k) => topic[p][i] < flight[k][1]
              /\ \A j \in DOMAIN queue : Queued(j) => topic[p][i] < queue[j]
              /\ topic[p][i] <= sent
    BY <1>1 DEF TopicRises
  <2>2. ASSUME NEW i \in DOMAIN topic[p], Placed(p, i)
        PROVE  /\ \A k \in DOMAIN flight' :
                     flight'[k][2] = "sent" /\ flight'[k][1] \notin retried
                        => topic[p][i] < flight'[k][1]
               /\ \A j \in DOMAIN queue' :
                     queue'[j] \notin retried => topic[p][i] < queue'[j]
    <3>1. /\ \A k \in DOMAIN flight : Asked(k) => topic[p][i] < flight[k][1]
          /\ \A j \in DOMAIN queue : Queued(j) => topic[p][i] < queue[j]
      BY <2>1, <2>2
    <3> QED  BY <1>9, <1>10, <3>1 DEF Asked, Queued
  <2> QED  BY <2>1, <2>2
<1>13. InPartition'
  BY <1>1, <1>2 DEF InPartition, PartitionOfMessage, Row
<1> QED  BY <1>7, <1>8, <1>11, <1>12, <1>13 DEF ClientInvariant

\* What is in order stays so when the queue and the requests move up or down by
\* some places, and what is not moved along is counted among the repeats.
LEMMA OrderKept ==
    ASSUME ClientTypes, LineRises, TopicRises, NEW a \in Int, NEW b \in Int,
           UNCHANGED <<topic, sent>>, retried \subseteq retried',
           \A i \in DOMAIN queue' : i \in Int /\
              (queue'[i] \notin retried' =>
                  i + a \in DOMAIN queue /\ queue'[i] = queue[i + a]),
           \A k \in DOMAIN flight' : k \in Int /\
              (flight'[k][2] = "sent" /\ flight'[k][1] \notin retried' =>
                  k + b \in DOMAIN flight /\ flight'[k] = flight[k + b])
    PROVE  LineRises' /\ TopicRises'
<1>1. /\ \A i, j \in DOMAIN queue : i < j /\ Queued(i) /\ Queued(j) => queue[i] < queue[j]
      /\ \A k, l \in DOMAIN flight : k < l /\ Asked(k) /\ Asked(l) => flight[k][1] < flight[l][1]
      /\ \A k \in DOMAIN flight, i \in DOMAIN queue :
            Asked(k) /\ Queued(i) => flight[k][1] < queue[i]
  BY DEF LineRises
<1>2. ASSUME NEW i \in DOMAIN queue', queue'[i] \notin retried'
      PROVE  i + a \in DOMAIN queue /\ queue'[i] = queue[i + a] /\ Queued(i + a)
  BY <1>2 DEF Queued
<1>3. ASSUME NEW k \in DOMAIN flight', flight'[k][2] = "sent", flight'[k][1] \notin retried'
      PROVE  k + b \in DOMAIN flight /\ flight'[k][1] = flight[k + b][1] /\ Asked(k + b)
  BY <1>3 DEF Asked
<1>4. LineRises'
  <2>1. ASSUME NEW i \in DOMAIN queue', NEW j \in DOMAIN queue', i < j,
               queue'[i] \notin retried', queue'[j] \notin retried'
        PROVE  queue'[i] < queue'[j]
    <3>1. i + a < j + a
      BY <2>1
    <3> QED  BY <1>1, <1>2, <2>1, <3>1
  <2>2. ASSUME NEW k \in DOMAIN flight', NEW l \in DOMAIN flight', k < l,
               flight'[k][2] = "sent", flight'[k][1] \notin retried',
               flight'[l][2] = "sent", flight'[l][1] \notin retried'
        PROVE  flight'[k][1] < flight'[l][1]
    <3>1. k + b < l + b
      BY <2>2
    <3> QED  BY <1>1, <1>3, <2>2, <3>1
  <2>3. ASSUME NEW k \in DOMAIN flight', NEW i \in DOMAIN queue',
               flight'[k][2] = "sent", flight'[k][1] \notin retried', queue'[i] \notin retried'
        PROVE  flight'[k][1] < queue'[i]
    BY <1>1, <1>2, <1>3, <2>3
  <2> QED  BY <2>1, <2>2, <2>3 DEF LineRises, Asked, Queued
<1>5. TopicRises'
  <2>1. ASSUME NEW p \in Partitions, NEW i \in DOMAIN topic[p], topic[p][i] \notin retried'
        PROVE  /\ \A k \in DOMAIN flight' :
                     flight'[k][2] = "sent" /\ flight'[k][1] \notin retried'
                        => topic[p][i] < flight'[k][1]
               /\ \A j \in DOMAIN queue' :
                     queue'[j] \notin retried' => topic[p][i] < queue'[j]
               /\ topic[p][i] <= sent
    <3>1. Placed(p, i)
      BY <2>1 DEF Placed
    <3>2. /\ \A k \in DOMAIN flight : Asked(k) => topic[p][i] < flight[k][1]
          /\ \A j \in DOMAIN queue : Queued(j) => topic[p][i] < queue[j]
          /\ topic[p][i] <= sent
      BY <3>1 DEF TopicRises
    <3> QED  BY <1>2, <1>3, <3>2
  <2>2. ASSUME NEW p \in Partitions, NEW i \in DOMAIN topic[p], NEW j \in DOMAIN topic[p],
               i < j, topic[p][i] \notin retried', topic[p][j] \notin retried'
        PROVE  topic[p][i] < topic[p][j]
    BY <2>2 DEF TopicRises, Placed
  <2> QED  BY <2>1, <2>2 DEF TopicRises, Placed, Asked, Queued
<1> QED  BY <1>4, <1>5

\* The broker's answer to a request.
LEMMA Answered ==
    ASSUME ClientTypes, NEW k \in DOMAIN flight, NEW o \in Outcomes
    PROVE  LET answered == [flight EXCEPT ![k][2] = o]
           IN  /\ answered \in Seq(Requests) /\ DOMAIN answered = DOMAIN flight
               /\ answered[k][1] = flight[k][1] /\ answered[k][2] = o
               /\ \A l \in DOMAIN flight : l # k => answered[l] = flight[l]
<1> DEFINE answered == [flight EXCEPT ![k][2] = o]
<1>1. flight \in Seq(Requests) /\ Len(flight) \in Nat /\ DOMAIN flight = 1..Len(flight)
  BY ClientFacts DEF ClientTypes
<1>2. flight[k] \in Requests
  BY ClientFacts
<1>3. PICK m \in 1..sent, r \in Outcomes : flight[k] = <<m, r>>
  BY <1>2 DEF Requests
<1>4. answered[k] = <<m, o>>
  BY <1>3
<1>5. <<m, o>> \in Requests
  BY DEF Requests
<1>6. DOMAIN answered = DOMAIN flight /\ \A l \in DOMAIN flight : l # k => answered[l] = flight[l]
  OBVIOUS
<1>7. answered = [l \in 1..Len(flight) |-> answered[l]]
  BY <1>1
<1>8. \A l \in 1..Len(flight) : answered[l] \in Requests
  BY <1>1, <1>4, <1>5, <1>6
<1> HIDE DEF answered
<1>9. answered \in Seq(Requests)
  BY <1>1, <1>7, <1>8
<1>10. answered[k][1] = flight[k][1] /\ answered[k][2] = o
  BY <1>3, <1>4
<1> QED  BY <1>6, <1>9, <1>10 DEF answered

LEMMA RejectStep ==
    ASSUME ClientInvariant, NEW k \in DOMAIN flight, Reject(k)
    PROVE  ClientInvariant'
<1>1. ClientTypes /\ Accounted /\ LineRises /\ TopicRises /\ InPartition
  BY DEF ClientInvariant
<1>2. /\ flight' = [flight EXCEPT ![k][2] = "rejected"] /\ flight[k][2] = "sent"
      /\ UNCHANGED <<df, status, sent, queue, topic, retried, expired>>
  BY DEF Reject, NextRequest
<1>3. /\ flight' \in Seq(Requests) /\ DOMAIN flight' = DOMAIN flight
      /\ flight'[k][1] = flight[k][1] /\ flight'[k][2] = "rejected"
      /\ \A l \in DOMAIN flight : l # k => flight'[l] = flight[l]
  BY <1>1, <1>2, Answered DEF Outcomes
<1>4. ClientTypes'
  <2>1. status = "running"
    BY <1>1 DEF ClientTypes
  <2> QED  BY <1>1, <1>2, <1>3, <2>1 DEF ClientTypes, Requests, Messages
<1>5. Accounted'
  <2>1. \A l \in DOMAIN flight' : flight'[l][2] = "written" => flight'[l][1] \in Written
    BY <1>1, <1>3 DEF Accounted
  <2>2. ASSUME NEW m, Waiting(m) PROVE Waiting(m)'
    BY <1>2, <1>3, <2>2 DEF Waiting
  <2>3. Written' = Written
    BY <1>2 DEF Written
  <2>4. status' # "dead" => \A m \in 1..sent' : m \in Written' \cup expired' \/ Waiting(m)'
    <3>1. status # "dead" => \A m \in 1..sent : m \in Written \cup expired \/ Waiting(m)
      BY <1>1 DEF Accounted
    <3> QED  BY <1>2, <2>2, <2>3, <3>1
  <2> QED  BY <2>1, <2>3, <2>4 DEF Accounted
<1>6. LineRises' /\ TopicRises'
  <2>1. \A i \in DOMAIN queue' : i \in Int /\
           (queue'[i] \notin retried' =>
               i + 0 \in DOMAIN queue /\ queue'[i] = queue[i + 0])
    BY <1>1, <1>2, ClientFacts
  <2>2. \A l \in DOMAIN flight' : l \in Int /\
           (flight'[l][2] = "sent" /\ flight'[l][1] \notin retried' =>
               l + 0 \in DOMAIN flight /\ flight'[l] = flight[l + 0])
    <3>1. \A l \in DOMAIN flight : l \in Int /\ l + 0 = l
      BY <1>1, ClientFacts
    <3> QED  BY <1>3, <3>1
  <2>3. UNCHANGED <<topic, sent>> /\ retried \subseteq retried'
    BY <1>2
  <2>4. 0 \in Int
    OBVIOUS
  <2> QED  BY <1>1, <2>1, <2>2, <2>3, <2>4, OrderKept, Zenon
<1>7. InPartition'
  BY <1>1, <1>2 DEF InPartition, PartitionOfMessage, Row
<1> QED  BY <1>4, <1>5, <1>6, <1>7 DEF ClientInvariant

LEMMA AcknowledgedStep ==
    ASSUME ClientInvariant, Acknowledged
    PROVE  ClientInvariant'
<1> DEFINE K == Len(flight)
<1>1. ClientTypes /\ Accounted /\ LineRises /\ TopicRises /\ InPartition
  BY DEF ClientInvariant
<1>2. /\ flight # <<>> /\ Head(flight)[2] = "written" /\ flight' = Tail(flight)
      /\ UNCHANGED <<df, status, sent, queue, topic, retried, expired, faults>>
  BY DEF Acknowledged
<1>3. flight \in Seq(Requests)
  BY <1>1 DEF ClientTypes
<1>4. /\ flight' \in Seq(Requests) /\ K \in Nat /\ K >= 1
      /\ DOMAIN flight = 1..K /\ DOMAIN flight' = 1..K - 1 /\ Head(flight) = flight[1]
      /\ \A k \in 1..K - 1 : k + 1 \in 1..K /\ flight'[k] = flight[k + 1]
  BY <1>2, <1>3, OneOff
<1> HIDE DEF K
<1>5. ClientTypes'
  <2>1. status = "running"
    BY <1>1, <1>2 DEF ClientTypes
  <2> QED  BY <1>1, <1>2, <1>4, <2>1 DEF ClientTypes, Requests, Messages
<1>6. Accounted'
  <2>1. /\ \A k \in DOMAIN flight : flight[k][2] = "written" => flight[k][1] \in Written
        /\ status # "dead" => \A m \in 1..sent : m \in Written \cup expired \/ Waiting(m)
    BY <1>1 DEF Accounted
  <2>2. Written' = Written
    BY <1>2 DEF Written
  <2>3. flight[1][1] \in Written
    BY <1>2, <1>4, <2>1
  <2>4. ASSUME NEW m, Waiting(m) PROVE m \in Written \/ Waiting(m)'
    <3>1. ASSUME NEW k \in DOMAIN flight, flight[k][1] = m PROVE m \in Written \/ Waiting(m)'
      <4>1. CASE k = 1
        BY <2>3, <3>1, <4>1
      <4>2. CASE k # 1
        <5>1. k - 1 \in 1..K - 1
          BY <1>4, <4>2
        <5>2. k - 1 \in DOMAIN flight' /\ flight'[k - 1] = flight[k]
          BY <1>4, <5>1
        <5> QED  BY <3>1, <5>2 DEF Waiting
      <4> QED  BY <4>1, <4>2
    <3>2. (\E i \in DOMAIN queue : queue[i] = m) => Waiting(m)'
      BY <1>2 DEF Waiting
    <3> QED  BY <2>4, <3>1, <3>2 DEF Waiting
  <2>5. status' # "dead" => \A m \in 1..sent' : m \in Written' \cup expired' \/ Waiting(m)'
    BY <1>2, <2>1, <2>2, <2>4
  <2>6. \A k \in DOMAIN flight' : flight'[k][2] = "written" => flight'[k][1] \in Written'
    BY <1>4, <2>1, <2>2
  <2> QED  BY <2>5, <2>6 DEF Accounted
<1>7. LineRises' /\ TopicRises'
  <2>1. \A i \in DOMAIN queue' : i \in Int /\
           (queue'[i] \notin retried' =>
               i + 0 \in DOMAIN queue /\ queue'[i] = queue[i + 0])
    BY <1>1, <1>2, ClientFacts
  <2>2. \A l \in DOMAIN flight' : l \in Int /\
           (flight'[l][2] = "sent" /\ flight'[l][1] \notin retried' =>
               l + 1 \in DOMAIN flight /\ flight'[l] = flight[l + 1])
    BY <1>4
  <2>3. UNCHANGED <<topic, sent>> /\ retried \subseteq retried'
    BY <1>2
  <2>4. 0 \in Int /\ 1 \in Int
    OBVIOUS
  <2> QED  BY <1>1, <2>1, <2>2, <2>3, <2>4, OrderKept, Zenon
<1>8. InPartition'
  BY <1>1, <1>2 DEF InPartition, PartitionOfMessage, Row
<1> QED  BY <1>5, <1>6, <1>7, <1>8 DEF ClientInvariant

LEMMA RetryStep ==
    ASSUME ClientInvariant, Retry
    PROVE  ClientInvariant'
<1> DEFINE K == Len(flight)  N == Len(queue)
<1>1. ClientTypes /\ Accounted /\ LineRises /\ TopicRises /\ InPartition
  BY DEF ClientInvariant
<1>2. /\ flight # <<>> /\ flight' = Tail(flight)
      /\ queue' = <<Head(flight)[1]>> \o queue
      /\ retried' = retried \cup {Head(flight)[1]}
      /\ UNCHANGED <<df, status, sent, topic, expired>>
  BY DEF Retry
<1>3. flight \in Seq(Requests) /\ queue \in Seq(1..sent)
  BY <1>1 DEF ClientTypes
<1>4. /\ flight' \in Seq(Requests) /\ K \in Nat /\ K >= 1
      /\ DOMAIN flight = 1..K /\ DOMAIN flight' = 1..K - 1 /\ Head(flight) = flight[1]
      /\ \A k \in 1..K - 1 : k + 1 \in 1..K /\ flight'[k] = flight[k + 1]
  BY <1>2, <1>3, OneOff
<1>5. flight[1][1] \in 1..sent
  BY <1>1, <1>4, ClientFacts
<1>6. /\ queue' \in Seq(1..sent) /\ N \in Nat
      /\ DOMAIN queue = 1..N /\ DOMAIN queue' = 1..N + 1 /\ queue'[1] = flight[1][1]
      /\ \A i \in 2..N + 1 : i - 1 \in 1..N /\ queue'[i] = queue[i - 1]
  BY <1>2, <1>3, <1>4, <1>5, OneBack
<1> HIDE DEF K, N
<1>7. ClientTypes'
  <2>1. status = "running"
    BY <1>1, <1>2 DEF ClientTypes
  <2> QED  BY <1>1, <1>2, <1>4, <1>6, <2>1 DEF ClientTypes, Requests, Messages
<1>8. Accounted'
  <2>1. /\ \A k \in DOMAIN flight : flight[k][2] = "written" => flight[k][1] \in Written
        /\ status # "dead" => \A m \in 1..sent : m \in Written \cup expired \/ Waiting(m)
    BY <1>1 DEF Accounted
  <2>2. Written' = Written
    BY <1>2 DEF Written
  <2>3. ASSUME NEW m, Waiting(m) PROVE Waiting(m)'
    <3>1. ASSUME NEW k \in DOMAIN flight, flight[k][1] = m PROVE Waiting(m)'
      <4>1. CASE k = 1
        <5>1. 1 \in DOMAIN queue' /\ queue'[1] = m
          BY <1>6, <3>1, <4>1
        <5> QED  BY <5>1 DEF Waiting
      <4>2. CASE k # 1
        <5>1. k - 1 \in 1..K - 1
          BY <1>4, <4>2
        <5>2. k - 1 \in DOMAIN flight' /\ flight'[k - 1] = flight[k]
          BY <1>4, <5>1
        <5> QED  BY <3>1, <5>2 DEF Waiting
      <4> QED  BY <4>1, <4>2
    <3>2. ASSUME NEW i \in DOMAIN queue, queue[i] = m PROVE Waiting(m)'
      <4>1. i + 1 \in 2..N + 1 /\ i + 1 - 1 = i
        BY <1>6
      <4>2. i + 1 \in DOMAIN queue' /\ queue'[i + 1] = m
        BY <1>6, <3>2, <4>1
      <4> QED  BY <4>2 DEF Waiting
    <3> QED  BY <2>3, <3>1, <3>2 DEF Waiting
  <2>4. status' # "dead" => \A m \in 1..sent' : m \in Written' \cup expired' \/ Waiting(m)'
    BY <1>2, <2>1, <2>2, <2>3
  <2>5. \A k \in DOMAIN flight' : flight'[k][2] = "written" => flight'[k][1] \in Written'
    BY <1>4, <2>1, <2>2
  <2> QED  BY <2>4, <2>5 DEF Accounted
<1>9. LineRises' /\ TopicRises'
  <2>1. \A i \in DOMAIN queue' : i \in Int /\
           (queue'[i] \notin retried' =>
               i + (0 - 1) \in DOMAIN queue /\ queue'[i] = queue[i + (0 - 1)])
    <3>1. ASSUME NEW i \in DOMAIN queue', queue'[i] \notin retried'
          PROVE  i + (0 - 1) \in DOMAIN queue /\ queue'[i] = queue[i + (0 - 1)]
      <4>1. i # 1
        BY <1>2, <1>4, <1>6, <3>1
      <4>2. i \in 2..N + 1 /\ i + (0 - 1) = i - 1
        BY <1>6, <4>1
      <4> QED  BY <1>6, <4>2
    <3>2. \A i \in DOMAIN queue' : i \in Int
      BY <1>6
    <3> QED  BY <3>1, <3>2
  <2>2. \A l \in DOMAIN flight' : l \in Int /\
           (flight'[l][2] = "sent" /\ flight'[l][1] \notin retried' =>
               l + 1 \in DOMAIN flight /\ flight'[l] = flight[l + 1])
    BY <1>4
  <2>3. UNCHANGED <<topic, sent>> /\ retried \subseteq retried'
    BY <1>2
  <2>4. 0 - 1 \in Int /\ 1 \in Int
    OBVIOUS
  <2> QED  BY <1>1, <2>1, <2>2, <2>3, <2>4, OrderKept, Zenon
<1>10. InPartition'
  BY <1>1, <1>2 DEF InPartition, PartitionOfMessage, Row
<1> QED  BY <1>7, <1>8, <1>9, <1>10 DEF ClientInvariant

LEMMA ExpireStep ==
    ASSUME ClientInvariant, Expire
    PROVE  ClientInvariant'
<1> DEFINE N == Len(queue)
<1>1. ClientTypes /\ Accounted /\ LineRises /\ TopicRises /\ InPartition
  BY DEF ClientInvariant
<1>2. /\ queue # <<>> /\ queue' = Tail(queue) /\ expired' = expired \cup {Head(queue)}
      /\ UNCHANGED <<df, status, sent, flight, topic, retried>>
  BY DEF Expire
<1>3. queue \in Seq(1..sent)
  BY <1>1 DEF ClientTypes
<1>4. /\ queue' \in Seq(1..sent) /\ N \in Nat /\ N >= 1
      /\ DOMAIN queue = 1..N /\ DOMAIN queue' = 1..N - 1 /\ Head(queue) = queue[1]
      /\ \A i \in 1..N - 1 : i + 1 \in 1..N /\ queue'[i] = queue[i + 1]
  BY <1>2, <1>3, OneOff
<1> HIDE DEF N
<1>5. ClientTypes'
  <2>1. status = "running"
    BY <1>1, <1>2 DEF ClientTypes
  <2> QED  BY <1>1, <1>2, <1>4, <2>1 DEF ClientTypes, Requests, Messages
<1>6. Accounted'
  <2>1. /\ \A k \in DOMAIN flight : flight[k][2] = "written" => flight[k][1] \in Written
        /\ status # "dead" => \A m \in 1..sent : m \in Written \cup expired \/ Waiting(m)
    BY <1>1 DEF Accounted
  <2>2. Written' = Written
    BY <1>2 DEF Written
  <2>3. ASSUME NEW m, Waiting(m) PROVE m \in expired' \/ Waiting(m)'
    <3>1. ASSUME NEW i \in DOMAIN queue, queue[i] = m PROVE m \in expired' \/ Waiting(m)'
      <4>1. CASE i = 1
        BY <1>2, <1>4, <3>1, <4>1
      <4>2. CASE i # 1
        <5>1. i - 1 \in 1..N - 1
          BY <1>4, <4>2
        <5>2. i - 1 \in DOMAIN queue' /\ queue'[i - 1] = queue[i]
          BY <1>4, <5>1
        <5> QED  BY <3>1, <5>2 DEF Waiting
      <4> QED  BY <4>1, <4>2
    <3>2. (\E k \in DOMAIN flight : flight[k][1] = m) => Waiting(m)'
      BY <1>2 DEF Waiting
    <3> QED  BY <2>3, <3>1, <3>2 DEF Waiting
  <2>4. status' # "dead" => \A m \in 1..sent' : m \in Written' \cup expired' \/ Waiting(m)'
    BY <1>2, <2>1, <2>2, <2>3
  <2>5. \A k \in DOMAIN flight' : flight'[k][2] = "written" => flight'[k][1] \in Written'
    BY <1>2, <2>1, <2>2
  <2> QED  BY <2>4, <2>5 DEF Accounted
<1>7. LineRises' /\ TopicRises'
  <2>1. \A i \in DOMAIN queue' : i \in Int /\
           (queue'[i] \notin retried' =>
               i + 1 \in DOMAIN queue /\ queue'[i] = queue[i + 1])
    BY <1>4
  <2>2. \A l \in DOMAIN flight' : l \in Int /\
           (flight'[l][2] = "sent" /\ flight'[l][1] \notin retried' =>
               l + 0 \in DOMAIN flight /\ flight'[l] = flight[l + 0])
    BY <1>1, <1>2, ClientFacts
  <2>3. UNCHANGED <<topic, sent>> /\ retried \subseteq retried'
    BY <1>2
  <2>4. 0 \in Int /\ 1 \in Int
    OBVIOUS
  <2> QED  BY <1>1, <2>1, <2>2, <2>3, <2>4, OrderKept, Zenon
<1>8. InPartition'
  BY <1>1, <1>2 DEF InPartition, PartitionOfMessage, Row
<1> QED  BY <1>5, <1>6, <1>7, <1>8 DEF ClientInvariant

LEMMA WriteStep ==
    ASSUME ClientInvariant, NEW k \in DOMAIN flight, Write(k)
    PROVE  ClientInvariant'
<1> DEFINE m == flight[k][1]
           to == PartitionOfMessage(m)
           T == Len(topic[to])
<1>1. ClientTypes /\ Accounted /\ LineRises /\ TopicRises /\ InPartition
  BY DEF ClientInvariant
<1>2. /\ flight[k][2] = "sent" /\ \A j \in 1..k - 1 : flight[j][2] # "sent"
      /\ flight' = [flight EXCEPT ![k][2] = "written"]
      /\ topic' = [topic EXCEPT ![to] = Append(@, m)]
      /\ UNCHANGED <<df, status, sent, queue, retried, expired, faults>>
  BY DEF Write, NextRequest
<1>3. /\ flight' \in Seq(Requests) /\ DOMAIN flight' = DOMAIN flight
      /\ flight'[k][1] = m /\ flight'[k][2] = "written"
      /\ \A l \in DOMAIN flight : l # k => flight'[l] = flight[l]
  BY <1>1, <1>2, Answered DEF Outcomes
<1>4. /\ m \in 1..sent /\ m \in Messages /\ m \in Nat /\ to \in Partitions /\ sent \in Nat
      /\ topic[to] \in Seq(Messages)
  BY <1>1, ClientFacts DEF ClientTypes
<1>5. /\ Append(topic[to], m) \in Seq(Messages) /\ T \in Nat
      /\ DOMAIN topic[to] = 1..T /\ DOMAIN Append(topic[to], m) = 1..T + 1
      /\ Append(topic[to], m)[T + 1] = m
      /\ \A i \in 1..T : Append(topic[to], m)[i] = topic[to][i]
  BY <1>4, OneMore
<1>6. topic \in [Partitions -> Seq(Messages)]
  BY <1>1 DEF ClientTypes
<1> HIDE DEF T, to, m
<1>7. /\ topic' \in [Partitions -> Seq(Messages)]
      /\ topic'[to] = Append(topic[to], m)
      /\ \A p \in Partitions : p # to => topic'[p] = topic[p]
  BY <1>2, <1>4, <1>5, <1>6
<1>8. \A p \in Partitions : \A i \in DOMAIN topic'[p] :
         \/ i \in DOMAIN topic[p] /\ topic'[p][i] = topic[p][i]
         \/ p = to /\ i = T + 1 /\ topic'[p][i] = m
  BY <1>5, <1>7
<1>9. ClientTypes'
  <2>1. status = "running"
    BY <1>1, <1>4 DEF ClientTypes
  <2>2. Messages' = Messages
    BY <1>2 DEF Messages
  <2> QED  BY <1>1, <1>2, <1>3, <1>7, <2>1, <2>2 DEF ClientTypes, Requests
<1>10. Written \subseteq Written' /\ m \in Written'
  <2>1. ASSUME NEW p \in Partitions, NEW i \in DOMAIN topic[p]
        PROVE  i \in DOMAIN topic'[p] /\ topic'[p][i] = topic[p][i]
    BY <1>5, <1>7
  <2>2. ASSUME NEW x, x \in Written PROVE x \in Written'
    <3>1. PICK p \in Partitions : \E i \in DOMAIN topic[p] : x = topic[p][i]
      BY <2>2 DEF Written, Range
    <3>2. \E i \in DOMAIN topic'[p] : x = topic'[p][i]
      BY <2>1, <3>1
    <3> QED  BY <3>2 DEF Written, Range
  <2>3. T + 1 \in DOMAIN topic'[to] /\ topic'[to][T + 1] = m
    BY <1>5, <1>7
  <2>4. m \in Written'
    BY <1>4, <2>3 DEF Written, Range
  <2> QED  BY <2>2, <2>4
<1>11. Accounted'
  <2>1. /\ \A l \in DOMAIN flight : flight[l][2] = "written" => flight[l][1] \in Written
        /\ status # "dead" => \A x \in 1..sent : x \in Written \cup expired \/ Waiting(x)
    BY <1>1 DEF Accounted
  <2>2. ASSUME NEW x, Waiting(x) PROVE Waiting(x)'
    <3>1. \A l \in DOMAIN flight : flight'[l][1] = flight[l][1]
      BY <1>3 DEF m
    <3> QED  BY <1>2, <1>3, <2>2, <3>1 DEF Waiting
  <2>3. status' # "dead" => \A x \in 1..sent' : x \in Written' \cup expired' \/ Waiting(x)'
    BY <1>2, <1>10, <2>1, <2>2
  <2>4. ASSUME NEW l \in DOMAIN flight', flight'[l][2] = "written"
        PROVE  flight'[l][1] \in Written'
    BY <1>3, <1>10, <2>1, <2>4
  <2> QED  BY <2>3, <2>4 DEF Accounted
<1>12. ASSUME NEW l \in DOMAIN flight', flight'[l][2] = "sent", flight'[l][1] \notin retried
       PROVE  l \in DOMAIN flight /\ flight'[l] = flight[l] /\ Asked(l) /\ k < l
  <2>1. l # k /\ l \in DOMAIN flight /\ flight'[l] = flight[l]
    BY <1>3, <1>12
  <2>2. DOMAIN flight = 1..Len(flight) /\ Len(flight) \in Nat
    BY <1>1, ClientFacts
  <2>3. k < l
    <3>1. ~(l \in 1..k - 1)
      BY <1>2, <1>12, <2>1
    <3> QED  BY <2>1, <2>2, <3>1
  <2> QED  BY <1>12, <2>1, <2>3 DEF Asked
<1>13. /\ \A i, j \in DOMAIN queue : i < j /\ Queued(i) /\ Queued(j) => queue[i] < queue[j]
       /\ \A j, l \in DOMAIN flight : j < l /\ Asked(j) /\ Asked(l) => flight[j][1] < flight[l][1]
       /\ \A l \in DOMAIN flight, i \in DOMAIN queue :
             Asked(l) /\ Queued(i) => flight[l][1] < queue[i]
  BY <1>1 DEF LineRises
<1>14. LineRises'
  <2>1. ASSUME NEW j \in DOMAIN flight', NEW l \in DOMAIN flight', j < l,
               flight'[j][2] = "sent", flight'[j][1] \notin retried,
               flight'[l][2] = "sent", flight'[l][1] \notin retried
        PROVE  flight'[j][1] < flight'[l][1]
    BY <1>12, <1>13, <2>1
  <2>2. ASSUME NEW l \in DOMAIN flight', NEW i \in DOMAIN queue,
               flight'[l][2] = "sent", flight'[l][1] \notin retried, queue[i] \notin retried
        PROVE  flight'[l][1] < queue[i]
    BY <1>12, <1>13, <2>2 DEF Queued
  <2> QED  BY <1>2, <1>13, <2>1, <2>2 DEF LineRises, Asked, Queued
<1>15. TopicRises'
  <2>1. \A p \in Partitions :
          /\ \A i, j \in DOMAIN topic[p] :
                i < j /\ Placed(p, i) /\ Placed(p, j) => topic[p][i] < topic[p][j]
          /\ \A i \in DOMAIN topic[p] : Placed(p, i) =>
                /\ \A l \in DOMAIN flight : Asked(l) => topic[p][i] < flight[l][1]
                /\ \A j \in DOMAIN queue : Queued(j) => topic[p][i] < queue[j]
                /\ topic[p][i] <= sent
    BY <1>1 DEF TopicRises
  <2>2. ASSUME m \notin retried PROVE Asked(k)
    BY <1>2, <2>2 DEF Asked, m
  <2>3. ASSUME NEW p \in Partitions, NEW i \in DOMAIN topic'[p], NEW j \in DOMAIN topic'[p],
               i < j, topic'[p][i] \notin retried, topic'[p][j] \notin retried
        PROVE  topic'[p][i] < topic'[p][j]
    <3>1. i \in DOMAIN topic[p] /\ topic'[p][i] = topic[p][i] /\ Placed(p, i)
      <4>1. ~(p = to /\ i = T + 1)
        BY <1>5, <1>7, <2>3
      <4> QED  BY <1>8, <2>3, <4>1 DEF Placed
    <3>2. CASE j \in DOMAIN topic[p] /\ topic'[p][j] = topic[p][j]
      BY <2>1, <2>3, <3>1, <3>2 DEF Placed
    <3>3. CASE topic'[p][j] = m
      BY <2>1, <2>2, <2>3, <3>1, <3>3 DEF m
    <3> QED  BY <1>8, <3>2, <3>3
  <2>4. ASSUME NEW p \in Partitions, NEW i \in DOMAIN topic'[p], topic'[p][i] \notin retried
        PROVE  /\ \A l \in DOMAIN flight' :
                     flight'[l][2] = "sent" /\ flight'[l][1] \notin retried
                        => topic'[p][i] < flight'[l][1]
               /\ \A j \in DOMAIN queue :
                     queue[j] \notin retried => topic'[p][i] < queue[j]
               /\ topic'[p][i] <= sent
    <3>1. CASE i \in DOMAIN topic[p] /\ topic'[p][i] = topic[p][i]
      <4>1. Placed(p, i)
        BY <2>4, <3>1 DEF Placed
      <4> QED  BY <1>12, <2>1, <3>1, <4>1 DEF Queued
    <3>2. CASE topic'[p][i] = m
      <4>1. Asked(k)
        BY <2>2, <2>4, <3>2
      <4>2. \A l \in DOMAIN flight' :
               flight'[l][2] = "sent" /\ flight'[l][1] \notin retried => m < flight'[l][1]
        BY <1>12, <1>13, <4>1 DEF m
      <4>3. \A j \in DOMAIN queue : queue[j] \notin retried => m < queue[j]
        BY <1>13, <4>1 DEF m, Queued
      <4> QED  BY <1>4, <3>2, <4>2, <4>3
    <3> QED  BY <1>8, <3>1, <3>2
  <2> QED  BY <1>2, <2>3, <2>4 DEF TopicRises, Placed, Asked, Queued
<1>16. InPartition'
  <2>1. ASSUME NEW x PROVE PartitionOfMessage(x)' = PartitionOfMessage(x)
    BY <1>2 DEF PartitionOfMessage, Row
  <2>2. ASSUME NEW p \in Partitions, NEW i \in DOMAIN topic'[p]
        PROVE  PartitionOfMessage(topic'[p][i]) = p
    BY <1>1, <1>8 DEF InPartition, to
  <2> QED  BY <1>2, <2>2 DEF InPartition, PartitionOfMessage, Row
<1> QED  BY <1>9, <1>11, <1>14, <1>15, <1>16 DEF ClientInvariant

LEMMA ClientStep == ClientInvariant /\ [ProducerNext]_producerVars => ClientInvariant'
<1> SUFFICES ASSUME ClientInvariant, [ProducerNext]_producerVars PROVE ClientInvariant'
  OBVIOUS
<1>1. CASE Produce
  BY <1>1, ProduceStep
<1>2. CASE Finish
  BY <1>2, FinishStep
<1>3. CASE Crash
  BY <1>3, CrashStep
<1>4. CASE Rerun
  BY <1>4, RerunStep
<1>5. CASE Send
  BY <1>5, SendStep
<1>6. CASE Acknowledged
  BY <1>6, AcknowledgedStep
<1>7. CASE Retry
  BY <1>7, RetryStep
<1>8. CASE Expire
  BY <1>8, ExpireStep
<1>9. ASSUME NEW k \in DOMAIN flight, Write(k) PROVE ClientInvariant'
  BY <1>9, WriteStep
<1>10. ASSUME NEW k \in DOMAIN flight, Reject(k) PROVE ClientInvariant'
  BY <1>10, RejectStep
<1>11. CASE UNCHANGED producerVars
  <2>1. UNCHANGED <<df, status, sent, queue, flight, topic, retried, expired>>
    BY <1>11 DEF producerVars
  <2>2. ClientTypes'
    BY <2>1 DEF ClientInvariant, ClientTypes, Requests, Messages
  <2>3. Accounted'
    BY <2>1 DEF ClientInvariant, Accounted, Waiting, Written
  <2>4. LineRises' /\ TopicRises'
    BY <2>1 DEF ClientInvariant, LineRises, TopicRises, Asked, Queued, Placed
  <2>5. InPartition'
    BY <2>1 DEF ClientInvariant, InPartition, PartitionOfMessage, Row
  <2> QED  BY <2>2, <2>3, <2>4, <2>5 DEF ClientInvariant
<1> QED  BY <1>1, <1>2, <1>3, <1>4, <1>5, <1>6, <1>7, <1>8, <1>9, <1>10, <1>11
         DEF ProducerNext

\* What holds of the producer and its client at any time.
THEOREM ClientIsSound == ProducerSpec => []ClientInvariant
<1>1. ProducerInit => ClientInvariant
  BY ClientStarts
<1>2. ClientInvariant /\ [ProducerNext]_producerVars => ClientInvariant'
  BY ClientStep
<1> QED  BY <1>1, <1>2, PTL DEF ProducerSpec

\* A run that gets through flush() has every message of its file on the topic,
\* but for those the client gave up: of what it was handed the client loses
\* track of nothing, however requests fail and runs are repeated.
THEOREM NothingIsLostInTheClient == ProducerSpec => []FlushedMeansWritten
<1>1. ClientInvariant => FlushedMeansWritten
  <2> SUFFICES ASSUME ClientInvariant, status = "done", NEW m \in Messages
               PROVE  m \in Written \cup expired
    BY DEF FlushedMeansWritten
  <2>1. m \in 1..sent /\ queue = <<>> /\ flight = <<>>
    BY DEF ClientInvariant, ClientTypes
  <2>2. m \in Written \cup expired \/ Waiting(m)
    BY <2>1 DEF ClientInvariant, Accounted
  <2> QED  BY <2>1, <2>2 DEF Waiting
<1> QED  BY <1>1, ClientIsSound, PTL

\* An account's messages are on one partition, in event time, as long as the
\* client does not repeat itself: whatever file it is given, whatever partitioner
\* is used, and however many requests are in flight.
THEOREM AccountsComeInOrder == ProducerSpec => []AccountsInOrder
<1>1. ClientInvariant => AccountsInOrder
  <2> SUFFICES ASSUME ClientInvariant,
                      NEW p \in Partitions, NEW q \in Partitions,
                      NEW i \in DOMAIN topic[p], NEW j \in DOMAIN topic[q],
                      Row(topic[p][i]).name_orig = Row(topic[q][j]).name_orig,
                      {topic[p][i], topic[q][j]} \cap retried = {}
               PROVE  p = q /\ (i < j => /\ topic[p][i] < topic[q][j]
                                         /\ Row(topic[p][i]).step <= Row(topic[q][j]).step)
    BY DEF AccountsInOrder
  <2>1. ClientTypes /\ TopicRises /\ InPartition
    BY DEF ClientInvariant
  <2>2. p = q
    BY <2>1 DEF InPartition, PartitionOfMessage
  <2>3. topic[p][i] \in Messages /\ topic[q][j] \in Messages
    BY <2>1, ClientFacts
  <2>4. ASSUME i < j PROVE topic[p][i] < topic[q][j]
    BY <2>1, <2>2, <2>4 DEF TopicRises, Placed
  <2>5. ASSUME i < j PROVE Row(topic[p][i]).step <= Row(topic[q][j]).step
    BY <2>1, <2>3, <2>4, <2>5 DEF ClientTypes, Ordered, Messages, Row
  <2> QED  BY <2>2, <2>4, <2>5
<1> QED  BY <1>1, ClientIsSound, PTL
=============================================================================
