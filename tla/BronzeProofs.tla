---------------------------- MODULE BronzeProofs ----------------------------
(***************************************************************************)
(* Proofs about BronzeLoader and MonitoredBronze, for every set of dates   *)
(* and file names, every delivery of finitely many rows and every size of  *)
(* a delete request: what the bucket holds, what the silver table makes of *)
(* it, and what the drift monitor and the input contract report.           *)
(***************************************************************************)
EXTENDS MonitoredBronze, FiniteSetTheorems, FunctionTheorems, Induction, TLAPS

(***************************************************************************)
(* Files and partitions.                                                   *)
(***************************************************************************)

\* The next file of an upload is one of those that are left.
LEMMA LowestIsMember ==
    ASSUME NEW S, S \subseteq Nat, S # {}
    PROVE  Lowest(S) \in S
<1>1. \E x \in S : \A y \in S : x <= y
  BY LeastNumber
<1> QED  BY <1>1 DEF Lowest

\* objects are some of the files of v, with their contents.
PartOf(objects, v) ==
    DOMAIN objects \subseteq DOMAIN v /\ \A f \in DOMAIN objects : objects[f] = v[f]

LEMMA SameListing ==
    ASSUME NEW d \in SnapshotDates
    PROVE  Present(d) <=> /\ DOMAIN remote[d] = DOMAIN local[d]
                          /\ \A f \in DOMAIN local[d] : remote[d][f].size = local[d][f].size
<1> DEFINE r == remote[d]
           l == local[d]
<1>1. Present(d) <=> [f \in DOMAIN r |-> r[f].size] = [f \in DOMAIN l |-> l[f].size]
  BY DEF Present, RemoteObjects, Listing
<1> HIDE DEF r, l
<1>2. [f \in DOMAIN r |-> r[f].size] = [f \in DOMAIN l |-> l[f].size]
      <=> DOMAIN r = DOMAIN l /\ \A f \in DOMAIN l : r[f].size = l[f].size
  OBVIOUS
<1> QED  BY <1>1, <1>2 DEF r, l

LEMMA OneFileMore ==
    ASSUME NEW objects, NEW f, NEW content
    PROVE  /\ DOMAIN Put(objects, f, content) = DOMAIN objects \cup {f}
           /\ Put(objects, f, content)[f] = content
           /\ \A g \in DOMAIN objects \ {f} : Put(objects, f, content)[g] = objects[g]
           /\ IsAFunction(Put(objects, f, content))
BY DEF Put, IsAFunction

-----------------------------------------------------------------------------
(***************************************************************************)
(* Types, and where in its run the loader can be.                          *)
(***************************************************************************)
Accounts == [ runs : Nat, forced : Nat, deaths : Nat, deliveries : [SnapshotDates -> Nat] ]
RunRecords == [ pc : {"compare", "delete", "upload", "done", "exited"},
                todo : SUBSET SnapshotDates, scope : SUBSET SnapshotDates,
                part : SnapshotDates \cup {AllDates}, files : SUBSET FileNames,
                force : BOOLEAN, dry : BOOLEAN ]
Prefixes == [d \in SnapshotDates |-> remote[d]]

LoaderTypes ==
    /\ local \in [SnapshotDates -> Deliveries \cup {NotDelivered}]
    /\ remote = Prefixes
    /\ \A d \in SnapshotDates : IsAFunction(remote[d]) /\ DOMAIN remote[d] \subseteq FileNames
    /\ delivered \in [SnapshotDates -> SUBSET Deliveries]
    /\ redelivered \subseteq SnapshotDates /\ torn \subseteq SnapshotDates
    /\ transfers \in [SnapshotDates -> Nat]
    /\ paid \in Accounts
    /\ run \in RunRecords

Moving == run.pc \in {"delete", "upload"}

\* The run works on a partition it was asked for and has not dealt with, and
\* what was delivered once stays delivered.
Course ==
    /\ run.todo \subseteq run.scope
    /\ \A d \in run.scope : local[d] # NotDelivered
    /\ Moving => run.part \in run.todo /\ ~run.dry
    /\ ~Moving => run.part = AllDates
    /\ run.pc \in {"done", "exited"} => run.todo = {}
    /\ run.pc = "exited" => run.scope = {}
    /\ \A d \in SnapshotDates : local[d] # NotDelivered => local[d] \in delivered[d]

LEMMA CourseInit == LoaderInit => LoaderTypes /\ Course
<1> SUFFICES ASSUME LoaderInit PROVE LoaderTypes /\ Course
  OBVIOUS
<1>1. /\ local \in [SnapshotDates -> Deliveries \cup {NotDelivered}]
      /\ delivered = [d \in SnapshotDates |-> {local[d]} \ {NotDelivered}]
      /\ paid.deliveries = [d \in SnapshotDates |-> Cardinality(delivered[d])]
  BY DEF LoaderInit
<1>2. ASSUME NEW d \in SnapshotDates PROVE Cardinality(delivered[d]) \in Nat
  <2>1. IsFiniteSet({local[d]}) /\ IsFiniteSet({})
    BY FS_Singleton, FS_EmptySet
  <2>2. delivered[d] = {} \/ delivered[d] = {local[d]}
    BY <1>1
  <2> QED  BY <2>1, <2>2, FS_CardinalityType
<1>3. paid.deliveries \in [SnapshotDates -> Nat]
  BY <1>1, <1>2
<1>4. \A d \in SnapshotDates : IsAFunction(Nothing) /\ DOMAIN Nothing = {}
  BY DEF Nothing, IsAFunction
<1>5. LoaderTypes
  BY <1>1, <1>3, <1>4 DEF LoaderInit, LoaderTypes, Prefixes, Exited, Accounts, RunRecords
<1> QED  BY <1>1, <1>5 DEF LoaderInit, Course, Exited, Moving

\* What is paid for only grows.
LEMMA PaidOnce ==
    ASSUME NEW a \in Accounts, NEW d \in SnapshotDates
    PROVE  [a EXCEPT !.deliveries[d] = @ + 1] \in Accounts
BY DEF Accounts

LEMMA PaidForRun ==
    ASSUME NEW a \in Accounts, NEW b \in BOOLEAN
    PROVE  LET after == [a EXCEPT !.runs = @ + 1, !.forced = @ + (IF b THEN 1 ELSE 0)]
           IN  /\ after \in Accounts
               /\ after.forced = a.forced + (IF b THEN 1 ELSE 0)
               /\ after.deaths = a.deaths /\ after.deliveries = a.deliveries
<1>1. a.runs + 1 \in Nat /\ a.forced + (IF b THEN 1 ELSE 0) \in Nat
  BY DEF Accounts
<1> QED  BY <1>1 DEF Accounts

LEMMA TurnIsToDo ==
    ASSUME LoaderTypes, NEW d \in SnapshotDates, Turn(d)
    PROVE  d \in run.todo
<1>1. run.todo \subseteq Nat
  BY LoaderAssumption DEF LoaderTypes, RunRecords
<1> QED  BY <1>1, LowestIsMember DEF Turn

LEMMA TypesStep ==
    ASSUME LoaderTypes, Course, [LoaderNext]_loaderVars
    PROVE  LoaderTypes'
<1> USE DEF LoaderTypes, Prefixes
<1>1. ASSUME NEW d \in SnapshotDates, NEW v \in Deliveries, Redeliver(d, v) PROVE LoaderTypes'
  <2>1. paid' \in Accounts
    BY <1>1, PaidOnce DEF Redeliver
  <2>2. delivered' \in [SnapshotDates -> SUBSET Deliveries]
    BY <1>1 DEF Redeliver
  <2> QED  BY <1>1, <2>1, <2>2 DEF Redeliver
<1>2. ASSUME NEW force \in BOOLEAN, NEW dry \in BOOLEAN, NEW only \in SnapshotDates \cup {AllDates},
             Start(force, dry, only)
      PROVE  LoaderTypes'
  <2>1. paid' \in Accounts
    BY <1>2, PaidForRun DEF Start
  <2> QED  BY <1>2, <2>1 DEF Start, Exited, Partitions, RunRecords
<1>3. ASSUME NEW d \in SnapshotDates, SkipPartition(d) PROVE LoaderTypes'
  BY <1>3 DEF SkipPartition, RunRecords
<1>4. ASSUME NEW d \in SnapshotDates, ReplacePartition(d) PROVE LoaderTypes'
  <2>1. local[d] \in Deliveries
    BY <1>4, TurnIsToDo DEF ReplacePartition, Course
  <2>2. DOMAIN local[d] \in SUBSET FileNames
    BY <2>1, LoaderAssumption
  <2>3. run' \in RunRecords
    BY <1>4, <2>2 DEF ReplacePartition, RunRecords
  <2>4. transfers' \in [SnapshotDates -> Nat]
    BY <1>4 DEF ReplacePartition
  <2> QED  BY <1>4, <2>3, <2>4 DEF ReplacePartition
<1>5. CASE DeleteBatch
  <2>1. run.part \in SnapshotDates
    BY <1>5 DEF DeleteBatch, Course, Moving, RunRecords
  <2>2. PICK batch \in SUBSET DOMAIN remote[run.part] :
          /\ remote' = [remote EXCEPT ![run.part] = Restrict(@, DOMAIN remote[run.part] \ batch)]
          /\ run' \in {Uploading, run}
    BY <1>5 DEF DeleteBatch, RemoteObjects, Listing
  <2>3. /\ IsAFunction(remote'[run.part])
        /\ DOMAIN remote'[run.part] \subseteq FileNames
    BY <2>1, <2>2 DEF Restrict, IsAFunction
  <2> QED  BY <1>5, <2>1, <2>2, <2>3 DEF DeleteBatch, Uploading, RunRecords
<1>6. CASE UploadFile
  <2> DEFINE f == Lowest(run.files)
  <2>1. run.part \in SnapshotDates /\ run.files \subseteq FileNames
    BY <1>6 DEF UploadFile, Course, Moving, RunRecords
  <2>2. f \in FileNames
    BY <1>6, <2>1, LowestIsMember, LoaderAssumption DEF UploadFile
  <2>3. remote' = [remote EXCEPT ![run.part] = Put(@, f, local[run.part][f])]
    BY <1>6 DEF UploadFile
  <2> HIDE DEF f
  <2>4. /\ IsAFunction(remote'[run.part])
        /\ DOMAIN remote'[run.part] \subseteq FileNames
    <3>1. remote'[run.part] = Put(remote[run.part], f, local[run.part][f])
      BY <2>1, <2>3
    <3>2. DOMAIN remote[run.part] \subseteq FileNames
      BY <2>1
    <3>3. /\ IsAFunction(Put(remote[run.part], f, local[run.part][f]))
          /\ DOMAIN Put(remote[run.part], f, local[run.part][f]) = DOMAIN remote[run.part] \cup {f}
      BY OneFileMore, ZenonT(20)
    <3> QED  BY <2>2, <3>1, <3>2, <3>3, Zenon
  <2>5. run' \in RunRecords
    BY <1>6, <2>1 DEF UploadFile, RunRecords
  <2> QED  BY <1>6, <2>1, <2>3, <2>4, <2>5 DEF UploadFile
<1>7. CASE NextPartition \/ Finish
  <2>1. run.todo \ {run.part} \in SUBSET SnapshotDates
    BY DEF RunRecords
  <2>2. run' \in RunRecords
    BY <1>7, <2>1 DEF NextPartition, Finish, RunRecords
  <2> QED  BY <1>7, <2>2 DEF NextPartition, Finish
<1>8. CASE LoadFails
  <2>1. run' \in RunRecords
    BY <1>8 DEF LoadFails, Exited, RunRecords
  <2>2. paid' \in Accounts
    BY <1>8 DEF LoadFails, Accounts
  <2> QED  BY <1>8, <2>1, <2>2 DEF LoadFails
<1>9. CASE UNCHANGED loaderVars
  BY <1>9 DEF loaderVars
<1> QED  BY <1>1, <1>2, <1>3, <1>4, <1>5, <1>6, <1>7, <1>8, <1>9 DEF LoaderNext, Load

LEMMA CourseStep ==
    ASSUME LoaderTypes, Course, [LoaderNext]_loaderVars
    PROVE  Course'
<1> USE DEF Course, Moving
<1>1. ASSUME NEW d \in SnapshotDates, NEW v \in Deliveries, Redeliver(d, v) PROVE Course'
  <2>1. v # NotDelivered
    BY LoaderAssumption
  <2> QED  BY <1>1, <2>1 DEF Redeliver, LoaderTypes, RunRecords
<1>2. ASSUME NEW force \in BOOLEAN, NEW dry \in BOOLEAN, NEW only \in SnapshotDates \cup {AllDates},
             Start(force, dry, only)
      PROVE  Course'
  BY <1>2 DEF Start, Exited, Partitions
<1>3. ASSUME NEW d \in SnapshotDates, SkipPartition(d) PROVE Course'
  BY <1>3 DEF SkipPartition, Turn, LoaderTypes, RunRecords
<1>4. ASSUME NEW d \in SnapshotDates, ReplacePartition(d) PROVE Course'
  <2>1. d \in run.todo
    BY <1>4, TurnIsToDo DEF ReplacePartition
  <2> QED  BY <1>4, <2>1 DEF ReplacePartition, LoaderTypes, RunRecords
<1>5. CASE DeleteBatch
  BY <1>5 DEF DeleteBatch, Uploading, LoaderTypes, RunRecords
<1>6. CASE UploadFile
  BY <1>6 DEF UploadFile, LoaderTypes, RunRecords
<1>7. CASE NextPartition \/ Finish
  <2>1. CASE NextPartition
    <3>1. /\ run'.pc = "compare" /\ run'.part = AllDates /\ run'.scope = run.scope
          /\ run'.todo = run.todo \ {run.part}
      BY <2>1 DEF NextPartition, LoaderTypes, RunRecords
    <3> QED  BY <2>1, <3>1 DEF NextPartition
  <2>2. CASE Finish
    BY <2>2 DEF Finish, LoaderTypes, RunRecords
  <2> QED  BY <1>7, <2>1, <2>2
<1>8. CASE LoadFails
  BY <1>8 DEF LoadFails, Exited
<1>9. CASE UNCHANGED loaderVars
  BY <1>9 DEF loaderVars
<1> QED  BY <1>1, <1>2, <1>3, <1>4, <1>5, <1>6, <1>7, <1>8, <1>9 DEF LoaderNext, Load

-----------------------------------------------------------------------------
(***************************************************************************)
(* The inductive invariant.                                                *)
(***************************************************************************)

\* What may call for a transfer of d, so far.
Price(d) == paid.deliveries[d] + paid.forced + paid.deaths

\* An upload under way will leave what the source holds.
OnTrack(d) ==
    /\ run.pc = "delete" => run.files = DOMAIN local[d]
    /\ run.pc = "upload" => /\ run.files \subseteq DOMAIN local[d]
                            /\ DOMAIN remote[d] = DOMAIN local[d] \ run.files
                            /\ PartOf(remote[d], local[d])

UploadsOnTrack ==
    \A d \in SnapshotDates :
        run.part = d /\ (d \notin redelivered \/ transfers[d] = Price(d)) => OnTrack(d)

\* A date without credit needs no transfer: it is there, and no forced run is
\* going to replace it.
Credit ==
    \A d \in SnapshotDates :
        /\ transfers[d] <= Price(d)
        /\ (transfers[d] = Price(d) /\ local[d] # NotDelivered /\ run.part # d) => Present(d)
        /\ (run.force /\ ~run.dry /\ d \in run.todo \ {run.part}) => transfers[d] < Price(d)

\* What a run has dealt with is as it should be, unless it was delivered again.
DealtWith ==
    ~run.dry => \A d \in run.scope \ (run.todo \cup redelivered) :
                    Present(d) /\ (run.force => remote[d] = local[d])

\* A partition is part of one delivery, and while it is uploaded of the present
\* one.
Whole ==
    \A d \in SnapshotDates \ torn :
        /\ run.pc = "upload" /\ run.part = d => PartOf(remote[d], local[d])
        /\ remote[d] # Nothing => \E v \in delivered[d] : PartOf(remote[d], v)

LoaderInvariant ==
    LoaderTypes /\ Course /\ UploadsOnTrack /\ Credit /\ DealtWith /\ Whole

\* A delivery, without the bound on their number.
LEMMA AfterDelivery ==
    ASSUME NEW e, NEW v, Redeliver(e, v)
    PROVE  /\ local' = [local EXCEPT ![e] = v]
           /\ delivered' = [delivered EXCEPT ![e] = @ \cup {v}]
           /\ redelivered' = redelivered \cup {e}
           /\ torn' = IF run.pc = "upload" /\ run.part = e THEN torn \cup {e} ELSE torn
           /\ paid' = [paid EXCEPT !.deliveries[e] = @ + 1]
           /\ remote' = remote /\ run' = run /\ transfers' = transfers
BY Zenon DEF Redeliver

LEMMA PriceIsNumber ==
    ASSUME LoaderTypes, NEW d \in SnapshotDates
    PROVE  Price(d) \in Nat /\ transfers[d] \in Nat
BY DEF LoaderTypes, Accounts, Price

\* A delivery pays for its date, a forced run for all of them, and so does a
\* death.
LEMMA PriceOfDelivery ==
    ASSUME LoaderTypes, NEW e \in SnapshotDates, NEW v, Redeliver(e, v), NEW d \in SnapshotDates
    PROVE  Price(d)' = Price(d) + (IF d = e THEN 1 ELSE 0)
<1>1. paid' = [paid EXCEPT !.deliveries[e] = @ + 1]
  BY AfterDelivery
<1>2. /\ paid'.forced = paid.forced /\ paid'.deaths = paid.deaths
      /\ paid'.deliveries[d] = paid.deliveries[d] + (IF d = e THEN 1 ELSE 0)
  BY <1>1 DEF LoaderTypes, Accounts
<1>3. paid.deliveries[d] \in Nat /\ paid.forced \in Nat /\ paid.deaths \in Nat
  BY DEF LoaderTypes, Accounts
<1> QED  BY <1>2, <1>3 DEF Price

LEMMA PriceOfRun ==
    ASSUME LoaderTypes, NEW force \in BOOLEAN, NEW dry \in BOOLEAN, NEW only,
           Start(force, dry, only), NEW d \in SnapshotDates
    PROVE  Price(d)' = Price(d) + (IF force /\ ~dry THEN 1 ELSE 0)
<1>1. /\ paid'.forced = paid.forced + (IF force /\ ~dry THEN 1 ELSE 0)
      /\ paid'.deaths = paid.deaths /\ paid'.deliveries = paid.deliveries
  BY PaidForRun DEF Start, LoaderTypes
<1>2. paid.deliveries[d] \in Nat /\ paid.forced \in Nat /\ paid.deaths \in Nat
  BY DEF LoaderTypes, Accounts
<1> QED  BY <1>1, <1>2 DEF Price

LEMMA PriceOfDeath ==
    ASSUME LoaderTypes, paid' = [paid EXCEPT !.deaths = @ + 1], NEW d \in SnapshotDates
    PROVE  Price(d)' = Price(d) + 1
BY DEF LoaderTypes, Accounts, Price

LEMMA NothingPaid ==
    ASSUME UNCHANGED paid, NEW d
    PROVE  Price(d)' = Price(d)
BY DEF Price

\* What an action does to the record of the run.
LEMMA RunAfter ==
    ASSUME LoaderTypes
    PROVE  /\ \A d : SkipPartition(d) =>
                 run' = [run EXCEPT !.todo = @ \ {d}] /\ run'.todo = run.todo \ {d}
                 /\ run'.pc = run.pc /\ run'.part = run.part /\ run'.files = run.files
                 /\ run'.scope = run.scope /\ run'.force = run.force /\ run'.dry = run.dry
           /\ \A d : ReplacePartition(d) =>
                 /\ run'.pc = "delete" /\ run'.part = d /\ run'.files = DOMAIN local[d]
                 /\ run'.todo = run.todo /\ run'.scope = run.scope
                 /\ run'.force = run.force /\ run'.dry = run.dry
           /\ UploadFile =>
                 /\ run'.files = run.files \ {Lowest(run.files)}
                 /\ run'.pc = run.pc /\ run'.part = run.part /\ run'.todo = run.todo
                 /\ run'.scope = run.scope /\ run'.force = run.force /\ run'.dry = run.dry
           /\ NextPartition =>
                 /\ run'.pc = "compare" /\ run'.part = AllDates /\ run'.files = run.files
                 /\ run'.todo = run.todo \ {run.part} /\ run'.scope = run.scope
                 /\ run'.force = run.force /\ run'.dry = run.dry
           /\ Finish =>
                 /\ run'.pc = "done" /\ run'.part = run.part /\ run'.files = run.files
                 /\ run'.todo = run.todo /\ run'.scope = run.scope
                 /\ run'.force = run.force /\ run'.dry = run.dry
           /\ DeleteBatch =>
                 /\ run'.pc \in {"delete", "upload"} /\ run'.part = run.part
                 /\ run'.files = run.files /\ run'.todo = run.todo /\ run'.scope = run.scope
                 /\ run'.force = run.force /\ run'.dry = run.dry
<1> USE DEF LoaderTypes, RunRecords
<1>1. \A d : SkipPartition(d) =>
         run' = [run EXCEPT !.todo = @ \ {d}] /\ run'.todo = run.todo \ {d}
         /\ run'.pc = run.pc /\ run'.part = run.part /\ run'.files = run.files
         /\ run'.scope = run.scope /\ run'.force = run.force /\ run'.dry = run.dry
  BY DEF SkipPartition
<1>2. \A d : ReplacePartition(d) =>
         /\ run'.pc = "delete" /\ run'.part = d /\ run'.files = DOMAIN local[d]
         /\ run'.todo = run.todo /\ run'.scope = run.scope
         /\ run'.force = run.force /\ run'.dry = run.dry
  BY DEF ReplacePartition
<1>3. UploadFile =>
         /\ run'.files = run.files \ {Lowest(run.files)}
         /\ run'.pc = run.pc /\ run'.part = run.part /\ run'.todo = run.todo
         /\ run'.scope = run.scope /\ run'.force = run.force /\ run'.dry = run.dry
  BY DEF UploadFile
<1>4. NextPartition =>
         /\ run'.pc = "compare" /\ run'.part = AllDates /\ run'.files = run.files
         /\ run'.todo = run.todo \ {run.part} /\ run'.scope = run.scope
         /\ run'.force = run.force /\ run'.dry = run.dry
  BY DEF NextPartition
<1>5. Finish =>
         /\ run'.pc = "done" /\ run'.part = run.part /\ run'.files = run.files
         /\ run'.todo = run.todo /\ run'.scope = run.scope
         /\ run'.force = run.force /\ run'.dry = run.dry
  BY DEF Finish
<1>6. DeleteBatch =>
         /\ run'.pc \in {"delete", "upload"} /\ run'.part = run.part
         /\ run'.files = run.files /\ run'.todo = run.todo /\ run'.scope = run.scope
         /\ run'.force = run.force /\ run'.dry = run.dry
  BY DEF DeleteBatch, Uploading
<1> QED  BY <1>1, <1>2, <1>3, <1>4, <1>5, <1>6

\* What an action does to the objects of the partition at work.
LEMMA RemoteAfterDelete ==
    ASSUME LoaderTypes, Course, DeleteBatch
    PROVE  /\ run.part \in run.todo /\ run.part \in SnapshotDates
           /\ \A d \in SnapshotDates \ {run.part} : remote'[d] = remote[d]
           /\ PartOf(remote'[run.part], remote[run.part])
           /\ run'.pc = "upload" => remote'[run.part] = Nothing
<1>1. run.part \in run.todo /\ run.part \in SnapshotDates
  BY DEF DeleteBatch, Course, Moving, LoaderTypes, RunRecords
<1>2. PICK batch \in SUBSET DOMAIN remote[run.part] :
          /\ remote' = [remote EXCEPT ![run.part] = Restrict(@, DOMAIN remote[run.part] \ batch)]
          /\ run' = IF batch = DOMAIN remote[run.part] THEN Uploading ELSE run
  BY DEF DeleteBatch, RemoteObjects, Listing
<1>3. remote'[run.part] = Restrict(remote[run.part], DOMAIN remote[run.part] \ batch)
  BY <1>1, <1>2 DEF LoaderTypes, Prefixes
<1>4. PartOf(remote'[run.part], remote[run.part])
  BY <1>3 DEF PartOf, Restrict
<1>5. ASSUME run'.pc = "upload" PROVE remote'[run.part] = Nothing
  <2>1. run.pc = "delete"
    BY DEF DeleteBatch
  <2>2. batch = DOMAIN remote[run.part]
    BY <1>2, <1>5, <2>1
  <2>3. DOMAIN remote[run.part] \ batch = {}
    BY <2>2
  <2> QED  BY <1>3, <2>3 DEF Restrict, Nothing
<1>6. \A d \in SnapshotDates \ {run.part} : remote'[d] = remote[d]
  BY <1>2 DEF LoaderTypes, Prefixes
<1> QED  BY <1>1, <1>4, <1>5, <1>6

LEMMA RemoteAfterUpload ==
    ASSUME LoaderTypes, Course, UploadFile
    PROVE  /\ run.part \in run.todo /\ run.part \in SnapshotDates
           /\ \A d \in SnapshotDates \ {run.part} : remote'[d] = remote[d]
           /\ \E f \in run.files :
                 /\ f = Lowest(run.files) /\ f \in DOMAIN local[run.part]
                 /\ DOMAIN remote'[run.part] = DOMAIN remote[run.part] \cup {f}
                 /\ remote'[run.part][f] = local[run.part][f]
                 /\ \A g \in DOMAIN remote[run.part] \ {f} :
                        remote'[run.part][g] = remote[run.part][g]
<1> DEFINE f == Lowest(run.files)
           p == run.part
<1>1. p \in run.todo /\ p \in SnapshotDates
  BY DEF UploadFile, Course, Moving, LoaderTypes, RunRecords
<1>2. f \in run.files
  <2>1. run.files \subseteq Nat
    BY LoaderAssumption DEF LoaderTypes, RunRecords
  <2> QED  BY <2>1, LowestIsMember DEF UploadFile
<1>3. remote' = [remote EXCEPT ![p] = Put(@, f, local[p][f])] /\ f \in DOMAIN local[p]
  BY DEF UploadFile
<1> HIDE DEF f, p
<1>4. remote'[p] = Put(remote[p], f, local[p][f])
  BY <1>1, <1>3 DEF LoaderTypes, Prefixes
<1>5. \A d \in SnapshotDates \ {p} : remote'[d] = remote[d]
  BY <1>3 DEF LoaderTypes, Prefixes
<1>6. /\ DOMAIN remote'[p] = DOMAIN remote[p] \cup {f}
      /\ remote'[p][f] = local[p][f]
      /\ \A g \in DOMAIN remote[p] \ {f} : remote'[p][g] = remote[p][g]
  BY <1>4 DEF Put
<1>7. \E g \in run.files :
          /\ g = f /\ g \in DOMAIN local[p]
          /\ DOMAIN remote'[p] = DOMAIN remote[p] \cup {g}
          /\ remote'[p][g] = local[p][g]
          /\ \A h \in DOMAIN remote[p] \ {g} : remote'[p][h] = remote[p][h]
  BY <1>2, <1>3, <1>6, Zenon
<1> QED  BY <1>1, <1>5, <1>7, Zenon DEF f, p

-----------------------------------------------------------------------------
LEMMA InvariantInit == LoaderInit => LoaderInvariant
<1> SUFFICES ASSUME LoaderInit PROVE LoaderInvariant
  OBVIOUS
<1>1. LoaderTypes /\ Course
  BY CourseInit
<1>2. /\ run = Exited /\ redelivered = {} /\ torn = {}
      /\ remote = [d \in SnapshotDates |-> Nothing]
      /\ transfers = [d \in SnapshotDates |-> 0]
      /\ paid = [runs |-> 0, forced |-> 0, deaths |-> 0,
                 deliveries |-> [d \in SnapshotDates |-> Cardinality(delivered[d])]]
      /\ delivered = [d \in SnapshotDates |-> {local[d]} \ {NotDelivered}]
  BY DEF LoaderInit
<1>3. UploadsOnTrack /\ DealtWith
  BY <1>2, LoaderAssumption DEF UploadsOnTrack, DealtWith, Exited
<1>4. ASSUME NEW d \in SnapshotDates
      PROVE  /\ transfers[d] <= Price(d)
             /\ local[d] # NotDelivered => transfers[d] # Price(d)
  <2>1. transfers[d] = 0 /\ Price(d) = Cardinality(delivered[d])
    <3>1. Cardinality(delivered[d]) \in Nat
      BY <1>1, <1>2 DEF LoaderTypes, Accounts
    <3> QED  BY <1>2, <3>1 DEF Price
  <2>2. CASE local[d] = NotDelivered
    BY <2>1, <2>2, <1>1, PriceIsNumber
  <2>3. CASE local[d] # NotDelivered
    <3>1. delivered[d] = {local[d]}
      BY <1>2, <2>3
    <3>2. Cardinality({local[d]}) = 1
      BY FS_Singleton
    <3> QED  BY <2>1, <3>1, <3>2
  <2> QED  BY <2>2, <2>3
<1>5. Credit
  BY <1>2, <1>4 DEF Credit, Exited
<1>6. Whole
  BY <1>2 DEF Whole, Exited
<1> QED  BY <1>1, <1>3, <1>5, <1>6 DEF LoaderInvariant

-----------------------------------------------------------------------------
(***************************************************************************)
(* The invariant is preserved, part by part.                               *)
(***************************************************************************)
LEMMA UploadsStep ==
    ASSUME LoaderInvariant, [LoaderNext]_loaderVars
    PROVE  UploadsOnTrack'
<1> USE DEF LoaderInvariant
<1>1. SUFFICES ASSUME NEW d \in SnapshotDates, run'.part = d,
                      d \notin redelivered' \/ transfers'[d] = Price(d)'
               PROVE  OnTrack(d)'
  BY DEF UploadsOnTrack
<1>2. OnTrack(d) /\ UNCHANGED <<run, remote, local>> => OnTrack(d)'
  BY DEF OnTrack
<1>3. /\ Price(d) \in Nat /\ transfers[d] \in Nat /\ transfers[d] <= Price(d)
      /\ run.part = d /\ (d \notin redelivered \/ transfers[d] = Price(d)) => OnTrack(d)
  BY PriceIsNumber DEF Credit, UploadsOnTrack
<1>4. ASSUME NEW e \in SnapshotDates, NEW v \in Deliveries, Redeliver(e, v) PROVE OnTrack(d)'
  <2>0. Price(d)' = Price(d) + (IF d = e THEN 1 ELSE 0)
    BY <1>4, PriceOfDelivery
  <2>1. d # e
    BY <1>1, <1>3, <1>4, <2>0, AfterDelivery
  <2>2. local'[d] = local[d] /\ UNCHANGED <<run, remote, transfers>> /\ Price(d)' = Price(d)
    BY <1>4, <1>3, <2>0, <2>1, AfterDelivery DEF LoaderTypes
  <2>3. d \notin redelivered' => d \notin redelivered
    BY <1>4, AfterDelivery
  <2> QED  BY <1>1, <1>3, <2>2, <2>3 DEF OnTrack
<1>5. ASSUME NEW force \in BOOLEAN, NEW dry \in BOOLEAN, NEW only \in SnapshotDates \cup {AllDates},
             Start(force, dry, only)
      PROVE  OnTrack(d)'
  BY <1>5 DEF Start, Exited, OnTrack
<1>6. ASSUME NEW e \in SnapshotDates, SkipPartition(e) PROVE OnTrack(d)'
  BY <1>6, RunAfter DEF SkipPartition, Turn, OnTrack
<1>7. ASSUME NEW e \in SnapshotDates, ReplacePartition(e) PROVE OnTrack(d)'
  <2>1. run'.pc = "delete" /\ run'.part = e /\ run'.files = DOMAIN local[e]
    BY <1>7, RunAfter
  <2> QED  BY <1>1, <1>7, <2>1 DEF ReplacePartition, OnTrack
<1>8. CASE DeleteBatch
  <2>1. run'.part = run.part /\ run'.files = run.files
    BY <1>8, RunAfter
  <2>2. run.files = DOMAIN local[d]
    BY <1>1, <1>3, <1>8, <2>1, NothingPaid DEF DeleteBatch, OnTrack
  <2>3. run'.pc = "upload" => remote'[d] = Nothing
    BY <1>1, <1>8, <2>1, RemoteAfterDelete
  <2>4. DOMAIN Nothing = {}
    BY DEF Nothing
  <2> QED  BY <1>8, <2>1, <2>2, <2>3, <2>4 DEF DeleteBatch, OnTrack, PartOf
<1>9. CASE UploadFile
  <2>1. run'.part = run.part /\ run'.pc = "upload" /\ run.pc = "upload"
        /\ run'.files = run.files \ {Lowest(run.files)}
    BY <1>9, RunAfter DEF UploadFile
  <2>2. OnTrack(d) /\ UNCHANGED local
    BY <1>1, <1>3, <1>9, <2>1, NothingPaid DEF UploadFile
  <2>3. PICK f \in run.files :
           /\ f = Lowest(run.files) /\ f \in DOMAIN local[d]
           /\ DOMAIN remote'[d] = DOMAIN remote[d] \cup {f}
           /\ remote'[d][f] = local[d][f]
           /\ \A g \in DOMAIN remote[d] \ {f} : remote'[d][g] = remote[d][g]
    BY <1>1, <1>9, <2>1, RemoteAfterUpload
  <2>4. /\ run'.files \subseteq DOMAIN local[d]
        /\ DOMAIN remote'[d] = DOMAIN local[d] \ run'.files
    BY <2>1, <2>2, <2>3 DEF OnTrack
  <2>5. PartOf(remote'[d], local[d])
    BY <2>1, <2>2, <2>3 DEF OnTrack, PartOf
  <2> QED  BY <2>1, <2>2, <2>4, <2>5 DEF OnTrack, PartOf
<1>10. CASE NextPartition
  BY <1>10, RunAfter DEF OnTrack
<1>11. CASE Finish
  BY <1>11, RunAfter DEF OnTrack
<1>12. CASE LoadFails
  BY <1>12 DEF LoadFails, Exited, OnTrack
<1>13. CASE UNCHANGED loaderVars
  <2>1. Price(d)' = Price(d)
    BY <1>13, NothingPaid DEF loaderVars
  <2> QED  BY <1>1, <1>2, <1>3, <1>13, <2>1 DEF loaderVars
<1> QED  BY <1>4, <1>5, <1>6, <1>7, <1>8, <1>9, <1>10, <1>11, <1>12, <1>13 DEF LoaderNext, Load

LEMMA PresentStays ==
    ASSUME NEW d, remote'[d] = remote[d], local'[d] = local[d]
    PROVE  Present(d)' <=> Present(d)
BY DEF Present, RemoteObjects, Listing

\* An upload that is on track and has no file left is present.
LEMMA UploadedIsPresent ==
    ASSUME NEW d \in SnapshotDates, OnTrack(d), run.pc = "upload", run.files = {}
    PROVE  Present(d) /\ DOMAIN remote[d] = DOMAIN local[d] /\ PartOf(remote[d], local[d])
BY SameListing DEF OnTrack, PartOf

LEMMA CreditStep ==
    ASSUME LoaderInvariant, [LoaderNext]_loaderVars
    PROVE  Credit'
<1> USE DEF LoaderInvariant
<1> DEFINE Due(d) ==
      /\ transfers[d] <= Price(d)
      /\ (transfers[d] = Price(d) /\ local[d] # NotDelivered /\ run.part # d) => Present(d)
      /\ (run.force /\ ~run.dry /\ d \in run.todo \ {run.part}) => transfers[d] < Price(d)
<1>1. SUFFICES ASSUME NEW d \in SnapshotDates PROVE Due(d)'
  BY DEF Credit
<1>2. Price(d) \in Nat /\ transfers[d] \in Nat /\ Due(d)
  BY PriceIsNumber DEF Credit
<1>3. d # AllDates
  BY LoaderAssumption
<1>4. ASSUME NEW e \in SnapshotDates, NEW v \in Deliveries, Redeliver(e, v) PROVE Due(d)'
  <2>1. Price(d)' = Price(d) + (IF d = e THEN 1 ELSE 0) /\ UNCHANGED <<run, remote, transfers>>
    BY <1>4, PriceOfDelivery, AfterDelivery
  <2>2. CASE d = e
    BY <1>2, <2>1, <2>2
  <2>3. CASE d # e
    <3>1. local'[d] = local[d]
      BY <1>4, <2>3, AfterDelivery DEF LoaderTypes
    <3> QED  BY <1>2, <2>1, <2>3, <3>1, PresentStays
  <2> QED  BY <2>2, <2>3
<1>5. ASSUME NEW force \in BOOLEAN, NEW dry \in BOOLEAN, NEW only \in SnapshotDates \cup {AllDates},
             Start(force, dry, only)
      PROVE  Due(d)'
  <2>1. Price(d)' = Price(d) + (IF force /\ ~dry THEN 1 ELSE 0)
    BY <1>5, PriceOfRun
  <2>2. UNCHANGED <<local, remote, transfers>> /\ run'.force = force /\ run'.dry = dry
    BY <1>5 DEF Start, Exited
  <2>3. run.part # d
    BY <1>3, <1>5 DEF Start, Working, Course, Moving
  <2> QED  BY <1>2, <2>1, <2>2, <2>3, PresentStays
<1>6. ASSUME NEW e \in SnapshotDates, SkipPartition(e) PROVE Due(d)'
  <2>1. UNCHANGED <<local, remote, transfers>> /\ Price(d)' = Price(d)
    BY <1>6, NothingPaid DEF SkipPartition
  <2>2. run'.todo \subseteq run.todo /\ run'.part = run.part
        /\ run'.force = run.force /\ run'.dry = run.dry
    BY <1>6, RunAfter
  <2> QED  BY <1>2, <2>1, <2>2, PresentStays
<1>7. ASSUME NEW e \in SnapshotDates, ReplacePartition(e) PROVE Due(d)'
  <2>1. UNCHANGED <<local, remote>> /\ Price(d)' = Price(d)
        /\ transfers' = [transfers EXCEPT ![e] = @ + 1]
    BY <1>7, NothingPaid DEF ReplacePartition
  <2>2. /\ run'.part = e /\ run'.todo = run.todo
        /\ run'.force = run.force /\ run'.dry = run.dry
    BY <1>7, RunAfter
  <2>3. run.part = AllDates
    BY <1>7 DEF ReplacePartition, Turn, Course, Moving
  <2>4. CASE d = e
    <3>1. d \in run.todo /\ local[d] # NotDelivered
      BY <1>7, <2>4, TurnIsToDo DEF ReplacePartition, Course
    <3>2. transfers[d] # Price(d)
      BY <1>2, <1>3, <1>7, <2>3, <2>4, <3>1 DEF ReplacePartition
    <3>3. transfers'[d] = transfers[d] + 1
      BY <2>1, <2>4 DEF LoaderTypes
    <3> QED  BY <1>2, <2>1, <2>2, <2>4, <3>2, <3>3
  <2>5. CASE d # e
    <3>1. transfers'[d] = transfers[d]
      BY <2>1, <2>5 DEF LoaderTypes
    <3> QED  BY <1>2, <1>3, <2>1, <2>2, <2>3, <2>5, <3>1, PresentStays
  <2> QED  BY <2>4, <2>5
<1>8. CASE DeleteBatch \/ UploadFile
  <2>1. UNCHANGED <<local, transfers>> /\ Price(d)' = Price(d)
    BY <1>8, NothingPaid DEF DeleteBatch, UploadFile
  <2>2. /\ run'.part = run.part /\ run'.todo = run.todo
        /\ run'.force = run.force /\ run'.dry = run.dry
    BY <1>8, RunAfter
  <2>3. d # run.part => remote'[d] = remote[d]
    BY <1>8, RemoteAfterDelete, RemoteAfterUpload
  <2> QED  BY <1>2, <2>1, <2>2, <2>3, PresentStays
<1>9. CASE NextPartition
  <2>1. UNCHANGED <<local, remote, transfers>> /\ Price(d)' = Price(d)
    BY <1>9, NothingPaid DEF NextPartition
  <2>2. run'.todo = run.todo \ {run.part} /\ run'.force = run.force /\ run'.dry = run.dry
    BY <1>9, RunAfter
  <2>3. run.part = d /\ transfers[d] = Price(d) => Present(d)
    BY <1>9, UploadedIsPresent DEF NextPartition, UploadsOnTrack
  <2> QED  BY <1>2, <2>1, <2>2, <2>3, PresentStays
<1>10. CASE Finish
  <2>1. UNCHANGED <<local, remote, transfers>> /\ Price(d)' = Price(d)
    BY <1>10, NothingPaid DEF Finish
  <2>2. run'.todo = run.todo /\ run'.part = run.part
        /\ run'.force = run.force /\ run'.dry = run.dry
    BY <1>10, RunAfter
  <2> QED  BY <1>2, <2>1, <2>2, PresentStays
<1>11. CASE LoadFails
  <2>1. UNCHANGED <<local, remote, transfers>> /\ run'.force = FALSE
    BY <1>11 DEF LoadFails, Exited
  <2>2. CASE paid' = [paid EXCEPT !.deaths = @ + 1]
    <3>1. Price(d)' = Price(d) + 1
      BY <2>2, PriceOfDeath
    <3> QED  BY <1>2, <2>1, <3>1
  <2>3. CASE /\ run.pc = "upload" /\ run.files # {} /\ UNCHANGED paid
             /\ Lowest(run.files) \notin DOMAIN local[run.part]
    <3>1. Price(d)' = Price(d)
      BY <2>3, NothingPaid
    <3>2. Lowest(run.files) \in run.files
      <4>1. run.files \subseteq Nat
        BY LoaderAssumption DEF LoaderTypes, RunRecords
      <4> QED  BY <2>3, <4>1, LowestIsMember
    <3>3. run.part = d => transfers[d] # Price(d)
      BY <2>3, <3>2 DEF UploadsOnTrack, OnTrack
    <3> QED  BY <1>2, <2>1, <3>1, <3>3, PresentStays
  <2> QED  BY <1>11, <2>2, <2>3 DEF LoadFails
<1>12. CASE UNCHANGED loaderVars
  <2>1. Price(d)' = Price(d)
    BY <1>12, NothingPaid DEF loaderVars
  <2> QED  BY <1>2, <1>12, <2>1, PresentStays DEF loaderVars
<1> QED  BY <1>4, <1>5, <1>6, <1>7, <1>8, <1>9, <1>10, <1>11, <1>12 DEF LoaderNext, Load

LEMMA DealtWithStep ==
    ASSUME LoaderInvariant, [LoaderNext]_loaderVars
    PROVE  DealtWith'
<1> USE DEF LoaderInvariant
<1> DEFINE Fine(d) == Present(d) /\ (run.force => remote[d] = local[d])
<1>1. SUFFICES ASSUME ~run'.dry, NEW d \in run'.scope, d \notin run'.todo, d \notin redelivered'
               PROVE  Fine(d)'
  BY DEF DealtWith
<1>2. d \in run.scope /\ d \notin run.todo /\ d \notin redelivered /\ ~run.dry => Fine(d)
  BY DEF DealtWith
<1>3. LoaderTypes' /\ d \in SnapshotDates
  BY <1>1, TypesStep DEF LoaderTypes, RunRecords
<1>4. ASSUME UNCHANGED run, remote'[d] = remote[d], local'[d] = local[d], d \notin redelivered
      PROVE  Fine(d)'
  BY <1>1, <1>2, <1>4, PresentStays
<1>5. ASSUME NEW e \in SnapshotDates, NEW v \in Deliveries, Redeliver(e, v) PROVE Fine(d)'
  <2>1. d # e /\ d \notin redelivered
    BY <1>1, <1>5, AfterDelivery
  <2>2. UNCHANGED run /\ remote'[d] = remote[d] /\ local'[d] = local[d]
    BY <1>3, <1>5, <2>1, AfterDelivery DEF LoaderTypes
  <2> QED  BY <1>4, <2>1, <2>2
<1>6. ASSUME NEW force \in BOOLEAN, NEW dry \in BOOLEAN, NEW only \in SnapshotDates \cup {AllDates},
             Start(force, dry, only)
      PROVE  FALSE
  BY <1>1, <1>6 DEF Start, Exited
<1>7. ASSUME NEW e \in SnapshotDates, SkipPartition(e) PROVE Fine(d)'
  <2>1. /\ run'.todo = run.todo \ {e} /\ run'.scope = run.scope
        /\ run'.force = run.force /\ run'.dry = run.dry
        /\ UNCHANGED <<local, remote, redelivered>>
    BY <1>7, RunAfter DEF SkipPartition
  <2>2. d = e => Present(d) /\ ~run.force
    BY <1>1, <1>7, <2>1 DEF SkipPartition
  <2> QED  BY <1>1, <1>2, <2>1, <2>2, PresentStays
<1>8. ASSUME NEW e \in SnapshotDates, ReplacePartition(e) PROVE Fine(d)'
  <2>1. /\ run'.todo = run.todo /\ run'.scope = run.scope
        /\ run'.force = run.force /\ run'.dry = run.dry
        /\ UNCHANGED <<local, remote, redelivered>>
    BY <1>8, RunAfter DEF ReplacePartition
  <2> QED  BY <1>1, <1>2, <2>1, PresentStays
<1>9. CASE DeleteBatch \/ UploadFile
  <2>1. /\ run'.todo = run.todo /\ run'.scope = run.scope
        /\ run'.force = run.force /\ run'.dry = run.dry
        /\ UNCHANGED <<local, redelivered>>
    BY <1>9, RunAfter DEF DeleteBatch, UploadFile
  <2>2. remote'[d] = remote[d]
    BY <1>1, <1>3, <1>9, <2>1, RemoteAfterDelete, RemoteAfterUpload
  <2> QED  BY <1>1, <1>2, <2>1, <2>2, PresentStays
<1>10. CASE NextPartition
  <2>1. /\ run'.todo = run.todo \ {run.part} /\ run'.scope = run.scope
        /\ run'.force = run.force /\ run'.dry = run.dry
        /\ UNCHANGED <<local, remote, redelivered>>
    BY <1>10, RunAfter DEF NextPartition
  <2>2. CASE d = run.part
    <3>1. Present(d) /\ DOMAIN remote[d] = DOMAIN local[d] /\ PartOf(remote[d], local[d])
      BY <1>1, <1>3, <1>10, <2>1, <2>2, UploadedIsPresent DEF NextPartition, UploadsOnTrack
    <3>2. IsAFunction(remote[d]) /\ IsAFunction(local[d])
      <4>1. local[d] \in Deliveries
        BY <1>1, <1>3, <2>1 DEF Course, LoaderTypes
      <4> QED  BY <1>3, <4>1, LoaderAssumption DEF LoaderTypes
    <3>3. remote[d] = local[d]
      BY <3>1, <3>2 DEF PartOf, IsAFunction
    <3> QED  BY <2>1, <3>1, <3>3, PresentStays
  <2>3. CASE d # run.part
    BY <1>1, <1>2, <2>1, <2>3, PresentStays
  <2> QED  BY <2>2, <2>3
<1>11. CASE Finish
  <2>1. /\ run'.todo = run.todo /\ run'.scope = run.scope
        /\ run'.force = run.force /\ run'.dry = run.dry
        /\ UNCHANGED <<local, remote, redelivered>>
    BY <1>11, RunAfter DEF Finish
  <2> QED  BY <1>1, <1>2, <2>1, PresentStays
<1>12. CASE LoadFails
  BY <1>1, <1>12 DEF LoadFails, Exited
<1>13. CASE UNCHANGED loaderVars
  BY <1>1, <1>4, <1>13 DEF loaderVars
<1> QED  BY <1>5, <1>6, <1>7, <1>8, <1>9, <1>10, <1>11, <1>12, <1>13 DEF LoaderNext, Load

LEMMA WholeStep ==
    ASSUME LoaderInvariant, [LoaderNext]_loaderVars
    PROVE  Whole'
<1> USE DEF LoaderInvariant
<1> DEFINE OfNow(d) == run.pc = "upload" /\ run.part = d => PartOf(remote[d], local[d])
           OfOne(d) == remote[d] # Nothing => \E v \in delivered[d] : PartOf(remote[d], v)
<1>1. SUFFICES ASSUME NEW d \in SnapshotDates, d \notin torn' PROVE OfNow(d)' /\ OfOne(d)'
  BY DEF Whole
<1>2. d \notin torn => OfNow(d) /\ OfOne(d)
  BY DEF Whole
<1>3. LoaderTypes'
  BY TypesStep
<1>4. ASSUME UNCHANGED <<remote, delivered, torn>>, run'.pc # "upload"
      PROVE  OfNow(d)' /\ OfOne(d)'
  BY <1>1, <1>2, <1>4
<1>5. ASSUME NEW e \in SnapshotDates, NEW v \in Deliveries, Redeliver(e, v)
      PROVE  OfNow(d)' /\ OfOne(d)'
  <2>1. d \notin torn /\ (run.pc = "upload" /\ run.part = d => d # e)
    BY <1>1, <1>5, AfterDelivery
  <2>2. UNCHANGED <<run, remote>> /\ delivered[d] \subseteq delivered'[d]
        /\ (d # e => local'[d] = local[d])
    BY <1>5, AfterDelivery DEF LoaderTypes
  <2> QED  BY <1>2, <2>1, <2>2
<1>6. ASSUME NEW force \in BOOLEAN, NEW dry \in BOOLEAN, NEW only \in SnapshotDates \cup {AllDates},
             Start(force, dry, only)
      PROVE  OfNow(d)' /\ OfOne(d)'
  BY <1>4, <1>6 DEF Start, Exited
<1>7. ASSUME NEW e \in SnapshotDates, SkipPartition(e) \/ ReplacePartition(e)
      PROVE  OfNow(d)' /\ OfOne(d)'
  BY <1>4, <1>7, RunAfter DEF SkipPartition, ReplacePartition, Turn
<1>8. CASE DeleteBatch
  <2>1. /\ UNCHANGED <<local, delivered>> /\ run'.part = run.part
        /\ torn' = IF remote'[run.part] = Nothing THEN torn \ {run.part} ELSE torn
    BY <1>8, RunAfter DEF DeleteBatch
  <2>2. CASE d = run.part
    <3>1. CASE remote'[d] = Nothing
      BY <3>1 DEF PartOf, Nothing
    <3>2. CASE remote'[d] # Nothing
      <4>1. OfOne(d) /\ PartOf(remote'[d], remote[d]) /\ run'.pc # "upload"
        BY <1>1, <1>2, <1>8, <2>1, <2>2, <3>2, RemoteAfterDelete
      <4>2. remote[d] # Nothing
        BY <1>3, <3>2, <4>1 DEF PartOf, Nothing, LoaderTypes, IsAFunction
      <4> QED  BY <2>1, <4>1, <4>2 DEF PartOf
    <3> QED  BY <3>1, <3>2
  <2>3. CASE d # run.part
    <3>1. remote'[d] = remote[d] /\ d \notin torn
      BY <1>1, <1>8, <2>1, <2>3, RemoteAfterDelete
    <3> QED  BY <1>2, <2>1, <2>3, <3>1
  <2> QED  BY <2>2, <2>3
<1>9. CASE UploadFile
  <2>1. UNCHANGED <<local, delivered, torn>> /\ run'.part = run.part /\ run.pc = "upload"
    BY <1>9, RunAfter DEF UploadFile
  <2>2. CASE d = run.part
    <3>1. PICK f \in run.files :
             /\ f = Lowest(run.files) /\ f \in DOMAIN local[d]
             /\ DOMAIN remote'[d] = DOMAIN remote[d] \cup {f}
             /\ remote'[d][f] = local[d][f]
             /\ \A g \in DOMAIN remote[d] \ {f} : remote'[d][g] = remote[d][g]
      BY <1>9, <2>2, RemoteAfterUpload
    <3>2. PartOf(remote'[d], local[d])
      BY <1>1, <1>2, <2>1, <2>2, <3>1 DEF PartOf
    <3>3. local[d] \in delivered[d]
      BY <1>9, <2>1, <2>2 DEF Course, Moving
    <3> QED  BY <2>1, <3>2, <3>3
  <2>3. CASE d # run.part
    <3>1. remote'[d] = remote[d]
      BY <1>9, <2>3, RemoteAfterUpload
    <3> QED  BY <1>1, <1>2, <2>1, <2>3, <3>1
  <2> QED  BY <2>2, <2>3
<1>10. CASE NextPartition
  BY <1>4, <1>10, RunAfter DEF NextPartition
<1>11. CASE Finish
  BY <1>4, <1>11, RunAfter DEF Finish
<1>12. CASE LoadFails
  BY <1>4, <1>12 DEF LoadFails, Exited
<1>13. CASE UNCHANGED loaderVars
  BY <1>1, <1>2, <1>13 DEF loaderVars
<1> QED  BY <1>5, <1>6, <1>7, <1>8, <1>9, <1>10, <1>11, <1>12, <1>13 DEF LoaderNext, Load

-----------------------------------------------------------------------------
(***************************************************************************)
(* The loader.                                                             *)
(***************************************************************************)

\* The inductive invariant of the loader and its source.
THEOREM LoaderIsSound == LoaderSpec => []LoaderInvariant
<1>1. LoaderInvariant /\ [LoaderNext]_loaderVars => LoaderInvariant'
  <2> SUFFICES ASSUME LoaderInvariant, [LoaderNext]_loaderVars PROVE LoaderInvariant'
    OBVIOUS
  <2>1. LoaderTypes' /\ Course'
    BY TypesStep, CourseStep DEF LoaderInvariant
  <2> QED  BY <2>1, UploadsStep, CreditStep, DealtWithStep, WholeStep DEF LoaderInvariant
<1> QED  BY <1>1, InvariantInit, PTL DEF LoaderSpec

\* A run that completes leaves names and sizes as in the extract, and a forced
\* one the contents too, whatever runs before it died of.
THEOREM CompletedLoadsAgree == LoaderSpec => []CompletedLoadAgrees
<1>1. LoaderInvariant => CompletedLoadAgrees
  <2> SUFFICES ASSUME LoaderInvariant, run.pc = "done", ~run.dry,
                      NEW d \in run.scope \ redelivered
               PROVE  /\ DOMAIN remote[d] = DOMAIN local[d]
                      /\ \A f \in DOMAIN local[d] : remote[d][f].size = local[d][f].size
                      /\ run.force => remote[d] = local[d]
    BY DEF CompletedLoadAgrees
  <2>1. d \in SnapshotDates /\ run.todo = {}
    BY DEF LoaderInvariant, LoaderTypes, RunRecords, Course
  <2>2. Present(d) /\ (run.force => remote[d] = local[d])
    BY <2>1 DEF LoaderInvariant, DealtWith
  <2> QED  BY <2>1, <2>2, SameListing
<1> QED  BY <1>1, LoaderIsSound, PTL

\* Files of two deliveries are never under one date, unless the source
\* delivered while they were uploaded.
THEOREM DeliveriesAreNotMixed == LoaderSpec => []OneDeliveryAtATime
<1>1. LoaderInvariant => OneDeliveryAtATime
  BY DEF LoaderInvariant, Whole, PartOf, OneDeliveryAtATime
<1> QED  BY <1>1, LoaderIsSound, PTL

\* Reruns alone never transfer a partition again.
THEOREM TransfersArePaid == LoaderSpec => []TransfersArePaidFor
<1>1. LoaderInvariant => TransfersArePaidFor
  BY DEF LoaderInvariant, Credit, Price, TransfersArePaidFor
<1> QED  BY <1>1, LoaderIsSound, PTL

-----------------------------------------------------------------------------
(***************************************************************************)
(* What silver holds.                                                      *)
(***************************************************************************)

\* Every object under a date is a file that some delivery of that date had under
\* its name, not always the same delivery.
FromDeliveries ==
    \A d \in SnapshotDates : \A f \in DOMAIN remote[d] :
        \E v \in delivered[d] : f \in DOMAIN v /\ v[f] = remote[d][f]

\* A date's deliveries are not forgotten.
LEMMA DeliveriesStay ==
    ASSUME LoaderTypes, [LoaderNext]_loaderVars, NEW d \in SnapshotDates
    PROVE  delivered[d] \subseteq delivered'[d]
<1>1. CASE \E e \in SnapshotDates, v \in Deliveries : Redeliver(e, v)
  <2>1. PICK e \in SnapshotDates, v \in Deliveries : Redeliver(e, v)
    BY <1>1
  <2>2. delivered' = [delivered EXCEPT ![e] = @ \cup {v}]
    BY <2>1 DEF Redeliver
  <2> QED  BY <2>2 DEF LoaderTypes
<1>2. CASE Load
  <2>1. delivered' = delivered
    BY <1>2 DEF Load, Start, SkipPartition, ReplacePartition, DeleteBatch, UploadFile,
                NextPartition, Finish, LoadFails
  <2> QED  BY <2>1
<1>3. CASE UNCHANGED loaderVars
  BY <1>3 DEF loaderVars
<1> QED  BY <1>1, <1>2, <1>3 DEF LoaderNext

LEMMA FromDeliveriesStep ==
    ASSUME LoaderTypes, Course, FromDeliveries, [LoaderNext]_loaderVars
    PROVE  FromDeliveries'
<1>0. \A d \in SnapshotDates : delivered[d] \subseteq delivered'[d]
  BY DeliveriesStay
<1>1. CASE UploadFile
  <2>1. /\ run.part \in run.todo /\ run.part \in SnapshotDates
        /\ \A d \in SnapshotDates \ {run.part} : remote'[d] = remote[d]
    BY <1>1, RemoteAfterUpload
  <2>2. PICK f \in run.files :
            /\ f \in DOMAIN local[run.part]
            /\ DOMAIN remote'[run.part] = DOMAIN remote[run.part] \cup {f}
            /\ remote'[run.part][f] = local[run.part][f]
            /\ \A g \in DOMAIN remote[run.part] \ {f} :
                   remote'[run.part][g] = remote[run.part][g]
    BY <1>1, RemoteAfterUpload
  <2>3. local[run.part] \in delivered[run.part]
    BY <2>1 DEF LoaderTypes, Course, RunRecords
  <2>4. ASSUME NEW d \in SnapshotDates, NEW g \in DOMAIN remote'[d]
        PROVE  \E v \in delivered'[d] : g \in DOMAIN v /\ v[g] = remote'[d][g]
    <3>1. CASE d = run.part /\ g = f
      BY <1>0, <2>1, <2>2, <2>3, <3>1
    <3>2. CASE ~(d = run.part /\ g = f)
      <4>1. g \in DOMAIN remote[d] /\ remote'[d][g] = remote[d][g]
        BY <2>1, <2>2, <2>4, <3>2
      <4> QED  BY <1>0, <4>1 DEF FromDeliveries
    <3> QED  BY <3>1, <3>2
  <2> QED  BY <2>4 DEF FromDeliveries
<1>2. CASE DeleteBatch
  <2>1. ASSUME NEW d \in SnapshotDates PROVE PartOf(remote'[d], remote[d])
    BY <1>2, RemoteAfterDelete DEF PartOf
  <2> QED  BY <1>0, <2>1 DEF FromDeliveries, PartOf
<1>3. ASSUME remote' = remote PROVE FromDeliveries'
  BY <1>0, <1>3 DEF FromDeliveries
<1>4. CASE \E force, dry \in BOOLEAN, only \in SnapshotDates \cup {AllDates} :
               Start(force, dry, only)
  BY <1>3, <1>4 DEF Start
<1>5. CASE \E d \in SnapshotDates : SkipPartition(d) \/ ReplacePartition(d)
  BY <1>3, <1>5 DEF SkipPartition, ReplacePartition
<1>6. CASE NextPartition \/ Finish \/ LoadFails
  BY <1>3, <1>6 DEF NextPartition, Finish, LoadFails
<1>7. CASE \E d \in SnapshotDates, v \in Deliveries : Redeliver(d, v)
  BY <1>3, <1>7 DEF Redeliver
<1>8. CASE UNCHANGED loaderVars
  BY <1>3, <1>8 DEF loaderVars
<1> QED  BY <1>1, <1>2, <1>4, <1>5, <1>6, <1>7, <1>8 DEF LoaderNext, Load

LEMMA ConformedRows ==
    ASSUME NEW src, IsFiniteSet(src)
    PROVE  IsFiniteSet(SilverPassed({Conform(r) : r \in src}))
<1> DEFINE conformed == {Conform(r) : r \in src}
           f == [r \in src |-> Conform(r)]
<1>1. IsFiniteSet(conformed)
  <2>1. f \in Surjection(src, conformed)
    BY Fun_IsSurj
  <2> HIDE DEF f, conformed
  <2> QED  BY <2>1, FS_Surjection
<1>2. SilverPassed(conformed) \in SUBSET conformed
  BY DEF SilverPassed
<1> HIDE DEF conformed
<1>3. IsFiniteSet(SilverPassed(conformed))
  BY <1>1, <1>2, FS_Subset
<1> QED  BY <1>3 DEF conformed

\* The objects under a prefix and those of a delivery.
Readable(objects) ==
    /\ DOMAIN objects \subseteq FileNames
    /\ \A f \in DOMAIN objects : \E v \in Deliveries : f \in DOMAIN v /\ v[f] = objects[f]

LEMMA ConformedBook ==
    ASSUME NEW objects, Readable(objects)
    PROVE  Conformed(objects) \in Books /\ IsFiniteSet(Conformed(objects))
<1> DEFINE names == DOMAIN objects
           g == [f \in names |-> ConformedFile[objects[f]]]
           parts == {ConformedFile[objects[f]] : f \in names}
           files == {objects[f] : f \in names}
<1>1. \A f \in names : objects[f] \in Contents /\ IsFiniteSet(objects[f].rows)
  BY FilesAssumption DEF Readable, Contents, Range
<1>2. Conformed(objects) \in Books
  <2>1. files \in SUBSET Contents
    BY <1>1
  <2>2. Conformed(objects) = UNION {ConformedFile[c] : c \in files}
    BY DEF Conformed
  <2> HIDE DEF files
  <2> QED  BY <2>1, <2>2 DEF Books
<1>3. IsFiniteSet(names)
  <2>1. names \in SUBSET FileNames
    BY DEF Readable
  <2> HIDE DEF names
  <2> QED  BY <2>1, FS_Subset, FilesAssumption
<1>4. IsFiniteSet(parts)
  <2>1. g \in Surjection(names, parts)
    BY Fun_IsSurj
  <2> HIDE DEF g, names, parts
  <2> QED  BY <1>3, <2>1, FS_Surjection
<1>5. ASSUME NEW f \in names PROVE IsFiniteSet(ConformedFile[objects[f]])
  <2>1. ConformedFile[objects[f]] = SilverPassed({Conform(r) : r \in objects[f].rows})
    BY <1>1, <1>5 DEF ConformedFile
  <2>2. IsFiniteSet(objects[f].rows)
    BY <1>1, <1>5
  <2> QED  BY <2>1, <2>2, ConformedRows
<1>6. \A T \in parts : IsFiniteSet(T)
  BY <1>5
<1>7. Conformed(objects) = UNION parts
  BY DEF Conformed
<1> HIDE DEF parts
<1> QED  BY <1>2, <1>4, <1>6, <1>7, FS_UNION

LEMMA DueBook ==
    ASSUME NEW v \in Deliveries
    PROVE  DueOf[v] = Conformed(v) /\ DueOf[v] \in Books /\ IsFiniteSet(DueOf[v])
<1>1. Readable(v)
  BY LoaderAssumption DEF Readable
<1> QED  BY <1>1, ConformedBook DEF DueOf

\* What files of a delivery make up is part of the delivery's book.
LEMMA PartOfBook ==
    ASSUME NEW objects, NEW v, PartOf(objects, v)
    PROVE  Conformed(objects) \subseteq Conformed(v)
BY DEF PartOf, Conformed

SilverTypes ==
    /\ silver \in [SnapshotDates -> Books] /\ mixed \subseteq SnapshotDates
    /\ \A d \in SnapshotDates : IsFiniteSet(silver[d])

SilverOfOne ==
    \A d \in SnapshotDates \ mixed :
        silver[d] # {} => \E v \in delivered[d] : silver[d] \subseteq DueOf[v]

Monitored == LoaderInvariant /\ FromDeliveries /\ SilverTypes /\ SilverOfOne

LEMMA MonitoredInitially == MonitoredInit => Monitored
<1> SUFFICES ASSUME MonitoredInit PROVE Monitored
  OBVIOUS
<1>1. LoaderInvariant
  BY InvariantInit DEF MonitoredInit
<1>2. FromDeliveries
  BY DEF MonitoredInit, LoaderInit, FromDeliveries, Nothing
<1>3. {} \in Books
  <2>1. {} = UNION {ConformedFile[c] : c \in {}} /\ {} \in SUBSET Contents
    OBVIOUS
  <2> QED  BY <2>1 DEF Books
<1>4. SilverTypes /\ SilverOfOne
  BY <1>3, FS_EmptySet DEF MonitoredInit, SilverTypes, SilverOfOne
<1> QED  BY <1>1, <1>2, <1>4 DEF Monitored

LEMMA ReadableObjects ==
    ASSUME LoaderTypes, FromDeliveries, NEW d \in SnapshotDates
    PROVE  Readable(remote[d])
<1>1. delivered[d] \subseteq Deliveries /\ DOMAIN remote[d] \subseteq FileNames
  BY DEF LoaderTypes
<1> QED  BY <1>1 DEF FromDeliveries, Readable

LEMMA ConformingStep ==
    ASSUME Monitored, NEW d \in SnapshotDates, ConformPartition(d)
    PROVE  SilverTypes' /\ SilverOfOne'
<1>1. /\ LoaderTypes /\ Whole /\ FromDeliveries /\ SilverTypes /\ SilverOfOne
      /\ delivered' = delivered
  BY DEF Monitored, LoaderInvariant, ConformPartition, loaderVars
<1>2. /\ Conformed(remote[d]) # {}
      /\ silver' = [silver EXCEPT ![d] = Conformed(remote[d])]
      /\ mixed' = IF d \in torn THEN mixed \cup {d} ELSE mixed \ {d}
  BY DEF ConformPartition
<1>3. Conformed(remote[d]) \in Books /\ IsFiniteSet(Conformed(remote[d]))
  BY <1>1, ReadableObjects, ConformedBook
<1>4. /\ silver'[d] = Conformed(remote[d])
      /\ \A e \in SnapshotDates \ {d} : silver'[e] = silver[e]
      /\ silver' \in [SnapshotDates -> Books]
  BY <1>1, <1>2, <1>3 DEF SilverTypes
<1>5. SilverTypes'
  BY <1>1, <1>2, <1>3, <1>4 DEF SilverTypes
<1>6. ASSUME NEW e \in SnapshotDates, e \notin mixed', silver'[e] # {}
      PROVE  \E v \in delivered[e] : silver'[e] \subseteq DueOf[v]
  <2>1. CASE e # d
    <3>1. e \notin mixed /\ silver'[e] = silver[e]
      BY <1>2, <1>4, <1>6, <2>1
    <3> QED  BY <1>1, <1>6, <3>1 DEF SilverOfOne
  <2>2. CASE e = d
    <3>1. d \notin torn
      BY <1>2, <1>6, <2>2
    <3>2. remote[d] # Nothing
      BY <1>2 DEF Conformed, Nothing
    <3>3. PICK v \in delivered[d] : PartOf(remote[d], v)
      BY <1>1, <3>1, <3>2 DEF Whole
    <3>4. v \in Deliveries
      BY <1>1, <3>3 DEF LoaderTypes
    <3>5. Conformed(remote[d]) \subseteq DueOf[v]
      BY <3>3, <3>4, PartOfBook, DueBook
    <3> QED  BY <1>4, <2>2, <3>3, <3>5
  <2> QED  BY <2>1, <2>2
<1>7. SilverOfOne'
  BY <1>1, <1>6 DEF SilverOfOne
<1> QED  BY <1>5, <1>7

LEMMA MonitoredStep == Monitored /\ [MonitoredNext]_monitoredVars => Monitored'
<1> SUFFICES ASSUME Monitored, [MonitoredNext]_monitoredVars PROVE Monitored'
  OBVIOUS
<1>1. [LoaderNext]_loaderVars
  BY DEF MonitoredNext, monitoredVars, ConformPartition
<1>2. LoaderInvariant'
  <2>1. LoaderInvariant
    BY DEF Monitored
  <2>2. LoaderTypes' /\ Course'
    BY <1>1, <2>1, TypesStep, CourseStep DEF LoaderInvariant
  <2> QED  BY <1>1, <2>1, <2>2, UploadsStep, CreditStep, DealtWithStep, WholeStep DEF LoaderInvariant
<1>3. FromDeliveries'
  BY <1>1, FromDeliveriesStep DEF Monitored, LoaderInvariant
<1>4. CASE UNCHANGED <<silver, mixed>>
  <2>1. silver' = silver /\ mixed' = mixed
    BY <1>4
  <2>2. SilverTypes'
    BY <2>1 DEF Monitored, SilverTypes
  <2>3. \A d \in SnapshotDates : delivered[d] \subseteq delivered'[d]
    BY <1>1, DeliveriesStay DEF Monitored, LoaderInvariant
  <2>4. SilverOfOne'
    BY <2>1, <2>3 DEF Monitored, SilverOfOne
  <2> QED  BY <1>2, <1>3, <2>2, <2>4 DEF Monitored
<1>5. CASE \E d \in SnapshotDates : ConformPartition(d)
  BY <1>2, <1>3, <1>5, ConformingStep DEF Monitored
<1> QED  BY <1>4, <1>5 DEF MonitoredNext, monitoredVars

\* The inductive invariant of the bucket and the silver table.
THEOREM SilverIsSound == MonitoredSpec => []Monitored
<1> QED  BY MonitoredInitially, MonitoredStep, PTL DEF MonitoredSpec

\* Whatever loads, deaths and deliveries make of a date's prefix, and a delivery
\* during its upload, each object is a file the source delivered for that date.
THEOREM BucketHoldsDeliveries == MonitoredSpec => []FromDeliveries
<1>1. Monitored => FromDeliveries
  BY DEF Monitored
<1> QED  BY <1>1, SilverIsSound, PTL

-----------------------------------------------------------------------------
(***************************************************************************)
(* Loss.                                                                   *)
(***************************************************************************)

\* Nothing sent to the engine is stopped by the input contract.
LEMMA EmptyPeriodStops ==
    ASSUME NEW d
    PROVE  OutcomesOf({}, d) = {"input contract"}
<1>1. Accepted({}, d) = {}
  BY DEF Accepted
<1>2. ~InputFits({}, d)
  <2>1. Cardinality({}) = 0
    BY FS_EmptySet
  <2>2. Accepted({}, d) = {} /\ {} \ Accepted({}, d) = {}
    BY <1>1
  <2> QED  BY <2>1, <2>2 DEF InputFits, DatasetFit, Arrived, MinRows
<1>3. EngineReturns(Accepted({}, d), d) # {}
  BY DEF EngineReturns
<1> QED  BY <1>2, <1>3 DEF OutcomesOf

\* A period short of more than two fifths of the rows it should have has moved
\* against one it had not outgrown.
LEMMA LossMoves ==
    ASSUME NEW before \in Nat, NEW due \in Nat, NEW found \in Nat,
           before > 0, 4 * due <= 5 * before, 5 * (due - found) > 2 * due
    PROVE  before # found /\ Moved(before, found)
BY DEF Moved

LEMMA PeriodIsFinite ==
    ASSUME NEW book \in Books, IsFiniteSet(book)
    PROVE  /\ PeriodOf[book] = Period(book) /\ PeriodOf[book] \subseteq book
           /\ IsFiniteSet(PeriodOf[book]) /\ Cardinality(PeriodOf[book]) \in Nat
<1>1. PeriodOf[book] = Period(book) /\ Period(book) \in SUBSET book
  BY DEF PeriodOf, Period, InScope
<1>2. IsFiniteSet(Period(book))
  BY <1>1, FS_Subset
<1> QED  BY <1>1, <1>2, FS_CardinalityType

LEMMA LossShows ==
    ASSUME Monitored
    PROVE  LossIsReported
<1> SUFFICES ASSUME NEW d \in SnapshotDates
             PROVE  /\ PeriodOf[silver[d]] = {} => EndsOf[silver[d]][d] = {"input contract"}
                    /\ (d \notin mixed /\ silver[d] # {}) => \E v \in delivered[d] :
                         /\ silver[d] \subseteq DueOf[v]
                         /\ \A p \in SnapshotDates :
                              LossFrom(Cardinality(PeriodOf[silver[p]]),
                                       Cardinality(PeriodOf[DueOf[v]]),
                                       Cardinality(PeriodOf[silver[d]]))
                                => <<"exposure_count", "drift">> \in Breaches(silver[p], silver[d])
  BY DEF LossIsReported
<1>1. \A e \in SnapshotDates : silver[e] \in Books /\ IsFiniteSet(silver[e])
  BY DEF Monitored, SilverTypes
<1>2. ASSUME PeriodOf[silver[d]] = {} PROVE EndsOf[silver[d]][d] = {"input contract"}
  <2>1. Period(silver[d]) = {}
    BY <1>1, <1>2, PeriodIsFinite
  <2>2. EndsOf[silver[d]][d] = OutcomesOf({}, d)
    BY <1>1, <2>1 DEF EndsOf
  <2> QED  BY <2>2, EmptyPeriodStops
<1>3. ASSUME d \notin mixed, silver[d] # {}
      PROVE  \E v \in delivered[d] :
               /\ silver[d] \subseteq DueOf[v]
               /\ \A p \in SnapshotDates :
                    LossFrom(Cardinality(PeriodOf[silver[p]]),
                             Cardinality(PeriodOf[DueOf[v]]),
                             Cardinality(PeriodOf[silver[d]]))
                      => <<"exposure_count", "drift">> \in Breaches(silver[p], silver[d])
  <2>1. PICK v \in delivered[d] : silver[d] \subseteq DueOf[v]
    BY <1>3 DEF Monitored, SilverOfOne
  <2>2. v \in Deliveries
    BY <2>1 DEF Monitored, LoaderInvariant, LoaderTypes
  <2>3. ASSUME NEW p \in SnapshotDates,
               LossFrom(Cardinality(PeriodOf[silver[p]]), Cardinality(PeriodOf[DueOf[v]]),
                        Cardinality(PeriodOf[silver[d]]))
        PROVE  <<"exposure_count", "drift">> \in Breaches(silver[p], silver[d])
    <3> DEFINE before == Cardinality(PeriodOf[silver[p]])
               due    == Cardinality(PeriodOf[DueOf[v]])
               found  == Cardinality(PeriodOf[silver[d]])
    <3>1. before \in Nat /\ due \in Nat /\ found \in Nat
      BY <1>1, <2>2, DueBook, PeriodIsFinite
    <3>2. before > 0 /\ 4 * due <= 5 * before /\ 5 * (due - found) > 2 * due
      BY <2>3 DEF LossFrom
    <3>3. /\ MeasuresOf[silver[p]].exposure_count = before
          /\ MeasuresOf[silver[d]].exposure_count = found
          /\ "exposure_count" \in DOMAIN MeasuresOf[silver[p]]
      BY <1>1, PeriodIsFinite DEF MeasuresOf, Measure
    <3> HIDE DEF before, due, found
    <3>4. before # found /\ Moved(before, found)
      BY <3>1, <3>2, LossMoves
    <3> QED  BY <3>3, <3>4 DEF Breaches, Compare
  <2> QED  BY <2>1, <2>3
<1> QED  BY <1>2, <1>3

-----------------------------------------------------------------------------
(***************************************************************************)
(* One factor on every amount.                                             *)
(***************************************************************************)
Hundredfold(r) ==
    [f \in DOMAIN r |-> IF f \in MoneyFields /\ r[f] # Null THEN 100 * r[f] ELSE r[f]]

Columns == { "copy", "exposure_id", "customer_id", "origination_date", "term_months",
             "maturity_date", "original_amount", "outstanding_amount", "provision_amount",
             "interest_rate", "rating_grade", "status", "days_past_due", "default_flag",
             "attributes" }

\* A conformed row: a function of the columns, its amounts numbers or unknown.
IsRow(r) == /\ r = [f \in Columns |-> r[f]]
            /\ \A f \in MoneyFields : r[f] \in Int \cup {Null}

LEMMA ConformedIsRow == ASSUME NEW src PROVE IsRow(Conform(src))
<1> DEFINE r == Conform(src)
<1>1. DOMAIN r = Columns /\ r = [f \in DOMAIN r |-> r[f]]
  BY DEF Conform, Columns
<1>2. \A x : Money(x) \in Int \cup {Null}
  BY DEF Money
<1>3. /\ r["original_amount"] = Money(src.loan_amnt)
      /\ r["outstanding_amount"] = Money(src.outstanding_amount)
      /\ r["provision_amount"] = Money(src.provision_amount)
  BY DEF Conform
<1> HIDE DEF r
<1>4. \A f \in MoneyFields : r[f] \in Int \cup {Null}
  BY <1>2, <1>3 DEF MoneyFields
<1>5. r = [f \in Columns |-> r[f]]
  BY <1>1, Zenon
<1> QED  BY <1>4, <1>5 DEF IsRow, r

LEMMA HundredfoldOf ==
    ASSUME NEW r, IsRow(r)
    PROVE  /\ \A f \in Columns \ MoneyFields : Hundredfold(r)[f] = r[f]
           /\ \A f \in MoneyFields : Hundredfold(r)[f] = IF r[f] = Null THEN Null ELSE 100 * r[f]
           /\ DOMAIN Hundredfold(r) = Columns
<1>1. DOMAIN r = Columns
  BY DEF IsRow
<1>2. MoneyFields \subseteq Columns
  BY DEF MoneyFields, Columns
<1> QED  BY <1>1, <1>2 DEF Hundredfold

LEMMA HundredfoldApart ==
    ASSUME NEW q, IsRow(q), NEW r, IsRow(r), Hundredfold(q) = Hundredfold(r)
    PROVE  q = r
<1>1. \A f \in Columns \ MoneyFields : q[f] = r[f]
  BY HundredfoldOf
<1>2. ASSUME NEW f \in MoneyFields PROVE q[f] = r[f]
  <2>1. /\ q[f] \in Int \cup {Null} /\ r[f] \in Int \cup {Null}
        /\ (IF q[f] = Null THEN Null ELSE 100 * q[f]) = (IF r[f] = Null THEN Null ELSE 100 * r[f])
    BY HundredfoldOf DEF IsRow
  <2>2. \A x, y \in Int \cup {Null} :
           (IF x = Null THEN Null ELSE 100 * x) = (IF y = Null THEN Null ELSE 100 * y) => x = y
    BY NullAssumption
  <2> QED  BY <2>1, <2>2, Zenon
<1>3. \A f \in Columns : q[f] = r[f]
  BY <1>1, <1>2
<1> QED  BY <1>3 DEF IsRow

\* A comparison of unknown or multiplied amounts comes out as before.
LEMMA ComparisonsKept ==
    ASSUME NEW x \in Int \cup {Null}, NEW y \in Int \cup {Null}
    PROVE  LET u == IF x = Null THEN Null ELSE 100 * x
               v == IF y = Null THEN Null ELSE 100 * y
           IN  /\ IsNotNull(u) = IsNotNull(x)
               /\ AtLeast(u, 0) = AtLeast(x, 0)
               /\ Equal(u, 0) = Equal(x, 0)
               /\ AtMost(u, v) = AtMost(x, y)
               /\ Known({u, v}, 10 * u <= 11 * v) = Known({x, y}, 10 * x <= 11 * y)
<1> USE NullAssumption
<1> DEFINE u == IF x = Null THEN Null ELSE 100 * x
           v == IF y = Null THEN Null ELSE 100 * y
<1>1. u = Null <=> x = Null
  OBVIOUS
<1>2. v = Null <=> y = Null
  OBVIOUS
<1>3. x # Null => ((u >= 0) <=> (x >= 0)) /\ ((u = 0) <=> (x = 0))
  OBVIOUS
<1>4. x # Null /\ y # Null => /\ (u <= v) <=> (x <= y)
                              /\ (10 * u <= 11 * v) <=> (10 * x <= 11 * y)
  OBVIOUS
<1>5. Null # 0
  OBVIOUS
<1> HIDE DEF u, v
<1>6. IsNotNull(u) = IsNotNull(x)
  BY <1>1, Zenon DEF IsNotNull
<1>7. AtLeast(u, 0) = AtLeast(x, 0)
  BY <1>1, <1>3, <1>5 DEF AtLeast, Known
<1>8. Equal(u, 0) = Equal(x, 0)
  BY <1>1, <1>3, <1>5 DEF Equal, Known
<1>9. AtMost(u, v) = AtMost(x, y)
  BY <1>1, <1>2, <1>4 DEF AtMost, Known
<1>10. Known({u, v}, 10 * u <= 11 * v) = Known({x, y}, 10 * x <= 11 * y)
  BY <1>1, <1>2, <1>4 DEF Known
<1> QED  BY <1>6, <1>7, <1>8, <1>9, <1>10 DEF u, v

\* The contract cannot tell a row from its hundredfold.
LEMMA ContractIsBlind ==
    ASSUME NEW r, IsRow(r), NEW d
    PROVE  SatisfiesInputContract(Hundredfold(r), d) <=> SatisfiesInputContract(r, d)
<1> DEFINE h == Hundredfold(r)
           Fold(x) == IF x = Null THEN Null ELSE 100 * x
<1>1. \A f \in Columns \ MoneyFields : h[f] = r[f]
  BY HundredfoldOf
<1>2. \A f \in MoneyFields : h[f] = Fold(r[f]) /\ r[f] \in Int \cup {Null}
  BY HundredfoldOf DEF IsRow
<1> HIDE DEF h
<1>3. /\ h.status = r.status /\ h.default_flag = r.default_flag
      /\ h.days_past_due = r.days_past_due /\ h.maturity_date = r.maturity_date
      /\ h.origination_date = r.origination_date
  BY <1>1 DEF Columns, MoneyFields
<1>4. /\ h.original_amount = Fold(r.original_amount) /\ r.original_amount \in Int \cup {Null}
      /\ h.outstanding_amount = Fold(r.outstanding_amount)
      /\ r.outstanding_amount \in Int \cup {Null}
      /\ h.provision_amount = Fold(r.provision_amount) /\ r.provision_amount \in Int \cup {Null}
  BY <1>2 DEF MoneyFields
<1>5. \A f \in Columns : IsNotNull(h[f]) = IsNotNull(r[f])
  <2> SUFFICES ASSUME NEW f \in Columns PROVE IsNotNull(h[f]) = IsNotNull(r[f])
    OBVIOUS
  <2>1. CASE f \notin MoneyFields
    BY <1>1, <2>1
  <2>2. CASE f \in MoneyFields
    <3>1. h[f] = Fold(r[f]) /\ r[f] \in Int \cup {Null}
      BY <1>2, <2>2
    <3> QED  BY <3>1, ComparisonsKept
  <2> QED  BY <2>1, <2>2
<1>6. \A f \in Columns : AtLeast(h[f], 0) = AtLeast(r[f], 0)
  <2> SUFFICES ASSUME NEW f \in Columns PROVE AtLeast(h[f], 0) = AtLeast(r[f], 0)
    OBVIOUS
  <2>1. CASE f \notin MoneyFields
    BY <1>1, <2>1
  <2>2. CASE f \in MoneyFields
    <3>1. h[f] = Fold(r[f]) /\ r[f] \in Int \cup {Null}
      BY <1>2, <2>2
    <3>2. ASSUME NEW x \in Int \cup {Null} PROVE AtLeast(Fold(x), 0) = AtLeast(x, 0)
      BY ComparisonsKept
    <3> HIDE DEF Fold
    <3> QED  BY <3>1, <3>2, Zenon
  <2> QED  BY <2>1, <2>2
<1>7. \A f \in DOMAIN Allowed : h[f] = r[f]
  BY <1>1 DEF Allowed, Columns, MoneyFields
<1>8. FailedFieldRules(h) = FailedFieldRules(r)
  <2>1. Required \subseteq Columns /\ NonNegative \subseteq Columns
    BY DEF Required, NonNegative, Columns
  <2> QED  BY <1>5, <1>6, <1>7, <2>1 DEF FailedFieldRules
<1>9. RowRuleConditions(h, d) = RowRuleConditions(r, d)
  <2>0. ASSUME NEW x \in Int \cup {Null}, NEW y \in Int \cup {Null}
        PROVE  /\ AtMost(Fold(x), Fold(y)) = AtMost(x, y)
               /\ Known({Fold(x), Fold(y)}, 10 * Fold(x) <= 11 * Fold(y))
                    = Known({x, y}, 10 * x <= 11 * y)
    BY ComparisonsKept
  <2>6. ASSUME NEW x \in Int \cup {Null} PROVE Equal(Fold(x), 0) = Equal(x, 0)
    BY ComparisonsKept
  <2> HIDE DEF Fold
  <2>1. OutstandingWithinOriginal(h) = OutstandingWithinOriginal(r)
    BY <1>4, <2>0, Zenon DEF OutstandingWithinOriginal
  <2>2. ProvisionWithinOutstanding(h) = ProvisionWithinOutstanding(r)
    BY <1>4, <2>0, Zenon DEF ProvisionWithinOutstanding
  <2>3. Equal(h.provision_amount, 0) = Equal(r.provision_amount, 0)
    BY <1>4, <2>6, Zenon
  <2>4. DefaultFlagMatchesStatus(h) = DefaultFlagMatchesStatus(r)
    BY <1>3 DEF DefaultFlagMatchesStatus
  <2>5. PastDueHasDays(h) = PastDueHasDays(r) /\ DefaultDate(h) = DefaultDate(r)
    BY <1>3 DEF PastDueHasDays, DefaultDate
  <2> QED  BY <1>3, <2>1, <2>2, <2>3, <2>4, <2>5, Zenon DEF RowRuleConditions
<1> QED  BY <1>8, <1>9 DEF SatisfiesInputContract, FailedRowRules, h

\* A book of rows and its hundredfold, as far as the contract's assertions over
\* the dataset go.
LEMMA ScaledBook ==
    ASSUME NEW book, IsFiniteSet(book), \A r \in book : IsRow(r)
    PROVE  /\ Scaled(book, 100) = {Hundredfold(r) : r \in book}
           /\ IsFiniteSet(Scaled(book, 100))
           /\ Cardinality(Scaled(book, 100)) = Cardinality(book)
           /\ {r.exposure_id : r \in Scaled(book, 100)} = {r.exposure_id : r \in book}
<1> DEFINE faulty == {Hundredfold(r) : r \in book}
           f == [r \in book |-> Hundredfold(r)]
<1>1. Scaled(book, 100) = faulty
  BY DEF Scaled, Hundredfold
<1>2. f \in Surjection(book, faulty)
  BY Fun_IsSurj
<1>3. f \in Injection(book, faulty)
  <2>1. \A q, r \in book : f[q] = f[r] => q = r
    BY HundredfoldApart
  <2>2. f \in [book -> faulty]
    OBVIOUS
  <2> HIDE DEF f, faulty
  <2> QED  BY <2>1, <2>2, Fun_IsInj
<1>4. \A r \in book : Hundredfold(r).exposure_id = r.exposure_id
  BY HundredfoldOf DEF Columns, MoneyFields
<1>5. {r.exposure_id : r \in faulty} = {r.exposure_id : r \in book}
  BY <1>4
<1> HIDE DEF f, faulty
<1>6. IsFiniteSet(faulty) /\ Cardinality(faulty) = Cardinality(book)
  BY <1>2, <1>3, FS_Surjection
<1> QED  BY <1>1, <1>5, <1>6 DEF faulty

\* The assertions over a dataset go by numbers of rows.
LEMMA FitGoesByNumbers ==
    ASSUME NEW passed, NEW rest, NEW kept, NEW left, NEW keys, NEW limit,
           Cardinality(passed) = Cardinality(kept), Cardinality(rest) = Cardinality(left)
    PROVE  DatasetFit(passed, rest, keys, limit) = DatasetFit(kept, left, keys, limit)
<1>1. Arrived(passed, rest) = Arrived(kept, left)
  BY DEF Arrived
<1>2. UniqueGrain(passed, keys) = UniqueGrain(kept, keys)
  BY DEF UniqueGrain
<1>3. ShareWithin(passed, rest, limit) = ShareWithin(kept, left, limit)
  BY <1>1, Zenon DEF ShareWithin
<1> QED  BY <1>1, <1>2, <1>3, Zenon DEF DatasetFit

LEMMA ContractCannotSee ==
    ASSUME NEW book, IsFiniteSet(book), \A r \in book : IsRow(r), NEW d
    PROVE  /\ Accepted(Scaled(book, 100), d) = Scaled(Accepted(book, d), 100)
           /\ InputFits(Scaled(book, 100), d) = InputFits(book, d)
<1> DEFINE passed == Accepted(book, d)
           rest == book \ passed
           faulty == Scaled(book, 100)
<1>1. passed \in SUBSET book /\ rest \in SUBSET book
  BY DEF Accepted
<1>2. IsFiniteSet(passed) /\ IsFiniteSet(rest)
  <2> HIDE DEF passed, rest
  <2> QED  BY <1>1, FS_Subset
<1>3. /\ faulty = {Hundredfold(r) : r \in book}
      /\ Scaled(passed, 100) = {Hundredfold(r) : r \in passed}
      /\ Scaled(rest, 100) = {Hundredfold(r) : r \in rest}
  BY DEF Scaled, Hundredfold
<1>4. Accepted(faulty, d) = Scaled(passed, 100)
  BY <1>3, ContractIsBlind DEF Accepted
<1>5. faulty \ Accepted(faulty, d) = Scaled(rest, 100)
  <2>1. \A q \in passed, r \in rest : Hundredfold(q) # Hundredfold(r)
    BY <1>1, HundredfoldApart
  <2>2. passed \cup rest = book
    BY <1>1
  <2> HIDE DEF passed, rest, faulty
  <2> QED  BY <1>3, <1>4, <2>1, <2>2
<1>6. /\ Cardinality(Scaled(passed, 100)) = Cardinality(passed)
      /\ Cardinality(Scaled(rest, 100)) = Cardinality(rest)
      /\ {r.exposure_id : r \in Scaled(passed, 100)} = {r.exposure_id : r \in passed}
  <2> HIDE DEF passed, rest
  <2> QED  BY <1>1, <1>2, ScaledBook
<1>7. InputFits(faulty, d) = InputFits(book, d)
  <2>1. InputFits(faulty, d) =
          DatasetFit(Scaled(passed, 100), Scaled(rest, 100),
                     {r.exposure_id : r \in Scaled(passed, 100)}, MaxQuarantinePct)
    BY <1>4, <1>5, Zenon DEF InputFits
  <2>2. InputFits(book, d) =
          DatasetFit(passed, rest, {r.exposure_id : r \in passed}, MaxQuarantinePct)
    BY DEF InputFits
  <2> HIDE DEF passed, rest, faulty
  <2>3. InputFits(faulty, d) =
          DatasetFit(Scaled(passed, 100), Scaled(rest, 100),
                     {r.exposure_id : r \in passed}, MaxQuarantinePct)
    BY <1>6, <2>1, Zenon
  <2>4. DatasetFit(Scaled(passed, 100), Scaled(rest, 100),
                   {r.exposure_id : r \in passed}, MaxQuarantinePct)
          = DatasetFit(passed, rest, {r.exposure_id : r \in passed}, MaxQuarantinePct)
    BY <1>6, FitGoesByNumbers
  <2> QED  BY <2>2, <2>3, <2>4, Zenon
<1> QED  BY <1>4, <1>7

\* What a book owes, as a sum that may be taken in any order.
LEMMA TotalIsSum ==
    ASSUME NEW book, IsFiniteSet(book), NEW field,
           \A r \in book : r[field] \in Int \cup {Null}
    PROVE  LET known == {r \in book : r[field] # Null}
           IN  \E sum : /\ IsSum(sum, [r \in known |-> r[field]], known)
                        /\ Total(book, field) = sum[known]
<1> DEFINE known == {r \in book : r[field] # Null}
           value == [r \in known |-> r[field]]
           Fold(sum) == sum = [s \in SUBSET known |->
                          IF s = {} THEN 0
                          ELSE LET x == CHOOSE x \in s : TRUE IN x[field] + sum[s \ {x}]]
<1>1. \A sum : Fold(sum) <=> IsFold(sum, value, known)
  <2>1. \A sum : \A s \in SUBSET known :
           AddsOne(s, sum, value) =
              IF s = {} THEN 0 ELSE LET x == CHOOSE x \in s : TRUE IN x[field] + sum[s \ {x}]
    <3> SUFFICES ASSUME NEW s \in SUBSET known, s # {}
                 PROVE  value[CHOOSE x \in s : TRUE] = (CHOOSE x \in s : TRUE)[field]
      BY DEF AddsOne
    <3>1. (CHOOSE x \in s : TRUE) \in s
      OBVIOUS
    <3> QED  BY <3>1
  <2> SUFFICES ASSUME NEW sum PROVE Fold(sum) <=> IsFold(sum, value, known)
    OBVIOUS
  <2>2. [s \in SUBSET known |-> AddsOne(s, sum, value)]
         = [s \in SUBSET known |->
              IF s = {} THEN 0 ELSE LET x == CHOOSE x \in s : TRUE IN x[field] + sum[s \ {x}]]
    BY <2>1, Zenon
  <2> QED  BY <2>2, Zenon DEF IsFold
<1>2. Total(book, field) = (CHOOSE sum : Fold(sum))[known]
  BY DEF Total, MapThenSumSet, MapThenFoldSet
<1>3. value \in [known -> Int]
  OBVIOUS
<1>4. IsFiniteSet(known)
  <2>1. known \in SUBSET book
    OBVIOUS
  <2> HIDE DEF known
  <2> QED  BY <2>1, FS_Subset
<1> HIDE DEF Fold, value, known
<1>5. PICK sum : IsFold(sum, value, known)
  BY <1>4, FoldExists
<1>6. Fold(CHOOSE f : Fold(f))
  BY <1>1, <1>5
<1>7. IsSum((CHOOSE f : Fold(f)), value, known)
  BY <1>1, <1>3, <1>4, <1>6, FoldIsSum
<1> QED  BY <1>2, <1>7 DEF value, known

LEMMA TotalScales ==
    ASSUME NEW book, IsFiniteSet(book), \A r \in book : IsRow(r), NEW field \in MoneyFields
    PROVE  /\ Total(book, field) \in Int
           /\ Total(Scaled(book, 100), field) = 100 * Total(book, field)
<1> DEFINE known == {r \in book : r[field] # Null}
           value == [r \in known |-> r[field]]
           larger == [r \in known |-> 100 * r[field]]
           faulty == Scaled(book, 100)
           found == {r \in faulty : r[field] # Null}
           worth == [r \in found |-> r[field]]
           h == [r \in known |-> Hundredfold(r)]
<1>1. \A r \in book : r[field] \in Int \cup {Null}
  BY DEF IsRow
<1>2. \A r \in book : Hundredfold(r)[field] = IF r[field] = Null THEN Null ELSE 100 * r[field]
  BY HundredfoldOf
<1>3. faulty = {Hundredfold(r) : r \in book} /\ IsFiniteSet(faulty)
  BY ScaledBook
<1>4. \A r \in faulty : r[field] \in Int \cup {Null}
  BY <1>1, <1>2, <1>3
<1>5. found = {h[r] : r \in known} /\ h \in [known -> found]
  <2>1. \A r \in book : Hundredfold(r)[field] # Null <=> r[field] # Null
    BY <1>1, <1>2, NullAssumption
  <2>2. found = {Hundredfold(r) : r \in known}
    BY <1>3, <2>1
  <2> QED  BY <2>2
<1>6. \A q, r \in known : h[q] = h[r] => q = r
  BY HundredfoldApart
<1>7. \A r \in known : worth[h[r]] = larger[r]
  <2> SUFFICES ASSUME NEW r \in known PROVE worth[h[r]] = larger[r]
    OBVIOUS
  <2>1. h[r] \in found /\ h[r] = Hundredfold(r)
    BY <1>5
  <2> QED  BY <1>2, <2>1
<1>8. known \in SUBSET book /\ found \in SUBSET faulty
  OBVIOUS
<1>9. larger \in [known -> Int] /\ \A r \in known : value[r] \in Int /\ larger[r] = 100 * value[r]
  BY <1>1
<1>10. PICK sum : IsSum(sum, value, known) /\ Total(book, field) = sum[known]
  BY <1>1, TotalIsSum
<1> HIDE DEF faulty
<1>11. PICK total : IsSum(total, worth, found) /\ Total(faulty, field) = total[found]
  <2>1. IsFiniteSet(faulty)
    BY <1>3
  <2> QED  BY <1>4, <2>1, TotalIsSum
<1> HIDE DEF known, value, larger, faulty, found, worth, h
<1>12. IsFiniteSet(known) /\ IsFiniteSet(found)
  BY <1>3, <1>8, FS_Subset
<1>13. PICK more : IsSum(more, larger, known)
  <2>1. PICK fold : IsFold(fold, larger, known)
    BY <1>12, FoldExists
  <2> QED  BY <1>9, <1>12, <2>1, FoldIsSum
<1>14. more[known] = total[found]
  BY <1>5, <1>6, <1>7, <1>11, <1>12, <1>13, SumsAgree
<1>15. more[known] = 100 * sum[known]
  BY <1>9, <1>10, <1>12, <1>13, SumScales
<1>16. sum[known] \in Int
  BY <1>10 DEF IsSum
<1> QED  BY <1>10, <1>11, <1>14, <1>15, <1>16 DEF faulty

\* A total of amounts that are not negative is not either.
LEMMA TotalNotNegative ==
    ASSUME NEW book, IsFiniteSet(book), NEW field,
           \A r \in book : r[field] \in Int \cup {Null},
           \A r \in book : r[field] # Null => r[field] >= 0
    PROVE  Total(book, field) \in Nat
<1> DEFINE known == {r \in book : r[field] # Null}
           value == [r \in known |-> r[field]]
<1>1. PICK sum : IsSum(sum, value, known) /\ Total(book, field) = sum[known]
  BY TotalIsSum
<1>2. \A r \in known : value[r] \in Nat
  OBVIOUS
<1>3. IsFiniteSet(known)
  <2>1. known \in SUBSET book
    OBVIOUS
  <2> HIDE DEF known
  <2> QED  BY <2>1, FS_Subset
<1> HIDE DEF known, value
<1>4. sum[known] \in Nat
  BY <1>1, <1>2, <1>3, SumNotNegative
<1> QED  BY <1>1, <1>4

\* Silver lets no negative balance through, so a period owes nothing or more.
LEMMA NothingOwedIsNegative ==
    ASSUME NEW book, IsFiniteSet(book),
           \A r \in book : IsRow(r) /\ FailedSilverRules(r) = {}
    PROVE  Total(book, "outstanding_amount") \in Nat
<1>1. \A r \in book : r["outstanding_amount"] \in Int \cup {Null}
  BY DEF IsRow, MoneyFields
<1>2. ASSUME NEW r \in book, r["outstanding_amount"] # Null PROVE r["outstanding_amount"] >= 0
  <2>0. FailedSilverRules(r) = {}
    OBVIOUS
  <2>1. ~Violated(AtLeast(r.outstanding_amount, 0))
    <3>1. /\ "outstanding_not_negative" \in DOMAIN SilverConditions(r)
          /\ SilverConditions(r)["outstanding_not_negative"] = AtLeast(r.outstanding_amount, 0)
      BY DEF SilverConditions
    <3> QED  BY <2>0, <3>1 DEF FailedSilverRules
  <2>2. r.outstanding_amount # Null /\ r.outstanding_amount \in Int
    BY <1>1, <1>2
  <2> QED  BY <2>1, <2>2, NullAssumption DEF Violated, AtLeast, Known
<1> QED  BY <1>1, <1>2, TotalNotNegative

\* A total that had not drifted drifts once every amount is a hundredfold.
LEMMA HundredfoldMoves ==
    ASSUME NEW before \in Nat, NEW after \in Nat, before # after, ~Moved(before, after)
    PROVE  before # 100 * after /\ Moved(before, 100 * after)
BY DEF Moved

LEMMA UniformFaultsShow ==
    ASSUME Monitored
    PROVE  UniformFaultsShowUpAsDrift
<1> SUFFICES ASSUME NEW p \in SnapshotDates, NEW d \in SnapshotDates
             PROVE  /\ Unseen[silver[d]]
                    /\ Breaches(silver[p], silver[d]) = {} =>
                          <<"total_outstanding", "drift">> \in
                              Compare(MeasuresOf[silver[p]], FaultyMeasuresOf[silver[d]])
  BY DEF UniformFaultsShowUpAsDrift
<1> DEFINE earlier == Period(silver[p])
           later == Period(silver[d])
           before == Total(earlier, "outstanding_amount")
           after == Total(later, "outstanding_amount")
<1>1. /\ silver[p] \in Books /\ silver[d] \in Books
      /\ IsFiniteSet(silver[p]) /\ IsFiniteSet(silver[d])
  BY DEF Monitored, SilverTypes
<1>2. ASSUME NEW book \in Books, IsFiniteSet(book)
      PROVE  /\ PeriodOf[book] = Period(book) /\ IsFiniteSet(Period(book))
             /\ \A r \in Period(book) : IsRow(r) /\ FailedSilverRules(r) = {}
  <2>1. PeriodOf[book] = Period(book) /\ IsFiniteSet(Period(book)) /\ Period(book) \subseteq book
    BY <1>2, PeriodIsFinite
  <2>2. ASSUME NEW r \in book PROVE IsRow(r) /\ FailedSilverRules(r) = {}
    <3>1. PICK files \in SUBSET Contents : book = UNION {ConformedFile[c] : c \in files}
      BY DEF Books
    <3>2. PICK c \in files : r \in ConformedFile[c]
      BY <3>1, <2>2
    <3>3. r \in SilverPassed({Conform(row) : row \in c.rows})
      BY <3>1, <3>2 DEF ConformedFile
    <3> QED  BY <3>3, ConformedIsRow DEF SilverPassed
  <2> QED  BY <2>1, <2>2
<1>3. Unseen[silver[d]]
  <2>1. Unseen[silver[d]] =
           \A e \in SnapshotDates :
              /\ Accepted(Scaled(later, 100), e) = Scaled(Accepted(later, e), 100)
              /\ InputFits(Scaled(later, 100), e) = InputFits(later, e)
    BY <1>1, <1>2 DEF Unseen, Faulty
  <2>2. \A e \in SnapshotDates :
              /\ Accepted(Scaled(later, 100), e) = Scaled(Accepted(later, e), 100)
              /\ InputFits(Scaled(later, 100), e) = InputFits(later, e)
    BY <1>1, <1>2, ContractCannotSee
  <2> QED  BY <2>1, <2>2, Zenon
<1>4. before \in Nat /\ after \in Nat
  BY <1>1, <1>2, NothingOwedIsNegative
<1>5. Total(Scaled(later, 100), "outstanding_amount") = 100 * after
  BY <1>1, <1>2, TotalScales DEF MoneyFields
<1>6. /\ MeasuresOf[silver[p]].total_outstanding = before
      /\ MeasuresOf[silver[d]].total_outstanding = after
      /\ "total_outstanding" \in DOMAIN MeasuresOf[silver[p]]
  BY <1>1 DEF MeasuresOf, Measure
<1>7. FaultyMeasuresOf[silver[d]].total_outstanding = 100 * after
  <2>1. Faulty(silver[d]) = Scaled(later, 100)
    BY <1>1, <1>2 DEF Faulty
  <2> QED  BY <1>1, <1>5, <2>1 DEF FaultyMeasuresOf, Measure
<1>8. ASSUME Breaches(silver[p], silver[d]) = {}
      PROVE  <<"total_outstanding", "drift">> \in
                Compare(MeasuresOf[silver[p]], FaultyMeasuresOf[silver[d]])
  <2> HIDE DEF before, after
  <2>1. before # after /\ ~Moved(before, after)
    <3>1. /\ <<"total_outstanding", "unchanged">> \notin Breaches(silver[p], silver[d])
          /\ <<"total_outstanding", "drift">> \notin Breaches(silver[p], silver[d])
      BY <1>8
    <3> QED  BY <1>6, <3>1 DEF Breaches, Compare
  <2>2. before # 100 * after /\ Moved(before, 100 * after)
    BY <1>4, <2>1, HundredfoldMoves
  <2> QED  BY <1>6, <1>7, <2>2 DEF Compare
<1> QED  BY <1>3, <1>8

-----------------------------------------------------------------------------
(***************************************************************************)
(* The monitor.                                                            *)
(***************************************************************************)

\* What silver has of a date is of one delivery; short of more than two fifths
\* of that delivery's period it is reported as drift, and with nothing in scope
\* it is stopped by the input contract.
THEOREM LossesAreReported == MonitoredSpec => []LossIsReported
<1>1. Monitored => LossIsReported
  BY LossShows
<1> QED  BY <1>1, SilverIsSound, PTL

\* A hundredfold of every amount passes the input contract as the true amounts
\* do, for any rows, and is drift against any period from which the true one had
\* not drifted.
THEOREM UniformFaultsAreDrift == MonitoredSpec => []UniformFaultsShowUpAsDrift
<1>1. Monitored => UniformFaultsShowUpAsDrift
  BY UniformFaultsShow
<1> QED  BY <1>1, SilverIsSound, PTL
=============================================================================
