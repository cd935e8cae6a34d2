---------------------------- MODULE BronzeLoader ----------------------------
(***************************************************************************)
(* load_bronze.py: copies the partitions of a local extract to the bronze  *)
(* bucket, one after the other.  A partition whose objects match the local *)
(* files on name and size is skipped; any other is emptied and uploaded    *)
(* file by file, and a run that dies in between leaves what it got to.     *)
(*                                                                         *)
(* A partition is a function from file names to contents.  The bucket is   *)
(* external: listing, deleting and uploading are its operations, and the   *)
(* client's own retries are within an operation.  The source may deliver   *)
(* a date again at any time, a run included (ADR-002).                     *)
(***************************************************************************)
EXTENDS Integers, FiniteSets, Functions, TLC

CONSTANTS
    SnapshotDates,     \* numbers, in the order the partitions are named
    FileNames,         \* numbers, likewise
    Deliveries,        \* what the source may put under a date
    NotDelivered,      \* no directory for the date
    AllDates,          \* a run without --only
    BatchSize,         \* keys of one delete request, a thousand in the code
    MaxDeliveries,     \* bounds: deliveries, the first of each date included,
    MaxRuns,           \*         runs,
    MaxDeaths          \*         runs that die

Lowest(S) == CHOOSE x \in S : \A y \in S : x <= y

IsAFunction(v) == v = [f \in DOMAIN v |-> v[f]]

ASSUME LoaderAssumption ==
    /\ SnapshotDates \subseteq Nat /\ FileNames \subseteq Nat
    /\ \A v \in Deliveries : DOMAIN v \subseteq FileNames /\ IsAFunction(v)
    /\ NotDelivered \notin Deliveries /\ AllDates \notin SnapshotDates
    /\ BatchSize \in Nat \ {0}

VARIABLES
    local,         \* the extract: a delivery for each date, or none
    remote,        \* the bucket: the objects under each date's prefix
    run,           \* the loader
    delivered,     \* history: the deliveries each date has had,
    redelivered,   \* the dates delivered again since the run began,
    torn,          \* the dates delivered again while they were uploaded,
    transfers,     \* how often each date's partition was replaced,
    paid           \* and what may call for that: deliveries, forced runs, deaths
loaderVars == <<local, remote, run, delivered, redelivered, torn, transfers, paid>>

Nothing == [f \in {} |-> 0]      \* no object under a prefix

NamesOnly(objects) == [f \in DOMAIN objects |-> 0]    \* a slip: sizes are not compared

Listing(objects)   == [f \in DOMAIN objects |-> objects[f].size]

RemoteFirstPage(d) ==    \* a slip: the listing is not paginated
    LET f == Lowest(DOMAIN remote[d])
    IN  IF remote[d] = Nothing THEN Nothing ELSE f :> remote[d][f].size

\* remote_objects().
RemoteObjects(d)   == Listing(remote[d])

Present(d)    == RemoteObjects(d) = Listing(local[d])
Partitions    == {d \in SnapshotDates : local[d] # NotDelivered}
Working       == run.pc \in {"compare", "delete", "upload"}
Turn(d)       == run.pc = "compare" /\ run.todo # {} /\ d = Lowest(run.todo)

\* The process is gone, or has not been started.
Exited == [pc |-> "exited", todo |-> {}, scope |-> {}, part |-> AllDates, files |-> {},
           force |-> FALSE, dry |-> FALSE]

LoaderInit ==
    /\ local \in [SnapshotDates -> Deliveries \cup {NotDelivered}]
    /\ remote = [d \in SnapshotDates |-> Nothing]
    /\ run = Exited
    /\ delivered = [d \in SnapshotDates |-> {local[d]} \ {NotDelivered}]
    /\ redelivered = {} /\ torn = {}
    /\ transfers = [d \in SnapshotDates |-> 0]
    /\ paid = [runs |-> 0, forced |-> 0, deaths |-> 0, 
                deliveries |-> [d \in SnapshotDates |-> Cardinality(delivered[d])]]

-----------------------------------------------------------------------------
(***************************************************************************)
(* The source.                                                             *)
(***************************************************************************)
Redeliver(d, v) ==
    /\ FoldFunction(+, 0, paid.deliveries) < MaxDeliveries
    /\ v # local[d]
    /\ local' = [local EXCEPT ![d] = v]
    /\ delivered' = [delivered EXCEPT ![d] = @ \cup {v}]
    /\ redelivered' = redelivered \cup {d}
    /\ torn' = IF run.pc = "upload" /\ run.part = d THEN torn \cup {d} ELSE torn
    /\ paid' = [paid EXCEPT !.deliveries[d] = @ + 1]
    /\ UNCHANGED <<remote, run, transfers>>

-----------------------------------------------------------------------------
(***************************************************************************)
(* load().                                                                 *)
(***************************************************************************)
Start(force, dry, only) ==
    LET scope == {d \in Partitions : only \in {AllDates, d}} IN
    /\ ~Working
    /\ paid.runs < MaxRuns
    /\ scope # {}      \* otherwise SystemExit, and nothing has changed
    /\ run' = [Exited EXCEPT !.pc = "compare", !.todo = scope, !.scope = scope,
                             !.force = force, !.dry = dry]
    /\ redelivered' = {}
    /\ paid' = [paid EXCEPT !.runs = @ + 1, !.forced = @ + (IF force /\ ~dry THEN 1 ELSE 0)]
    /\ UNCHANGED <<local, remote, delivered, torn, transfers>>

\* `present`, or in a dry run `would upload`.
SkipPartition(d) ==
    /\ Turn(d)
    /\ (~run.force /\ Present(d)) \/ run.dry
    /\ run' = [run EXCEPT !.todo = @ \ {d}]
    /\ UNCHANGED <<local, remote, delivered, redelivered, torn, transfers, paid>>

\* The names to upload are the ones globbed before the comparison.
ReplacePartition(d) ==
    /\ Turn(d)
    /\ run.force \/ ~Present(d)
    /\ ~run.dry
    /\ run' = [run EXCEPT !.pc = "delete", !.part = d, !.files = DOMAIN local[d]]
    /\ transfers' = [transfers EXCEPT ![d] = @ + 1]
    /\ UNCHANGED <<local, remote, delivered, redelivered, torn, paid>>

Uploading == [run EXCEPT !.pc = "upload"]

DeleteNone ==    \* a slip: the upload overwrites and the prefix is not emptied
    /\ run.pc = "delete"
    /\ run' = Uploading
    /\ UNCHANGED <<local, remote, delivered, redelivered, torn, transfers, paid>>

\* delete_prefix: one request for each batch of the listed keys.
DeleteBatch ==
    /\ run.pc = "delete"
    /\ LET keys == DOMAIN RemoteObjects(run.part) IN
       \E batch \in SUBSET keys :
          /\ Cardinality(batch) = IF Cardinality(keys) < BatchSize
                                  THEN Cardinality(keys) ELSE BatchSize
          /\ remote' = [remote EXCEPT ![run.part] = Restrict(@, keys \ batch)]
          /\ run' = IF batch = keys THEN Uploading ELSE run
    /\ torn' = IF remote'[run.part] = Nothing THEN torn \ {run.part} ELSE torn
    /\ UNCHANGED <<local, delivered, redelivered, transfers, paid>>

\* put_object: an object of that name is there, whatever was before.
Put(objects, f, content) ==
    [g \in DOMAIN objects \cup {f} |-> IF g = f THEN content ELSE objects[g]]

UploadFile ==
    /\ run.pc = "upload" /\ run.files # {}
    /\ LET f == Lowest(run.files) IN
       /\ f \in DOMAIN local[run.part]
       /\ remote' = [remote EXCEPT ![run.part] = Put(@, f, local[run.part][f])]
       /\ run' = [run EXCEPT !.files = @ \ {f}]
    /\ UNCHANGED <<local, delivered, redelivered, torn, transfers, paid>>

NextPartition ==
    /\ run.pc = "upload" /\ run.files = {}
    /\ run' = [run EXCEPT !.pc = "compare", !.todo = @ \ {run.part}, !.part = AllDates]
    /\ UNCHANGED <<local, remote, delivered, redelivered, torn, transfers, paid>>

Finish ==
    /\ run.pc = "compare" /\ run.todo = {}
    /\ run' = [run EXCEPT !.pc = "done"]
    /\ UNCHANGED <<local, remote, delivered, redelivered, torn, transfers, paid>>

\* The file to upload went away with a delivery, or the process is killed.
LoadFails ==
    /\ Working
    /\ \/ /\ run.pc = "upload" /\ run.files # {}
          /\ Lowest(run.files) \notin DOMAIN local[run.part]
          /\ UNCHANGED paid
       \/ /\ paid.deaths < MaxDeaths
          /\ paid' = [paid EXCEPT !.deaths = @ + 1]
    /\ run' = Exited
    /\ UNCHANGED <<local, remote, delivered, redelivered, torn, transfers>>

Load == \/ \E force, dry \in BOOLEAN, only \in SnapshotDates \cup {AllDates} :
              Start(force, dry, only)
        \/ \E d \in SnapshotDates : SkipPartition(d) \/ ReplacePartition(d)
        \/ DeleteBatch \/ UploadFile \/ NextPartition \/ Finish \/ LoadFails

LoaderNext == Load \/ \E d \in SnapshotDates, v \in Deliveries : Redeliver(d, v)

LoaderSpec == LoaderInit /\ [][LoaderNext]_loaderVars

-----------------------------------------------------------------------------
\* A run that completes leaves every partition it was asked for with the names
\* and sizes of the extract, and a forced run with its contents too, whatever
\* earlier runs died of: a source that delivered meanwhile is the only excuse.
CompletedLoadAgrees ==
    (run.pc = "done" /\ ~run.dry) =>
        \A d \in run.scope \ redelivered :
            /\ DOMAIN remote[d] = DOMAIN local[d]
            /\ \A f \in DOMAIN local[d] : remote[d][f].size = local[d][f].size
            /\ run.force => remote[d] = local[d]

\* "A rerun of the same date must not accumulate rows" (load_bronze.py:6-7): a
\* partition never holds files of two deliveries, unless the source delivered
\* while its files were uploaded.
OneDeliveryAtATime ==
    \A d \in SnapshotDates \ torn :
        remote[d] # Nothing =>
            \E v \in delivered[d] : /\ DOMAIN remote[d] \subseteq DOMAIN v
                                    /\ \A f \in DOMAIN remote[d] : remote[d][f] = v[f]

\* "An interrupted run resumes rather than re-transferring what landed"
\* (load_bronze.py:9-10): reruns alone never transfer a partition again.
TransfersArePaidFor ==
    \A d \in SnapshotDates :
        transfers[d] <= paid.deliveries[d] + paid.forced + paid.deaths
=============================================================================
