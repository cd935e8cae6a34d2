---------------------------- MODULE TableHistory ----------------------------
(***************************************************************************)
(* One Iceberg table under maintenance: maintenance.py expires snapshots   *)
(* and compacts files while the jobs write and read the table and an       *)
(* operator rolls a bad write back (docs/runbooks/table-maintenance.md).   *)
(*                                                                         *)
(* Every commit is a snapshot, a set of data files; a data file holds the  *)
(* rows of the writes in `rows` for one partition.  What the writes, the   *)
(* rollback and the two procedures do to metadata and files is Iceberg's,  *)
(* external to the repository; when they run, with which arguments and in  *)
(* which order is maintenance.py's.                                        *)
(***************************************************************************)
EXTENDS Integers, Sequences, FiniteSets

CONSTANTS
    Partitions,
    RetentionDays, RetainLast,             \* --retention-days, --retain-last
    LastDay, MaxCommits, MaxFiles, MaxDeaths   \* bounds

ASSUME RetentionAssumption == RetentionDays \in Nat /\ RetainLast \in Nat \ {0}
ASSUME HistoryBounds == {LastDay, MaxCommits, MaxFiles, MaxDeaths} \subseteq Nat

VARIABLES
    now,          \* the day
    commits,      \* every snapshot ever committed; its id is its place here
    retained,     \* ids in the table's metadata
    current,      \* id of the current snapshot, 0 before the first write
    disk,         \* data files in storage
    made,         \* data files ever written
    writer,       \* a job's write: its file, before it is committed
    upkeep,       \* the maintenance run
    reader,       \* a job or a stream that reads one snapshot
    rolledBack,   \* history: was there a rollback?
    deaths        \* writes and maintenance runs that died
tableVars == <<now, commits, retained, current, disk, made, writer, upkeep, reader,
               rolledBack, deaths>>

Idle == [pc |-> "idle"]

HistoryInit ==
    /\ now = 0 /\ commits = <<>> /\ retained = {} /\ current = 0
    /\ disk = {} /\ made = 0
    /\ writer = Idle /\ upkeep = Idle /\ reader = Idle
    /\ rolledBack = FALSE /\ deaths = 0

FilesOf(id) == IF id = 0 THEN {} ELSE commits[id].files
AllFiles(ids) == UNION {FilesOf(id) : id \in ids}
Content(files) == UNION {{<<f.part, w>> : w \in f.rows} : f \in files}

\* The ids of a snapshot and of those it was built on.
Lineage == LET line[id \in 0..Len(commits)] ==
                   IF id = 0 THEN {} ELSE {id} \cup line[commits[id].parent]
           IN  line

Commit(files) ==
    /\ Len(commits) < MaxCommits
    /\ commits' = Append(commits, [parent |-> current, day |-> now, files |-> files])
    /\ current' = Len(commits) + 1
    /\ retained' = retained \cup {Len(commits) + 1}

\* A new data file is in storage before any snapshot refers to it.
Store(part, rows) ==
    /\ made < MaxFiles
    /\ made' = made + 1
    /\ disk' = disk \cup {[n |-> made + 1, part |-> part, rows |-> rows]}

NextDay ==
    /\ now < LastDay
    /\ now' = now + 1
    /\ UNCHANGED <<commits, retained, current, disk, made, writer, upkeep, reader,
                   rolledBack, deaths>>

-----------------------------------------------------------------------------
(***************************************************************************)
(* The jobs: overwritePartitions() replaces the partition as it is at the  *)
(* commit, append() adds to it.                                            *)
(***************************************************************************)
BeginWrite(part, mode) ==
    /\ writer = Idle
    /\ Store(part, {made + 1})
    /\ writer' = [pc |-> mode, file |-> [n |-> made + 1, part |-> part, rows |-> {made + 1}]]
    /\ UNCHANGED <<now, commits, retained, current, upkeep, reader, rolledBack, deaths>>

CommitWrite ==
    /\ writer # Idle
    /\ Commit({writer.file} \cup
              {f \in FilesOf(current) : writer.pc = "append" \/ f.part # writer.file.part})
    /\ writer' = Idle
    /\ UNCHANGED <<now, disk, made, upkeep, reader, rolledBack, deaths>>

\* A write that fails commits nothing; what it had written may stay behind.
WriteDies ==
    /\ writer # Idle
    /\ deaths < MaxDeaths
    /\ deaths' = deaths + 1
    /\ disk' \in {disk, disk \ {writer.file}}
    /\ writer' = Idle
    /\ UNCHANGED <<now, commits, retained, current, made, upkeep, reader, rolledBack>>

\* A reader plans on the current snapshot and opens its files later.
BeginRead ==
    /\ reader = Idle /\ current # 0
    /\ reader' = [pc |-> "reading", snapshot |-> current, since |-> Len(commits)]
    /\ UNCHANGED <<now, commits, retained, current, disk, made, writer, upkeep,
                   rolledBack, deaths>>

EndRead ==
    /\ reader # Idle
    /\ reader' = Idle
    /\ UNCHANGED <<now, commits, retained, current, disk, made, writer, upkeep,
                   rolledBack, deaths>>

\* rollback_to_snapshot takes an ancestor of the current snapshot.
Rollback(id) ==
    /\ id \in (Lineage[current] \ {current}) \cap retained
    /\ current' = id
    /\ rolledBack' = TRUE
    /\ UNCHANGED <<now, commits, retained, disk, made, writer, upkeep, reader, deaths>>

-----------------------------------------------------------------------------
(***************************************************************************)
(* maintenance.py.  Without --apply it only reports.                       *)
(***************************************************************************)
Cutoff == now - RetentionDays

\* Newer snapshots on the line of `id` that leads to the current one.
NewerThan(id) == {other \in Lineage[current] : other > id}
KeptAboveFloor ==    \* a slip: the floor counts what is young, not what is newest
    {id \in retained : commits[id].day >= Cutoff}
KeptByCount ==    \* a slip: the floor replaces the retention instead of adding to it
    {id \in retained : id \in Lineage[current] /\ Cardinality(NewerThan(id)) < RetainLast}

\* What expire_snapshots keeps: on the line of the current snapshot the newest
\* RetainLast and all that are young, elsewhere what is young.
Kept == {id \in retained :
            \/ commits[id].day >= Cutoff
            \/ id \in Lineage[current] /\ Cardinality(NewerThan(id)) < RetainLast}

\* expirable(): the report of how many snapshots the retention would remove.
Old == {id \in retained : commits[id].day < Cutoff}
ExpirableOld == Cardinality(Old)    \* a slip: the floor is left out
Expirable ==
    LET spare == Cardinality(retained) - RetainLast
    IN  IF spare <= 0 THEN 0
        ELSE IF Cardinality(Old) < spare THEN Cardinality(Old) ELSE spare

\* storage(): the files of the current snapshot, and what history holds on top.
HeldByHistory == AllFiles(retained) \ FilesOf(current)

\* Files that only what is removed refers to.
DoomedNever(kept) == {}    \* a slip: metadata is expired and files are left
DoomedUnshared(kept) ==    \* a slip: what the current snapshot shares is all that stays
    AllFiles(retained \ kept) \ FilesOf(current)
Doomed(kept) == AllFiles(retained) \ AllFiles(kept)

\* expire_snapshots: one commit of metadata, then the files are deleted.
Expire(compact) ==
    /\ upkeep = Idle /\ current # 0
    /\ upkeep' = [pc |-> "delete", doomed |-> Doomed(Kept), compact |-> compact]
    /\ retained' = Kept
    /\ UNCHANGED <<now, commits, current, disk, made, writer, reader, rolledBack, deaths>>

DeleteFiles ==
    /\ upkeep.pc = "delete"
    /\ disk' = disk \ upkeep.doomed
    /\ upkeep' = IF upkeep.compact THEN [pc |-> "compact"] ELSE Idle
    /\ UNCHANGED <<now, commits, retained, current, made, writer, reader, rolledBack, deaths>>

\* rewrite_data_files: the files of a partition into one, planned on the
\* current snapshot and committed later ...
Rewrite(part) ==
    LET small == {f \in FilesOf(current) : f.part = part}
        rows  == UNION {f.rows : f \in small}
    IN  /\ upkeep.pc = "compact"
        /\ Cardinality(small) > 1
        /\ Store(part, rows)
        /\ upkeep' = [pc |-> "rewrite", old |-> small,
                      new |-> [n |-> made + 1, part |-> part, rows |-> rows]]
        /\ UNCHANGED <<now, commits, retained, current, writer, reader, rolledBack, deaths>>

NothingToRewrite ==
    /\ upkeep.pc = "compact"
    /\ \A f, g \in FilesOf(current) : f.part = g.part => f = g
    /\ upkeep' = Idle
    /\ UNCHANGED <<now, commits, retained, current, disk, made, writer, reader,
                   rolledBack, deaths>>

\* ... if the files it replaces are still there, and otherwise not at all.
StillThereAny(old) == old \cap FilesOf(current) # {}    \* a slip
StillThere(old)    == old \subseteq FilesOf(current)

CommitRewrite ==
    /\ upkeep.pc = "rewrite"
    /\ StillThere(upkeep.old)
    /\ Commit((FilesOf(current) \ upkeep.old) \cup {upkeep.new})
    /\ upkeep' = Idle
    /\ UNCHANGED <<now, disk, made, writer, reader, rolledBack, deaths>>

RewriteConflicts ==
    /\ upkeep.pc = "rewrite"
    /\ ~StillThere(upkeep.old)
    /\ disk' = disk \ {upkeep.new}
    /\ upkeep' = Idle
    /\ UNCHANGED <<now, commits, retained, current, made, writer, reader, rolledBack, deaths>>

UpkeepDies ==
    /\ upkeep # Idle
    /\ deaths < MaxDeaths
    /\ deaths' = deaths + 1
    /\ upkeep' = Idle
    /\ UNCHANGED <<now, commits, retained, current, disk, made, writer, reader, rolledBack>>

-----------------------------------------------------------------------------
Jobs == \/ \E part \in Partitions, mode \in {"overwrite", "append"} : BeginWrite(part, mode)
        \/ CommitWrite \/ WriteDies \/ BeginRead \/ EndRead
Maintenance == \/ \E compact \in BOOLEAN : Expire(compact)
               \/ \E part \in Partitions : Rewrite(part)
               \/ DeleteFiles \/ NothingToRewrite \/ CommitRewrite \/ RewriteConflicts
               \/ UpkeepDies

HistoryNext == \/ NextDay \/ Jobs \/ Maintenance
               \/ \E id \in 1..MaxCommits : Rollback(id)
HistorySpec == HistoryInit /\ [][HistoryNext]_tableVars

-----------------------------------------------------------------------------
\* Whatever expiry, compaction, rollback and writes do in between, every
\* snapshot the table still lists can be read: its files are there.
NothingDangling == AllFiles(retained) \subseteq disk

\* Storage holds what some snapshot or a step under way refers to, and nothing
\* else as long as nothing died: expiry reclaims all there is to reclaim.
InFlight == (IF writer = Idle THEN {} ELSE {writer.file})
       \cup (IF upkeep.pc = "delete" THEN upkeep.doomed ELSE {})
       \cup (IF upkeep.pc = "rewrite" THEN {upkeep.new} ELSE {})
StorageAccountedFor == deaths = 0 => disk = AllFiles(retained) \cup InFlight

\* The retention's promise (maintenance.py:10-13): what is younger than the
\* retention is there, and until somebody rolls back the newest RetainLast
\* versions are, whenever expiry last ran.
PromisedHistoryKept ==
    /\ \A id \in DOMAIN commits : commits[id].day >= Cutoff => id \in retained
    /\ ~rolledBack => \A id \in Lineage[current] :
                          Cardinality(NewerThan(id)) < RetainLast => id \in retained

\* A reader loses its files only to a rollback or to RetainLast later commits:
\* the age that expiry looks at is not how long a snapshot has been superseded.
ReadersKeepTheirFiles ==
    (reader # Idle /\ ~(FilesOf(reader.snapshot) \subseteq disk))
        => rolledBack \/ Len(commits) - reader.since >= RetainLast

\* Compaction changes no row of the table, whatever was committed or rolled
\* back since it planned.
CompactionKeepsContent ==
    [][(upkeep.pc = "rewrite" /\ upkeep' = Idle /\ current' # current)
           => Content(FilesOf(current)') = Content(FilesOf(current))]_tableVars

\* On a table that was never rolled back, the report is what expiry would do.
ReportIsExact ==
    ~rolledBack => Expirable = Cardinality(retained \ Kept)
=============================================================================
