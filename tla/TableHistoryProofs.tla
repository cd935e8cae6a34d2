-------------------------- MODULE TableHistoryProofs ------------------------
(***************************************************************************)
(* Proofs about TableHistory, for every set of partitions, every retention *)
(* and floor, and however many commits, files and deaths there are.        *)
(***************************************************************************)
EXTENDS TableHistory, FiniteSetTheorems, Induction, TLAPS

(***************************************************************************)
(* Snapshots and the line they are on.                                     *)
(***************************************************************************)
DataFiles == [n : Nat, part : Partitions, rows : SUBSET Nat]
Snapshots == [parent : Nat, day : Nat, files : SUBSET DataFiles]

\* A snapshot is built on an earlier one.
Ancestry ==
    /\ commits \in Seq(Snapshots)
    /\ \A id \in DOMAIN commits : commits[id].parent < id

LEMMA SnapshotIds == ASSUME Ancestry
                     PROVE  /\ Len(commits) \in Nat
                            /\ DOMAIN commits = 1..Len(commits)
                            /\ \A id \in 1..Len(commits) : commits[id] \in Snapshots
BY DEF Ancestry

\* The equation of Lineage, for the snapshots up to n.
IsLine(line, n) ==
    line = [id \in 0..n |-> IF id = 0 THEN {} ELSE {id} \cup line[commits[id].parent]]

LEMMA LineGrows ==
    ASSUME Ancestry, NEW n \in 0..Len(commits) - 1, NEW g, IsLine(g, n)
    PROVE  \E h : IsLine(h, n + 1)
<1> DEFINE last == n + 1
           p    == commits[last].parent
           h    == [id \in 0..last |-> IF id = last THEN {last} \cup g[p] ELSE g[id]]
<1>1. /\ n \in Nat /\ last \in 1..Len(commits) /\ last # 0 /\ 0..last = 0..n \cup {last}
      /\ last \notin 0..n
  BY SnapshotIds
<1>2. p \in 0..n
  BY <1>1, SnapshotIds DEF Ancestry, Snapshots
<1>3. \A id \in 0..n : h[id] = g[id]
  BY <1>1
<1>4. \A id \in 0..n : id # 0 => commits[id].parent \in 0..n
  BY <1>1, SnapshotIds DEF Ancestry, Snapshots
<1>5. \A id \in 0..last : h[id] = IF id = 0 THEN {} ELSE {id} \cup h[commits[id].parent]
  <2> SUFFICES ASSUME NEW id \in 0..last
               PROVE  h[id] = IF id = 0 THEN {} ELSE {id} \cup h[commits[id].parent]
    OBVIOUS
  <2>1. CASE id = last
    <3>1. h[last] = {last} \cup g[p] /\ h[p] = g[p]
      BY <1>1, <1>2, <1>3
    <3> QED  BY <2>1, <3>1, <1>1
  <2>2. CASE id \in 0..n
    <3>1. g[id] = IF id = 0 THEN {} ELSE {id} \cup g[commits[id].parent]
      BY <2>2 DEF IsLine
    <3>2. id # 0 => h[commits[id].parent] = g[commits[id].parent]
      BY <1>3, <1>4, <2>2
    <3>3. h[id] = g[id]
      BY <2>2, <1>3
    <3> HIDE DEF h
    <3> QED  BY <3>1, <3>2, <3>3
  <2> QED  BY <2>1, <2>2, <1>1
<1>6. DOMAIN h = 0..last /\ h = [id \in DOMAIN h |-> h[id]]
  OBVIOUS
<1> HIDE DEF h
<1>7. IsLine(h, last)
  BY <1>5, <1>6 DEF IsLine
<1> QED  BY <1>7

LEMMA LineExists ==
    ASSUME Ancestry
    PROVE  \E line : IsLine(line, Len(commits))
<1> DEFINE S == {n \in Nat : n <= Len(commits) => \E line : IsLine(line, n)}
<1>1. 0 \in S
  <2> DEFINE none == [id \in 0..0 |-> {}]
  <2>1. none = [id \in 0..0 |-> IF id = 0 THEN {} ELSE {id} \cup none[commits[id].parent]]
    OBVIOUS
  <2> HIDE DEF none
  <2>2. IsLine(none, 0)
    BY <2>1 DEF IsLine
  <2> QED  BY <2>2
<1>2. ASSUME NEW n \in Nat, n \in S PROVE n + 1 \in S
  <2>1. CASE n + 1 <= Len(commits)
    <3>1. n \in 0..Len(commits) - 1 /\ \E g : IsLine(g, n)
      BY <1>2, <2>1, SnapshotIds
    <3> QED  BY <3>1, LineGrows
  <2>2. CASE ~(n + 1 <= Len(commits))
    BY <2>2
  <2> QED  BY <2>1, <2>2
<1> HIDE DEF S
<1>3. Nat \subseteq S
  BY <1>1, <1>2, EveryNumber
<1> QED  BY <1>3, SnapshotIds DEF S

\* Lineage is what its definition says.
LEMMA LineageUnfolds ==
    ASSUME Ancestry
    PROVE  \A id \in 0..Len(commits) :
              Lineage[id] = IF id = 0 THEN {} ELSE {id} \cup Lineage[commits[id].parent]
<1>1. Lineage = CHOOSE line : IsLine(line, Len(commits))
  BY DEF Lineage, IsLine
<1>2. IsLine(Lineage, Len(commits))
  BY <1>1, LineExists
<1> QED  BY <1>2 DEF IsLine

LEMMA LineageAtStart == ASSUME Ancestry PROVE Lineage[0] = {}
<1>1. 0 \in 0..Len(commits)
  BY SnapshotIds
<1> QED  BY <1>1, LineageUnfolds

\* A snapshot is the newest on its own line.
LEMMA LineageIsOlder ==
    ASSUME Ancestry
    PROVE  \A id \in 1..Len(commits) : id \in Lineage[id] /\ Lineage[id] \subseteq 1..id
<1> DEFINE S == {n \in Nat : n \in 1..Len(commits) =>
                                n \in Lineage[n] /\ Lineage[n] \subseteq 1..n}
<1>1. ASSUME NEW n \in Nat, \A k \in 0..n - 1 : k \in S PROVE n \in S
  <2> SUFFICES ASSUME n \in 1..Len(commits)
               PROVE  n \in Lineage[n] /\ Lineage[n] \subseteq 1..n
    OBVIOUS
  <2> DEFINE p == commits[n].parent
  <2>1. p \in 0..n - 1 /\ n \in 0..Len(commits) /\ n # 0
    BY SnapshotIds DEF Ancestry, Snapshots
  <2>2. Lineage[n] = {n} \cup Lineage[p]
    BY <2>1, LineageUnfolds
  <2>3. Lineage[0] = {}
    BY LineageAtStart
  <2>4. p # 0 => Lineage[p] \subseteq 1..p
    BY <1>1, <2>1, SnapshotIds
  <2> HIDE DEF p
  <2>5. Lineage[p] \subseteq 1..n
    BY <2>1, <2>3, <2>4
  <2> QED  BY <2>1, <2>2, <2>5
<1> HIDE DEF S
<1>2. Nat \subseteq S
  BY <1>1, EveryNumberAfterSmaller
<1> QED  BY <1>2, SnapshotIds DEF S

\* Without a rollback every snapshot is built on the one before it.
StraightLine ==
    /\ current = Len(commits)
    /\ \A id \in DOMAIN commits : commits[id].parent = id - 1

LEMMA StraightLineage ==
    ASSUME Ancestry, StraightLine
    PROVE  \A id \in 0..Len(commits) : Lineage[id] = 1..id
<1> DEFINE S == {n \in Nat : n <= Len(commits) => Lineage[n] = 1..n}
<1>1. 0 \in S
  BY LineageAtStart
<1>2. ASSUME NEW n \in Nat, n \in S PROVE n + 1 \in S
  <2> SUFFICES ASSUME n + 1 <= Len(commits) PROVE Lineage[n + 1] = 1..n + 1
    OBVIOUS
  <2>1. /\ n + 1 \in 0..Len(commits) /\ n + 1 # 0 /\ n + 1 \in 1..Len(commits)
        /\ commits[n + 1].parent = n
    BY SnapshotIds DEF StraightLine
  <2>2. Lineage[n + 1] = {n + 1} \cup Lineage[n]
    BY <2>1, LineageUnfolds
  <2>3. Lineage[n] = 1..n
    BY <1>2, SnapshotIds
  <2> QED  BY <2>2, <2>3
<1> HIDE DEF S
<1>3. Nat \subseteq S
  BY <1>1, <1>2, EveryNumber
<1> QED  BY <1>3, SnapshotIds DEF S

\* How many newer versions there are, then.
LEMMA StraightCount ==
    ASSUME Ancestry, StraightLine, NEW id \in DOMAIN commits
    PROVE  /\ id \in Lineage[current]
           /\ Cardinality(NewerThan(id)) = Len(commits) - id
<1>1. Len(commits) \in Nat /\ id \in 1..Len(commits)
  BY SnapshotIds
<1>2. Lineage[current] = 1..Len(commits)
  BY <1>1, StraightLineage DEF StraightLine
<1>3. NewerThan(id) = id + 1..Len(commits)
  BY <1>1, <1>2 DEF NewerThan
<1>4. Cardinality(id + 1..Len(commits)) = Len(commits) - id
  <2>1. id + 1 \in Int /\ Len(commits) \in Int
    BY <1>1
  <2>2. Cardinality(id + 1..Len(commits)) =
            IF id + 1 > Len(commits) THEN 0 ELSE Len(commits) - (id + 1) + 1
    BY <2>1, FS_Interval
  <2> QED  BY <1>1, <2>2
<1> QED  BY <1>1, <1>2, <1>3, <1>4

\* The current snapshot has nothing newer on its line: expiry keeps it.
LEMMA CurrentIsKept ==
    ASSUME Ancestry, current \in retained, retained \subseteq DOMAIN commits
    PROVE  current \in Kept
<1>1. current \in 1..Len(commits) /\ Len(commits) \in Nat
  BY SnapshotIds
<1>2. current \in Lineage[current] /\ Lineage[current] \subseteq 1..current
  BY <1>1, LineageIsOlder
<1>3. NewerThan(current) = {}
  BY <1>1, <1>2 DEF NewerThan
<1>4. Cardinality(NewerThan(current)) < RetainLast
  BY <1>3, FS_EmptySet, RetentionAssumption
<1> QED  BY <1>2, <1>4 DEF Kept

-----------------------------------------------------------------------------
(***************************************************************************)
(* The inductive invariant.                                                *)
(***************************************************************************)
Writes     == [pc : {"overwrite", "append"}, file : DataFiles]
Deletions  == [pc : {"delete"}, doomed : SUBSET DataFiles, compact : BOOLEAN]
Rewritings == [pc : {"rewrite"}, old : SUBSET DataFiles, new : DataFiles]

ReaderTypes ==
    \/ reader = Idle
    \/ /\ DOMAIN reader = {"pc", "snapshot", "since"}
       /\ reader.snapshot \in DOMAIN commits
       /\ reader.since \in 0..Len(commits)

CourseTypes ==
    /\ Ancestry /\ retained \subseteq DOMAIN commits /\ current \in retained \cup {0}
    /\ now \in Nat /\ rolledBack \in BOOLEAN /\ ReaderTypes

FileTypes ==
    /\ made \in Nat /\ deaths \in Nat
    /\ writer \in {Idle} \cup Writes
    /\ upkeep \in {Idle, [pc |-> "compact"]} \cup Deletions \cup Rewritings

\* Later snapshots are not older.
Chronicle ==
    /\ \A id \in DOMAIN commits : commits[id].day \in Nat /\ commits[id].day <= now
    /\ \A id, later \in DOMAIN commits : id <= later => commits[id].day <= commits[later].day

\* Until somebody rolls back there is one line, and a reader started at its end.
OneLine ==
    ~rolledBack => StraightLine /\ (reader # Idle => reader.snapshot = reader.since)

\* The two halves of what expiry promises.
YoungKept == \A id \in DOMAIN commits : commits[id].day >= Cutoff => id \in retained
FloorKept == ~rolledBack => \A id \in DOMAIN commits :
                               Len(commits) - id < RetainLast => id \in retained

Ever   == AllFiles(DOMAIN commits)    \* files some snapshot ever had
Listed == AllFiles(retained)          \* files of snapshots the table still lists

\* A file that is not committed yet is on disk and belongs to no snapshot, and
\* what is about to be deleted belongs to none that is listed.
FilesApart ==
    /\ Ever \subseteq DataFiles /\ Listed \subseteq Ever
    /\ \A f \in Ever : f.n <= made
    /\ writer # Idle =>
          writer.file \in disk \ Ever /\ writer.file.n <= made
    /\ upkeep.pc = "delete" => upkeep.doomed \subseteq Ever \ Listed
    /\ upkeep.pc = "rewrite" =>
          /\ upkeep.new \in disk \ Ever /\ upkeep.new.n <= made
          /\ writer # Idle => upkeep.new # writer.file

\* The new file of a compaction holds the rows of those it replaces.
SameRows ==
    upkeep.pc = "rewrite" =>
        /\ upkeep.new.rows = UNION {f.rows : f \in upkeep.old}
        /\ upkeep.old # {} /\ \A f \in upkeep.old : f.part = upkeep.new.part

\* What is kept and on which line, and where the files are.
Course     == CourseTypes /\ Chronicle /\ OneLine /\ YoungKept /\ FloorKept
FilesSound == FileTypes /\ FilesApart /\ SameRows /\ NothingDangling /\ StorageAccountedFor

HistoryInvariant == Course /\ FilesSound

LEMMA InvariantAtStart == HistoryInit => HistoryInvariant
<1> SUFFICES ASSUME HistoryInit PROVE HistoryInvariant
  OBVIOUS
<1>1. /\ commits = <<>> /\ DOMAIN commits = {} /\ Len(commits) = 0
      /\ commits \in Seq(Snapshots) /\ retained = {}
  BY DEF HistoryInit
<1>2. Ever = {} /\ Listed = {}
  BY <1>1 DEF Ever, Listed, AllFiles
<1>3. Course
  <2>1. Ancestry
    BY <1>1 DEF Ancestry
  <2>2. CourseTypes
    BY <1>1, <2>1 DEF HistoryInit, CourseTypes, ReaderTypes
  <2>3. Chronicle /\ YoungKept /\ FloorKept
    BY <1>1 DEF Chronicle, YoungKept, FloorKept
  <2>4. OneLine
    BY <1>1 DEF HistoryInit, OneLine, StraightLine
  <2> QED  BY <2>2, <2>3, <2>4 DEF Course
<1>4. FileTypes /\ FilesApart /\ SameRows
  BY <1>1, <1>2 DEF HistoryInit, Idle, FileTypes, FilesApart, SameRows
<1>5. NothingDangling /\ StorageAccountedFor
  BY <1>1, <1>2 DEF HistoryInit, Idle, NothingDangling, StorageAccountedFor, InFlight, Listed
<1> QED  BY <1>3, <1>4, <1>5 DEF HistoryInvariant, FilesSound

-----------------------------------------------------------------------------
(***************************************************************************)
(* What a commit does.                                                     *)
(***************************************************************************)
LEMMA CommitAppends ==
    ASSUME CourseTypes, NEW files \in SUBSET DataFiles, Commit(files)
    PROVE  /\ Len(commits') = Len(commits) + 1
           /\ DOMAIN commits' = DOMAIN commits \cup {Len(commits) + 1}
           /\ Len(commits) + 1 \notin DOMAIN commits
           /\ commits'[Len(commits) + 1] = [parent |-> current, day |-> now, files |-> files]
           /\ \A id \in DOMAIN commits : commits'[id] = commits[id]
           /\ Ancestry'
           /\ retained' = retained \cup {Len(commits) + 1} /\ current' = Len(commits) + 1
<1> DEFINE new == [parent |-> current, day |-> now, files |-> files]
<1>1. /\ Len(commits) \in Nat /\ DOMAIN commits = 1..Len(commits)
      /\ current \in 0..Len(commits) /\ now \in Nat
  BY SnapshotIds DEF CourseTypes
<1>2. new \in Snapshots
  BY <1>1 DEF Snapshots
<1>3. /\ commits \in Seq(Snapshots) /\ commits' = Append(commits, new)
      /\ retained' = retained \cup {Len(commits) + 1} /\ current' = Len(commits) + 1
  BY DEF CourseTypes, Ancestry, Commit
<1>4. new.parent = current
  OBVIOUS
<1> HIDE DEF new
<1>5. /\ commits' \in Seq(Snapshots)
      /\ Len(commits') = Len(commits) + 1
      /\ DOMAIN commits' = 1..Len(commits) + 1
      /\ commits'[Len(commits) + 1] = new
      /\ \A id \in 1..Len(commits) : commits'[id] = commits[id]
  BY <1>1, <1>2, <1>3
<1>6. Ancestry'
  <2>1. ASSUME NEW id \in DOMAIN commits' PROVE commits'[id].parent < id
    <3>1. CASE id = Len(commits) + 1
      BY <3>1, <1>1, <1>4, <1>5
    <3>2. CASE id \in 1..Len(commits)
      BY <3>2, <1>1, <1>5 DEF CourseTypes, Ancestry
    <3> QED  BY <3>1, <3>2, <1>1, <1>5
  <2> QED  BY <2>1, <1>5 DEF Ancestry
<1> QED  BY <1>1, <1>3, <1>5, <1>6 DEF new

LEMMA FilesOfSnapshot ==
    ASSUME Ancestry, NEW id \in DOMAIN commits
    PROVE  FilesOf(id) = commits[id].files
BY SnapshotIds DEF FilesOf

LEMMA CommitAddsFiles ==
    ASSUME CourseTypes, NEW files \in SUBSET DataFiles, Commit(files)
    PROVE  Ever' = Ever \cup files /\ Listed' = Listed \cup files
<1>1. PICK n : n = Len(commits) + 1
  OBVIOUS
<1>2. /\ DOMAIN commits' = DOMAIN commits \cup {n} /\ retained' = retained \cup {n}
      /\ retained \subseteq DOMAIN commits
      /\ commits'[n].files = files
      /\ \A id \in DOMAIN commits : commits'[id] = commits[id]
      /\ n # 0 /\ 0 \notin DOMAIN commits
  <2>1. Ancestry /\ retained \subseteq DOMAIN commits
    BY DEF CourseTypes
  <2>2. n # 0 /\ 0 \notin DOMAIN commits
    BY <1>1, <2>1, SnapshotIds
  <2>3. /\ DOMAIN commits' = DOMAIN commits \cup {n} /\ retained' = retained \cup {n}
        /\ commits'[n] = [parent |-> current, day |-> now, files |-> files]
        /\ \A id \in DOMAIN commits : commits'[id] = commits[id]
    BY <1>1, CommitAppends
  <2> QED  BY <2>1, <2>2, <2>3
<1>3. /\ \A id \in DOMAIN commits : FilesOf(id)' = FilesOf(id)
      /\ FilesOf(n)' = files
  BY <1>2 DEF FilesOf
<1>4. Ever' = Ever \cup files
  BY <1>2, <1>3 DEF Ever, AllFiles
<1>5. Listed' = Listed \cup files
  BY <1>2, <1>3 DEF Listed, AllFiles
<1> QED  BY <1>4, <1>5

LEMMA SameFiles ==
    ASSUME UNCHANGED <<commits, retained>>
    PROVE  Ever' = Ever /\ Listed' = Listed
BY DEF Ever, Listed, AllFiles, FilesOf

\* The current snapshot is listed, and its files are.
LEMMA CurrentIsListed ==
    ASSUME CourseTypes
    PROVE  FilesOf(current) \subseteq Listed /\ FilesOf(current) \subseteq DataFiles
<1>1. CASE current = 0
  BY <1>1 DEF FilesOf
<1>2. CASE current \in retained
  <2>1. FilesOf(current) \in SUBSET DataFiles
    <3>1. current \in 1..Len(commits) /\ commits[current] \in Snapshots
      BY <1>2, SnapshotIds DEF CourseTypes
    <3> QED  BY <3>1 DEF FilesOf, Snapshots
  <2> QED  BY <1>2, <2>1 DEF Listed, AllFiles
<1> QED  BY <1>1, <1>2 DEF CourseTypes

-----------------------------------------------------------------------------
(***************************************************************************)
(* The course of the table's history: what is kept, and on which line.     *)
(***************************************************************************)
LEMMA CourseAfterCommit ==
    ASSUME Course, NEW files \in SUBSET DataFiles, Commit(files),
           UNCHANGED <<now, reader, rolledBack>>
    PROVE  Course'
<1>1. PICK n : n = Len(commits) + 1
  OBVIOUS
<1>2. /\ Len(commits') = n /\ DOMAIN commits' = DOMAIN commits \cup {n}
      /\ commits'[n] = [parent |-> current, day |-> now, files |-> files]
      /\ \A id \in DOMAIN commits : commits'[id] = commits[id]
      /\ Ancestry' /\ retained' = retained \cup {n} /\ current' = n
  BY <1>1, CommitAppends DEF Course
<1>3. Len(commits) \in Nat /\ DOMAIN commits = 1..Len(commits)
  BY SnapshotIds DEF Course, CourseTypes
<1>4. commits'[n].day = now /\ commits'[n].parent = current
  BY <1>2
<1>5. retained' \subseteq DOMAIN commits' /\ current' \in retained' \cup {0}
  BY <1>2 DEF Course, CourseTypes
<1>6. ReaderTypes'
  BY <1>1, <1>2, <1>3 DEF Course, CourseTypes, ReaderTypes
<1>7. Chronicle'
  <2>1. \A id \in DOMAIN commits' : commits'[id].day \in Nat /\ commits'[id].day <= now
    BY <1>2, <1>4 DEF Course, CourseTypes, Chronicle
  <2>2. ASSUME NEW id \in DOMAIN commits', NEW later \in DOMAIN commits', id <= later
        PROVE  commits'[id].day <= commits'[later].day
    <3>1. CASE later = n
      BY <2>1, <3>1, <1>4
    <3>2. CASE later \in DOMAIN commits
      <4>1. id \in DOMAIN commits
        BY <1>1, <1>2, <1>3, <2>2, <3>2
      <4> QED  BY <4>1, <3>2, <2>2, <1>2 DEF Course, CourseTypes, Chronicle
    <3> QED  BY <3>1, <3>2, <1>2
  <2> QED  BY <2>1, <2>2 DEF Chronicle
<1>8. OneLine'
  <2> SUFFICES ASSUME ~rolledBack PROVE StraightLine' /\ (reader # Idle => reader.snapshot = reader.since)
    BY DEF OneLine
  <2>1. StraightLine /\ (reader # Idle => reader.snapshot = reader.since)
    BY DEF Course, CourseTypes, OneLine
  <2>2. current' = Len(commits')
    BY <1>2
  <2>3. \A id \in DOMAIN commits' : commits'[id].parent = id - 1
    BY <1>1, <1>2, <1>3, <1>4, <2>1 DEF StraightLine
  <2> QED  BY <2>1, <2>2, <2>3 DEF StraightLine
<1>9. YoungKept'
  BY <1>2 DEF Course, CourseTypes, YoungKept, Cutoff
<1>10. FloorKept'
  <2> SUFFICES ASSUME ~rolledBack, NEW id \in DOMAIN commits', Len(commits') - id < RetainLast
               PROVE  id \in retained'
    BY DEF FloorKept
  <2>1. CASE id = n
    BY <2>1, <1>2
  <2>2. CASE id \in DOMAIN commits
    <3>1. Len(commits) - id < RetainLast
      BY <1>1, <1>2, <1>3, <2>2, RetentionAssumption
    <3> QED  BY <3>1, <2>2, <1>2 DEF Course, CourseTypes, FloorKept
  <2> QED  BY <2>1, <2>2, <1>2
<1> QED  BY <1>2, <1>5, <1>6, <1>7, <1>8, <1>9, <1>10 DEF Course, CourseTypes

\* Time goes on, and a reader comes or goes.
LEMMA CourseGoesOn ==
    ASSUME Course, UNCHANGED <<commits, retained, current, rolledBack>>,
           now' = now \/ now' = now + 1,
           \/ reader' \in {reader, Idle}
           \/ BeginRead
    PROVE  Course'
<1>1. Ancestry' /\ retained' \subseteq DOMAIN commits' /\ current' \in retained' \cup {0}
  BY DEF Course, CourseTypes, Ancestry
<1>2. now' \in Nat /\ rolledBack' \in BOOLEAN /\ now <= now' /\ now \in Nat
  BY DEF Course, CourseTypes
<1>3. Len(commits) \in Nat /\ DOMAIN commits = 1..Len(commits)
  BY SnapshotIds DEF Course, CourseTypes
<1>4. ReaderTypes' /\ OneLine'
  <2>1. CASE BeginRead
    <3>1. /\ DOMAIN reader' = {"pc", "snapshot", "since"}
          /\ reader'.snapshot = current /\ reader'.since = Len(commits)
          /\ current \in DOMAIN commits
      BY <2>1 DEF BeginRead, Course, CourseTypes
    <3>2. ReaderTypes'
      BY <3>1, <1>3 DEF ReaderTypes
    <3> QED  BY <3>1, <3>2 DEF Course, CourseTypes, OneLine, StraightLine
  <2>2. CASE reader' = reader
    BY <2>2 DEF Course, CourseTypes, ReaderTypes, OneLine, StraightLine
  <2>3. CASE reader' = Idle
    <3>1. ReaderTypes'
      BY <2>3 DEF ReaderTypes
    <3>2. StraightLine' = StraightLine
      BY DEF StraightLine
    <3> QED  BY <2>3, <3>1, <3>2 DEF Course, CourseTypes, OneLine
  <2> QED  BY <2>1, <2>2, <2>3
<1>5. Chronicle'
  BY <1>2 DEF Course, CourseTypes, Chronicle
<1>6. YoungKept'
  <2>1. Cutoff <= Cutoff' /\ Cutoff \in Int /\ Cutoff' \in Int
    <3>1. PICK later : later = now'
      OBVIOUS
    <3>2. later \in Nat /\ now \in Nat /\ now <= later /\ RetentionDays \in Nat
      BY <1>2, <3>1, RetentionAssumption
    <3>3. /\ now - RetentionDays <= later - RetentionDays
          /\ now - RetentionDays \in Int /\ later - RetentionDays \in Int
      BY <3>2
    <3>4. Cutoff = now - RetentionDays /\ Cutoff' = later - RetentionDays
      BY <3>1 DEF Cutoff
    <3> QED  BY <3>3, <3>4
  <2>2. \A id \in DOMAIN commits : commits[id].day \in Nat
    BY DEF Course, CourseTypes, Chronicle
  <2>3. \A id \in DOMAIN commits : commits[id].day >= Cutoff => id \in retained
    BY DEF Course, CourseTypes, YoungKept
  <2> QED  BY <2>1, <2>2, <2>3 DEF YoungKept
<1>7. FloorKept'
  BY DEF Course, CourseTypes, FloorKept
<1> QED  BY <1>1, <1>2, <1>4, <1>5, <1>6, <1>7 DEF Course, CourseTypes

LEMMA CourseAfterExpiry ==
    ASSUME Course, NEW compact \in BOOLEAN, Expire(compact)
    PROVE  Course'
<1>1. /\ retained' = Kept /\ Kept \subseteq retained /\ current # 0
      /\ UNCHANGED <<now, commits, current, reader, rolledBack>>
  BY DEF Expire, Kept
<1>2. Ancestry' /\ retained' \subseteq DOMAIN commits' /\ ReaderTypes' /\ Chronicle' /\ OneLine'
  BY <1>1 DEF Course, CourseTypes, Ancestry, ReaderTypes, Chronicle, OneLine, StraightLine
<1>3. current' \in retained' \cup {0}
  BY <1>1, CurrentIsKept DEF Course, CourseTypes
<1>4. YoungKept'
  BY <1>1 DEF Course, CourseTypes, YoungKept, Kept, Cutoff
<1>5. FloorKept'
  <2> SUFFICES ASSUME ~rolledBack, NEW id \in DOMAIN commits, Len(commits) - id < RetainLast
               PROVE  id \in Kept
    BY <1>1 DEF FloorKept
  <2>1. id \in retained
    BY DEF Course, CourseTypes, FloorKept
  <2>2. id \in Lineage[current] /\ Cardinality(NewerThan(id)) < RetainLast
    BY StraightCount DEF Course, CourseTypes, OneLine
  <2> QED  BY <2>1, <2>2 DEF Kept
<1> QED  BY <1>1, <1>2, <1>3, <1>4, <1>5 DEF Course, CourseTypes

LEMMA CourseAfterRollback ==
    ASSUME Course, NEW id, Rollback(id)
    PROVE  Course'
<1>1. /\ current' \in retained /\ rolledBack' = TRUE
      /\ UNCHANGED <<now, commits, retained, reader>>
  BY DEF Rollback
<1> QED  BY <1>1 DEF Course, CourseTypes, Ancestry, ReaderTypes, Chronicle, OneLine, YoungKept, FloorKept, Cutoff

-----------------------------------------------------------------------------
(***************************************************************************)
(* The files in storage.                                                   *)
(***************************************************************************)

\* A new file is unlike every other.
LEMMA StoredIsNew ==
    ASSUME FilesSound, NEW part \in Partitions, NEW rows \in SUBSET Nat, Store(part, rows)
    PROVE  \E file \in DataFiles :
              /\ file = [n |-> made + 1, part |-> part, rows |-> rows]
              /\ file.n = made + 1 /\ file.part = part /\ file.rows = rows
              /\ file \notin Ever /\ disk' = disk \cup {file}
              /\ made' = made + 1 /\ made \in Nat
              /\ writer # Idle => writer.file # file
              /\ upkeep.pc = "rewrite" => upkeep.new # file
<1> DEFINE file == [n |-> made + 1, part |-> part, rows |-> rows]
<1>1. made \in Nat /\ file \in DataFiles
  BY DEF FilesSound, FileTypes, DataFiles
<1>2. disk' = disk \cup {file} /\ made' = made + 1
  BY DEF Store
<1>3. file.n = made + 1 /\ file.part = part /\ file.rows = rows
  OBVIOUS
<1> HIDE DEF file
<1>4. /\ file \notin Ever
      /\ writer # Idle => writer.file # file
      /\ upkeep.pc = "rewrite" => upkeep.new # file
  <2>1. ~(made + 1 <= made)
    BY <1>1
  <2> QED  BY <2>1, <1>3 DEF FilesSound, FilesApart
<1> QED  BY <1>1, <1>2, <1>3, <1>4 DEF file

LEMMA FilesAtBeginWrite ==
    ASSUME FilesSound, NEW part \in Partitions, NEW mode \in {"overwrite", "append"},
           BeginWrite(part, mode)
    PROVE  FilesSound'
<1>1. PICK file \in DataFiles :
              /\ file = [n |-> made + 1, part |-> part, rows |-> {made + 1}]
              /\ file.n = made + 1
              /\ file \notin Ever /\ disk' = disk \cup {file}
              /\ made' = made + 1 /\ made \in Nat
              /\ upkeep.pc = "rewrite" => upkeep.new # file
  <2>1. {made + 1} \in SUBSET Nat /\ Store(part, {made + 1})
    BY DEF BeginWrite, FilesSound, FileTypes
  <2> QED  BY <2>1, StoredIsNew
<1>2. /\ writer = Idle /\ writer' = [pc |-> mode, file |-> file]
      /\ UNCHANGED <<commits, retained, upkeep, deaths>>
  BY <1>1 DEF BeginWrite
<1>3. Ever' = Ever /\ Listed' = Listed
  BY <1>2, SameFiles
<1>4. writer' \in Writes /\ writer' # Idle /\ writer'.file = file /\ made' \in Nat
  <2>1. writer' \in Writes /\ writer'.file = file /\ writer'.pc = mode /\ Idle.pc = "idle"
    BY <1>1, <1>2 DEF Writes, Idle
  <2> QED  BY <2>1, <1>1
<1>5. FileTypes' /\ SameRows'
  BY <1>2, <1>4 DEF FilesSound, FileTypes, SameRows
<1>6. FilesApart'
  <2>1. \A k \in Nat : k <= made => k <= made'
    BY <1>1
  <2>2. \A f \in Ever : f.n \in Nat
    BY DEF FilesSound, FilesApart, DataFiles
  <2>3. upkeep.pc = "rewrite" => upkeep.new.n \in Nat
    BY DEF FilesSound, FileTypes, Rewritings, DataFiles, Idle, Deletions
  <2> QED  BY <1>1, <1>2, <1>3, <1>4, <2>1, <2>2, <2>3 DEF FilesSound, FilesApart
<1>7. NothingDangling' /\ StorageAccountedFor'
  BY <1>1, <1>2, <1>3, <1>4
     DEF FilesSound, NothingDangling, StorageAccountedFor, Listed, InFlight
<1> QED  BY <1>5, <1>6, <1>7 DEF FilesSound

LEMMA FilesAtCommitWrite ==
    ASSUME Course, FilesSound, CommitWrite
    PROVE  FilesSound'
<1>1. PICK files : /\ files = {writer.file} \cup {f \in FilesOf(current) :
                                  writer.pc = "append" \/ f.part # writer.file.part}
                   /\ Commit(files)
  BY DEF CommitWrite
<1>2. /\ writer # Idle /\ writer' = Idle
      /\ UNCHANGED <<disk, made, upkeep, deaths>>
  BY DEF CommitWrite
<1>3. writer.file \in DataFiles
  BY <1>2 DEF FilesSound, FileTypes, Writes
<1>4. /\ files \in SUBSET DataFiles /\ writer.file \in files
      /\ files \subseteq {writer.file} \cup Listed
  BY <1>1, <1>3, CurrentIsListed DEF Course
<1>5. Ever' = Ever \cup {writer.file} /\ Listed' = Listed \cup {writer.file}
  <2>1. Ever' = Ever \cup files /\ Listed' = Listed \cup files
    BY <1>1, <1>4, CommitAddsFiles DEF Course
  <2> QED  BY <1>4, <2>1 DEF FilesSound, FilesApart
<1>6. FileTypes' /\ SameRows'
  BY <1>2 DEF FilesSound, FileTypes, SameRows
<1>7. FilesApart'
  BY <1>2, <1>3, <1>5 DEF FilesSound, FilesApart
<1>8. NothingDangling' /\ StorageAccountedFor'
  BY <1>2, <1>5 DEF FilesSound, FilesApart, NothingDangling, StorageAccountedFor, Listed, InFlight
<1> QED  BY <1>6, <1>7, <1>8 DEF FilesSound

LEMMA FilesAtCommitRewrite ==
    ASSUME Course, FilesSound, CommitRewrite
    PROVE  FilesSound'
<1>1. PICK files : /\ files = (FilesOf(current) \ upkeep.old) \cup {upkeep.new}
                   /\ Commit(files)
  BY DEF CommitRewrite
<1>2. /\ upkeep.pc = "rewrite" /\ upkeep' = Idle /\ Idle.pc = "idle"
      /\ UNCHANGED <<disk, made, writer, deaths>>
  BY DEF CommitRewrite, Idle
<1>3. upkeep.new \in DataFiles
  BY <1>2 DEF FilesSound, FileTypes, Idle, Deletions, Rewritings
<1>4. /\ files \in SUBSET DataFiles /\ upkeep.new \in files
      /\ files \subseteq {upkeep.new} \cup Listed
  BY <1>1, <1>3, CurrentIsListed DEF Course
<1>5. Ever' = Ever \cup {upkeep.new} /\ Listed' = Listed \cup {upkeep.new}
  <2>1. Ever' = Ever \cup files /\ Listed' = Listed \cup files
    BY <1>1, <1>4, CommitAddsFiles DEF Course
  <2> QED  BY <1>4, <2>1 DEF FilesSound, FilesApart
<1>6. FileTypes' /\ SameRows'
  BY <1>2 DEF FilesSound, FileTypes, SameRows
<1>7. FilesApart'
  BY <1>2, <1>3, <1>5 DEF FilesSound, FilesApart
<1>8. NothingDangling' /\ StorageAccountedFor'
  BY <1>2, <1>5 DEF FilesSound, FilesApart, NothingDangling, StorageAccountedFor, Listed, InFlight
<1> QED  BY <1>6, <1>7, <1>8 DEF FilesSound

LEMMA FilesAtWriteDies ==
    ASSUME FilesSound, WriteDies
    PROVE  FilesSound'
<1>1. /\ writer # Idle /\ writer' = Idle /\ deaths' = deaths + 1
      /\ disk \ {writer.file} \subseteq disk' /\ disk' \subseteq disk
      /\ UNCHANGED <<commits, retained, made, upkeep>>
  BY DEF WriteDies
<1>2. Ever' = Ever /\ Listed' = Listed
  BY <1>1, SameFiles
<1>3. FileTypes' /\ SameRows'
  BY <1>1 DEF FilesSound, FileTypes, SameRows
<1>4. FilesApart' /\ NothingDangling'
  BY <1>1, <1>2 DEF FilesSound, FilesApart, NothingDangling, Listed
<1>5. StorageAccountedFor'
  <2>1. deaths' # 0
    BY <1>1 DEF FilesSound, FileTypes
  <2> QED  BY <2>1 DEF StorageAccountedFor
<1> QED  BY <1>3, <1>4, <1>5 DEF FilesSound

\* Expiry takes a snapshot's files off the list before it deletes them.
LEMMA FilesAtExpire ==
    ASSUME Course, FilesSound, NEW compact \in BOOLEAN, Expire(compact)
    PROVE  FilesSound'
<1>1. PICK doomed : doomed = Doomed(Kept)
  OBVIOUS
<1>2. /\ upkeep = Idle /\ upkeep' = [pc |-> "delete", doomed |-> doomed, compact |-> compact]
      /\ retained' = Kept /\ Kept \subseteq retained
      /\ UNCHANGED <<commits, disk, made, writer, deaths>>
  BY <1>1 DEF Expire, Kept
<1>3. Ever' = Ever /\ Listed' = AllFiles(Kept)
  BY <1>2 DEF Ever, Listed, AllFiles, FilesOf
<1>4. /\ AllFiles(Kept) \subseteq Listed /\ doomed = Listed \ AllFiles(Kept)
  BY <1>1, <1>2 DEF Listed, AllFiles, Doomed
<1>5. doomed \in SUBSET DataFiles
  BY <1>4 DEF FilesSound, FilesApart
<1>6. upkeep' \in Deletions /\ upkeep'.pc = "delete" /\ upkeep'.doomed = doomed /\ Idle.pc = "idle"
  BY <1>2, <1>5 DEF Deletions, Idle
<1>7. FileTypes' /\ SameRows'
  BY <1>2, <1>6 DEF FilesSound, FileTypes, SameRows
<1>8. FilesApart' /\ NothingDangling'
  <2>1. AllFiles(retained)' = Listed'
    BY DEF Listed
  <2> QED  BY <1>2, <1>3, <1>4, <1>6, <2>1 DEF FilesSound, FilesApart, NothingDangling, Listed
<1>9. StorageAccountedFor'
  <2>1. AllFiles(retained)' = Listed' /\ AllFiles(retained) = Listed
    BY DEF Listed
  <2> QED  BY <1>2, <1>3, <1>4, <1>6, <2>1 DEF FilesSound, StorageAccountedFor, InFlight
<1> QED  BY <1>7, <1>8, <1>9 DEF FilesSound

LEMMA FilesAtDelete ==
    ASSUME FilesSound, DeleteFiles
    PROVE  FilesSound'
<1>1. /\ upkeep.pc = "delete" /\ disk' = disk \ upkeep.doomed
      /\ upkeep' = Idle \/ upkeep' = [pc |-> "compact"]
      /\ UNCHANGED <<commits, retained, made, writer, deaths>>
  BY DEF DeleteFiles
<1>2. Ever' = Ever /\ Listed' = Listed
  BY <1>1, SameFiles
<1>3. upkeep'.pc \in {"idle", "compact"}
  BY <1>1 DEF Idle
<1>4. FileTypes' /\ SameRows'
  BY <1>1, <1>3 DEF FilesSound, FileTypes, SameRows
<1>5. FilesApart' /\ NothingDangling'
  BY <1>1, <1>2, <1>3 DEF FilesSound, FilesApart, NothingDangling, Listed
<1>6. StorageAccountedFor'
  BY <1>1, <1>2, <1>3 DEF FilesSound, FilesApart, StorageAccountedFor, InFlight, Listed
<1> QED  BY <1>4, <1>5, <1>6 DEF FilesSound

LEMMA FilesAtRewrite ==
    ASSUME Course, FilesSound, NEW part \in Partitions, Rewrite(part)
    PROVE  FilesSound'
<1>1. PICK small : small = {f \in FilesOf(current) : f.part = part}
  OBVIOUS
<1>2. PICK rows : rows = UNION {f.rows : f \in small}
  OBVIOUS
<1>3. /\ upkeep.pc = "compact" /\ Cardinality(small) > 1 /\ Store(part, rows)
      /\ upkeep' = [pc |-> "rewrite", old |-> small,
                    new |-> [n |-> made + 1, part |-> part, rows |-> rows]]
      /\ UNCHANGED <<commits, retained, writer, deaths>>
  BY <1>1, <1>2 DEF Rewrite
<1>4. small \in SUBSET DataFiles /\ rows \in SUBSET Nat /\ small # {}
  <2>1. small \in SUBSET DataFiles
    BY <1>1, CurrentIsListed DEF Course
  <2>2. small # {}
    BY <1>3, FS_EmptySet
  <2> QED  BY <1>2, <2>1, <2>2 DEF DataFiles
<1>5. PICK file \in DataFiles :
              /\ file = [n |-> made + 1, part |-> part, rows |-> rows]
              /\ file.n = made + 1 /\ file.part = part /\ file.rows = rows
              /\ file \notin Ever /\ disk' = disk \cup {file}
              /\ made' = made + 1 /\ made \in Nat
              /\ writer # Idle => writer.file # file
  BY <1>3, <1>4, StoredIsNew
<1>6. /\ upkeep' = [pc |-> "rewrite", old |-> small, new |-> file]
      /\ upkeep'.pc = "rewrite" /\ upkeep'.old = small /\ upkeep'.new = file
      /\ upkeep' \in Rewritings
  BY <1>3, <1>4, <1>5 DEF Rewritings
<1>7. Ever' = Ever /\ Listed' = Listed
  BY <1>3, SameFiles
<1>8. FileTypes'
  BY <1>3, <1>5, <1>6 DEF FilesSound, FileTypes
<1>9. SameRows'
  <2>1. rows = UNION {f.rows : f \in small} /\ small # {} /\ \A f \in small : f.part = part
    BY <1>1, <1>2, <1>4
  <2> QED  BY <2>1, <1>5, <1>6 DEF SameRows
<1>10. FilesApart'
  <2>1. \A k \in Nat : k <= made => k <= made'
    BY <1>5
  <2>2. \A f \in Ever : f.n \in Nat
    BY DEF FilesSound, FilesApart, DataFiles
  <2>3. writer # Idle => writer.file.n \in Nat
    BY DEF FilesSound, FileTypes, Writes, DataFiles
  <2> QED  BY <1>3, <1>5, <1>6, <1>7, <2>1, <2>2, <2>3 DEF FilesSound, FilesApart
<1>11. NothingDangling' /\ StorageAccountedFor'
  BY <1>3, <1>5, <1>6, <1>7
     DEF FilesSound, NothingDangling, StorageAccountedFor, Listed, InFlight
<1> QED  BY <1>8, <1>9, <1>10, <1>11 DEF FilesSound

\* The maintenance ends, with or without what it had written.
LEMMA FilesAtEndOfUpkeep ==
    ASSUME FilesSound, NothingToRewrite \/ RewriteConflicts \/ UpkeepDies
    PROVE  FilesSound'
<1>1. UNCHANGED <<commits, retained, made, writer>> /\ upkeep' = Idle /\ Idle.pc = "idle"
  BY DEF NothingToRewrite, RewriteConflicts, UpkeepDies, Idle
<1>2. Ever' = Ever /\ Listed' = Listed
  BY <1>1, SameFiles
<1>3. deaths' = deaths \/ (deaths' = deaths + 1 /\ UpkeepDies)
  BY DEF NothingToRewrite, RewriteConflicts, UpkeepDies
<1>4. FileTypes' /\ SameRows'
  BY <1>1, <1>3 DEF FilesSound, FileTypes, SameRows
<1>5. CASE NothingToRewrite
  <2>1. upkeep.pc = "compact" /\ disk' = disk /\ deaths' = deaths
    BY <1>5 DEF NothingToRewrite
  <2>2. FilesApart' /\ NothingDangling' /\ StorageAccountedFor'
    BY <1>1, <1>2, <2>1
       DEF FilesSound, FilesApart, NothingDangling, StorageAccountedFor, Listed, InFlight
  <2> QED  BY <1>4, <2>2 DEF FilesSound
<1>6. CASE RewriteConflicts
  <2>1. upkeep.pc = "rewrite" /\ disk' = disk \ {upkeep.new} /\ deaths' = deaths
    BY <1>6 DEF RewriteConflicts
  <2>2. FilesApart' /\ NothingDangling' /\ StorageAccountedFor'
    BY <1>1, <1>2, <2>1
       DEF FilesSound, FilesApart, NothingDangling, StorageAccountedFor, Listed, InFlight
  <2> QED  BY <1>4, <2>2 DEF FilesSound
<1>7. CASE UpkeepDies
  <2>1. disk' = disk /\ deaths' # 0
    BY <1>7 DEF UpkeepDies, FilesSound, FileTypes
  <2>2. FilesApart' /\ NothingDangling' /\ StorageAccountedFor'
    BY <1>1, <1>2, <2>1
       DEF FilesSound, FilesApart, NothingDangling, StorageAccountedFor, Listed
  <2> QED  BY <1>4, <2>2 DEF FilesSound
<1> QED  BY <1>5, <1>6, <1>7

LEMMA FilesLeftAlone ==
    ASSUME FilesSound, UNCHANGED <<commits, retained, made, disk, deaths, writer, upkeep>>
    PROVE  FilesSound'
<1>1. Ever' = Ever /\ Listed' = Listed
  BY SameFiles
<1>2. FileTypes' /\ SameRows' /\ FilesApart'
  BY <1>1 DEF FilesSound, FileTypes, SameRows, FilesApart
<1>3. NothingDangling' /\ StorageAccountedFor'
  BY <1>1 DEF FilesSound, NothingDangling, StorageAccountedFor, Listed, InFlight
<1> QED  BY <1>2, <1>3 DEF FilesSound

-----------------------------------------------------------------------------
LEMMA InvariantStep ==
    ASSUME HistoryInvariant, [HistoryNext]_tableVars
    PROVE  HistoryInvariant'
<1> USE DEF HistoryInvariant
<1>1. CASE NextDay
  <2>1. /\ now' = now + 1
        /\ UNCHANGED <<commits, retained, current, disk, made, writer, upkeep, reader,
                       rolledBack, deaths>>
    BY <1>1 DEF NextDay
  <2> QED  BY <2>1, CourseGoesOn, FilesLeftAlone
<1>2. ASSUME NEW part \in Partitions, NEW mode \in {"overwrite", "append"},
             BeginWrite(part, mode)
      PROVE  HistoryInvariant'
  <2>1. UNCHANGED <<now, commits, retained, current, reader, rolledBack>>
    BY <1>2 DEF BeginWrite
  <2> QED  BY <1>2, <2>1, CourseGoesOn, FilesAtBeginWrite
<1>3. CASE CommitWrite
  <2>1. PICK files : /\ files = {writer.file} \cup {f \in FilesOf(current) :
                                    writer.pc = "append" \/ f.part # writer.file.part}
                     /\ Commit(files)
    BY <1>3 DEF CommitWrite
  <2>2. writer # Idle /\ UNCHANGED <<now, reader, rolledBack>>
    BY <1>3 DEF CommitWrite
  <2>3. writer.file \in DataFiles
    BY <2>2 DEF FilesSound, FileTypes, Writes
  <2>4. files \in SUBSET DataFiles
    BY <2>1, <2>3, CurrentIsListed DEF Course
  <2> QED  BY <1>3, <2>1, <2>2, <2>4, CourseAfterCommit, FilesAtCommitWrite
<1>4. CASE WriteDies
  <2>1. UNCHANGED <<now, commits, retained, current, reader, rolledBack>>
    BY <1>4 DEF WriteDies
  <2> QED  BY <1>4, <2>1, CourseGoesOn, FilesAtWriteDies
<1>5. CASE BeginRead \/ EndRead
  <2>1. /\ UNCHANGED <<now, commits, retained, current, disk, made, writer, upkeep,
                       rolledBack, deaths>>
        /\ reader' \in {reader, Idle} \/ BeginRead
    BY <1>5 DEF BeginRead, EndRead
  <2> QED  BY <2>1, CourseGoesOn, FilesLeftAlone
<1>6. ASSUME NEW compact \in BOOLEAN, Expire(compact) PROVE HistoryInvariant'
  BY <1>6, CourseAfterExpiry, FilesAtExpire
<1>7. ASSUME NEW part \in Partitions, Rewrite(part) PROVE HistoryInvariant'
  <2>1. UNCHANGED <<now, commits, retained, current, reader, rolledBack>>
    BY <1>7 DEF Rewrite
  <2> QED  BY <1>7, <2>1, CourseGoesOn, FilesAtRewrite
<1>8. CASE DeleteFiles
  <2>1. UNCHANGED <<now, commits, retained, current, reader, rolledBack>>
    BY <1>8 DEF DeleteFiles
  <2> QED  BY <1>8, <2>1, CourseGoesOn, FilesAtDelete
<1>9. CASE NothingToRewrite \/ RewriteConflicts \/ UpkeepDies
  <2>1. UNCHANGED <<now, commits, retained, current, reader, rolledBack>>
    BY <1>9 DEF NothingToRewrite, RewriteConflicts, UpkeepDies
  <2> QED  BY <1>9, <2>1, CourseGoesOn, FilesAtEndOfUpkeep
<1>10. CASE CommitRewrite
  <2>1. PICK files : /\ files = (FilesOf(current) \ upkeep.old) \cup {upkeep.new}
                     /\ Commit(files)
    BY <1>10 DEF CommitRewrite
  <2>2. upkeep.pc = "rewrite" /\ UNCHANGED <<now, reader, rolledBack>>
    BY <1>10 DEF CommitRewrite
  <2>3. upkeep.new \in DataFiles
    BY <2>2 DEF FilesSound, FileTypes, Idle, Deletions, Rewritings
  <2>4. files \in SUBSET DataFiles
    BY <2>1, <2>3, CurrentIsListed DEF Course
  <2> QED  BY <1>10, <2>1, <2>2, <2>4, CourseAfterCommit, FilesAtCommitRewrite
<1>11. ASSUME NEW id \in 1..MaxCommits, Rollback(id) PROVE HistoryInvariant'
  <2>1. UNCHANGED <<commits, retained, disk, made, writer, upkeep, deaths>>
    BY <1>11 DEF Rollback
  <2> QED  BY <1>11, <2>1, CourseAfterRollback, FilesLeftAlone
<1>12. CASE UNCHANGED tableVars
  <2>1. UNCHANGED <<now, commits, retained, current, disk, made, writer, upkeep, reader,
                    rolledBack, deaths>>
    BY <1>12 DEF tableVars
  <2> QED  BY <2>1, CourseGoesOn, FilesLeftAlone
<1> QED  BY <1>1, <1>2, <1>3, <1>4, <1>5, <1>6, <1>7, <1>8, <1>9, <1>10, <1>11, <1>12
         DEF HistoryNext, Jobs, Maintenance

-----------------------------------------------------------------------------
(***************************************************************************)
(* What follows from the invariant.                                        *)
(***************************************************************************)
LEMMA PromiseFollows == ASSUME Course PROVE PromisedHistoryKept
<1>1. \A id \in DOMAIN commits : commits[id].day >= Cutoff => id \in retained
  BY DEF Course, YoungKept
<1>2. ASSUME ~rolledBack, NEW id \in Lineage[current], Cardinality(NewerThan(id)) < RetainLast
      PROVE  id \in retained
  <2>1. Ancestry /\ StraightLine
    BY <1>2 DEF Course, CourseTypes, OneLine
  <2>2. Len(commits) \in Nat /\ DOMAIN commits = 1..Len(commits)
    BY <2>1, SnapshotIds
  <2>3. Lineage[current] = 1..Len(commits)
    BY <2>1, <2>2, StraightLineage DEF StraightLine
  <2>4. id \in DOMAIN commits
    BY <1>2, <2>2, <2>3
  <2>5. Len(commits) - id < RetainLast
    BY <1>2, <2>1, <2>4, StraightCount
  <2> QED  BY <1>2, <2>4, <2>5 DEF Course, FloorKept
<1> QED  BY <1>1, <1>2 DEF PromisedHistoryKept

LEMMA ReadersFollow == ASSUME HistoryInvariant PROVE ReadersKeepTheirFiles
<1> SUFFICES ASSUME reader # Idle, ~(FilesOf(reader.snapshot) \subseteq disk), ~rolledBack,
                    ~(Len(commits) - reader.since >= RetainLast)
             PROVE  FALSE
  BY DEF ReadersKeepTheirFiles
<1>1. reader.snapshot \in DOMAIN commits /\ reader.snapshot = reader.since
  BY DEF HistoryInvariant, Course, CourseTypes, ReaderTypes, OneLine
<1>2. PICK id : id = reader.snapshot
  OBVIOUS
<1>3. id \in 1..Len(commits) /\ Len(commits) \in Nat /\ ~(Len(commits) - id >= RetainLast)
  BY <1>1, <1>2, SnapshotIds DEF HistoryInvariant, Course, CourseTypes
<1>4. Len(commits) - id < RetainLast
  BY <1>3, RetentionAssumption
<1>5. id \in retained
  BY <1>1, <1>2, <1>4 DEF HistoryInvariant, Course, FloorKept
<1>6. FilesOf(id) \subseteq disk
  BY <1>5 DEF HistoryInvariant, FilesSound, NothingDangling, AllFiles
<1> QED  BY <1>2, <1>6

\* With F what is beyond the floor, expiry removes what is old and in F; both
\* are what is oldest of the table's snapshots, so the smaller is within the
\* larger.
LEMMA ReportFollows == ASSUME Course PROVE ReportIsExact
<1> SUFFICES ASSUME ~rolledBack PROVE Expirable = Cardinality(retained \ Kept)
  BY DEF ReportIsExact
<1>1. /\ Ancestry /\ StraightLine /\ retained \subseteq DOMAIN commits
      /\ now \in Nat /\ RetentionDays \in Nat /\ RetainLast \in Nat /\ RetainLast >= 1
  BY RetentionAssumption DEF Course, CourseTypes, OneLine
<1>2. PICK n \in Nat : n = Len(commits) /\ DOMAIN commits = 1..n
  BY <1>1, SnapshotIds
<1> DEFINE F     == {id \in retained : n - id >= RetainLast}
           floor == n - RetainLast + 1..n
<1>3. Cutoff \in Int /\ \A id \in retained : commits[id].day \in Nat
  BY <1>1 DEF Cutoff, Course, Chronicle
<1>4. Kept = {id \in retained : commits[id].day >= Cutoff \/ n - id < RetainLast}
  <2>1. \A id \in retained : id \in Lineage[current] /\ Cardinality(NewerThan(id)) = n - id
    BY <1>1, <1>2, StraightCount
  <2> QED  BY <2>1 DEF Kept
<1>5. retained \ Kept = Old \cap F
  BY <1>1, <1>2, <1>3, <1>4 DEF Old
<1>6. /\ IsFiniteSet(retained) /\ IsFiniteSet(F) /\ IsFiniteSet(Old)
      /\ F \subseteq retained /\ Old \subseteq retained
  <2>1. IsFiniteSet(1..n)
    BY <1>2, FS_Interval
  <2>2. retained \in SUBSET (1..n)
    BY <1>1, <1>2
  <2>3. IsFiniteSet(retained)
    BY <2>1, <2>2, FS_Subset
  <2>4. F \in SUBSET retained /\ Old \in SUBSET retained
    BY DEF Old
  <2> HIDE DEF F
  <2> QED  BY <2>3, <2>4, FS_Subset
<1>7. Old \subseteq F \/ F \subseteq Old
  <2> SUFFICES ASSUME NEW x \in Old, x \notin F, NEW y \in F PROVE y \in Old
    OBVIOUS
  <2>1. x \in 1..n /\ y \in 1..n /\ y \in retained /\ x \in retained
    BY <1>1, <1>2, <1>6
  <2>2. y <= x
    BY <1>1, <2>1
  <2>3. commits[y].day <= commits[x].day /\ commits[x].day < Cutoff
    BY <1>2, <2>1, <2>2 DEF Old, Course, Chronicle
  <2> QED  BY <1>3, <2>1, <2>3 DEF Old
<1>8. IsFiniteSet(floor) /\ Cardinality(floor) = RetainLast
  <2>1. n - RetainLast + 1 \in Int /\ n \in Int
    BY <1>1
  <2>2. /\ IsFiniteSet(floor)
        /\ Cardinality(floor) = IF n - RetainLast + 1 > n THEN 0 ELSE n - (n - RetainLast + 1) + 1
    BY <2>1, FS_Interval
  <2> QED  BY <1>1, <2>2
<1>9. CASE F = {}
  <2>1. retained \subseteq floor
    BY <1>1, <1>2, <1>9
  <2>2. Cardinality(retained) <= RetainLast /\ Cardinality(retained) \in Nat
    <3> HIDE DEF floor
    <3> QED  BY <1>6, <1>8, <2>1, FS_Subset, FS_CardinalityType
  <2>3. Expirable = 0
    BY <1>1, <2>2 DEF Expirable
  <2> QED  BY <1>5, <1>9, <2>3, FS_EmptySet
<1>10. CASE F # {}
  <2>1. n > RetainLast
    BY <1>1, <1>2, <1>10
  <2>2. floor \subseteq retained
    <3> SUFFICES ASSUME NEW id \in floor PROVE id \in retained
      OBVIOUS
    <3>1. id \in 1..n /\ n - id < RetainLast
      BY <1>1, <2>1
    <3> QED  BY <1>2, <3>1 DEF Course, FloorKept
  <2>3. retained = F \cup floor /\ F \cap floor = {}
    BY <1>1, <1>2, <2>2
  <2> HIDE DEF F, floor
  <2>4. Cardinality(retained) = Cardinality(F) + RetainLast
    <3>1. Cardinality(F \cup floor) = Cardinality(F) + Cardinality(floor) - Cardinality(F \cap floor)
      BY <1>6, <1>8, FS_Union
    <3>2. Cardinality(F) \in Nat /\ Cardinality({}) = 0
      BY <1>6, FS_CardinalityType, FS_EmptySet
    <3>3. Cardinality(F \cap floor) = 0 /\ Cardinality(floor) = RetainLast
      BY <1>8, <2>3, <3>2
    <3> QED  BY <1>1, <2>3, <3>1, <3>2, <3>3
  <2>5. /\ Cardinality(F) \in Nat /\ Cardinality(F) # 0
        /\ Cardinality(Old) \in Nat
    BY <1>6, <1>10, FS_CardinalityType, FS_EmptySet
  <2>6. Expirable = IF Cardinality(Old) < Cardinality(F) THEN Cardinality(Old) ELSE Cardinality(F)
    BY <1>1, <2>4, <2>5 DEF Expirable
  <2>7. CASE Old \subseteq F
    <3>1. Old \cap F = Old /\ Cardinality(Old) <= Cardinality(F)
      BY <1>6, <2>7, FS_Subset
    <3> QED  BY <1>5, <2>5, <2>6, <3>1
  <2>8. CASE F \subseteq Old
    <3>1. Old \cap F = F /\ Cardinality(F) <= Cardinality(Old)
      BY <1>6, <2>8, FS_Subset
    <3> QED  BY <1>5, <2>5, <2>6, <3>1
  <2> QED  BY <1>7, <2>7, <2>8
<1> QED  BY <1>9, <1>10

\* The rows of a partition's files are the rows of the file they become.
LEMMA RewritingKeepsContent ==
    ASSUME NEW files, NEW old, old \subseteq files, old # {}, NEW new,
           new.rows = UNION {f.rows : f \in old}, \A f \in old : f.part = new.part
    PROVE  Content((files \ old) \cup {new}) = Content(files)
<1> DEFINE after == (files \ old) \cup {new}
<1>1. ASSUME NEW p, NEW w
      PROVE  (\E f \in after : p = f.part /\ w \in f.rows) <=>
             (\E f \in files : p = f.part /\ w \in f.rows)
  <2>1. (p = new.part /\ w \in new.rows) <=> \E f \in old : p = f.part /\ w \in f.rows
    OBVIOUS
  <2> QED  BY <2>1
<1> HIDE DEF after
<1>2. Content(after) \subseteq Content(files)
  <2> SUFFICES ASSUME NEW row \in Content(after) PROVE row \in Content(files)
    OBVIOUS
  <2>1. PICK f \in after : \E w \in f.rows : row = <<f.part, w>>
    BY DEF Content
  <2>2. PICK w \in f.rows : row = <<f.part, w>>
    BY <2>1
  <2>3. PICK g \in files : f.part = g.part /\ w \in g.rows
    BY <1>1, <2>2
  <2> QED  BY <2>2, <2>3 DEF Content
<1>3. Content(files) \subseteq Content(after)
  <2> SUFFICES ASSUME NEW row \in Content(files) PROVE row \in Content(after)
    OBVIOUS
  <2>1. PICK f \in files : \E w \in f.rows : row = <<f.part, w>>
    BY DEF Content
  <2>2. PICK w \in f.rows : row = <<f.part, w>>
    BY <2>1
  <2>3. PICK g \in after : f.part = g.part /\ w \in g.rows
    BY <1>1, <2>2
  <2> QED  BY <2>2, <2>3 DEF Content
<1> QED  BY <1>2, <1>3 DEF after

CompactionStep ==
    (upkeep.pc = "rewrite" /\ upkeep' = Idle /\ current' # current)
        => Content(FilesOf(current)') = Content(FilesOf(current))

LEMMA CompactionStepHolds ==
    ASSUME HistoryInvariant, [HistoryNext]_tableVars
    PROVE  CompactionStep
<1> SUFFICES ASSUME upkeep.pc = "rewrite", upkeep' = Idle, current' # current
             PROVE  Content(FilesOf(current)') = Content(FilesOf(current))
  BY DEF CompactionStep
<1>1. Idle.pc = "idle" /\ upkeep' # upkeep
  BY DEF Idle
<1>2. CommitRewrite
  <2>1. CASE UNCHANGED tableVars
    BY <1>1, <2>1 DEF tableVars
  <2>2. CASE HistoryNext
    BY <1>1, <2>2 DEF HistoryNext, Jobs, Maintenance, NextDay, BeginWrite, CommitWrite, WriteDies,
                      BeginRead, EndRead, Expire, Rewrite, DeleteFiles, NothingToRewrite,
                      RewriteConflicts, UpkeepDies, Rollback
  <2> QED  BY <2>1, <2>2
<1>3. PICK files : /\ files = (FilesOf(current) \ upkeep.old) \cup {upkeep.new}
                   /\ Commit(files)
  BY <1>2 DEF CommitRewrite
<1>4. upkeep.new \in DataFiles /\ upkeep.old \subseteq FilesOf(current)
  BY <1>2 DEF CommitRewrite, StillThere, HistoryInvariant, FilesSound, FileTypes, Idle, Deletions,
              Rewritings
<1>5. files \in SUBSET DataFiles
  BY <1>3, <1>4, CurrentIsListed DEF HistoryInvariant, Course
<1>6. FilesOf(current)' = files
  <2>1. /\ current' = Len(commits) + 1
        /\ commits'[Len(commits) + 1] = [parent |-> current, day |-> now, files |-> files]
    BY <1>3, <1>5, CommitAppends DEF HistoryInvariant, Course
  <2>2. Len(commits) \in Nat
    BY SnapshotIds DEF HistoryInvariant, Course, CourseTypes
  <2>3. current' # 0 /\ commits'[current'].files = files
    BY <2>1, <2>2
  <2> QED  BY <2>3 DEF FilesOf
<1>7. /\ upkeep.old # {} /\ \A f \in upkeep.old : f.part = upkeep.new.part
      /\ upkeep.new.rows = UNION {f.rows : f \in upkeep.old}
  BY DEF HistoryInvariant, FilesSound, SameRows
<1>8. PICK before, old, new : before = FilesOf(current) /\ old = upkeep.old /\ new = upkeep.new
  OBVIOUS
<1>9. Content((before \ old) \cup {new}) = Content(before)
  <2>1. old \subseteq before /\ old # {}
    BY <1>4, <1>7, <1>8
  <2>2. new.rows = UNION {f.rows : f \in old} /\ \A f \in old : f.part = new.part
    BY <1>7, <1>8
  <2> QED  BY <2>1, <2>2, RewritingKeepsContent, Zenon
<1>10. Content(files) = Content(FilesOf(current))
  BY <1>3, <1>8, <1>9
<1> QED  BY <1>6, <1>10

-----------------------------------------------------------------------------
(***************************************************************************)
(* The theorems.                                                           *)
(***************************************************************************)

\* The invariant holds of every behaviour.
THEOREM HistoryIsSound == HistorySpec => []HistoryInvariant
<1>1. HistoryInit => HistoryInvariant
  BY InvariantAtStart
<1>2. HistoryInvariant /\ [HistoryNext]_tableVars => HistoryInvariant'
  BY InvariantStep
<1> QED  BY <1>1, <1>2, PTL DEF HistorySpec

\* Every snapshot the table lists can be read: expiry, compaction and rollback
\* delete no file a listed snapshot still refers to.
THEOREM ListedFilesAreThere == HistorySpec => []NothingDangling
<1>1. HistoryInvariant => NothingDangling
  BY DEF HistoryInvariant, FilesSound
<1> QED  BY <1>1, HistoryIsSound, PTL

\* As long as no job died, storage holds no file that neither a listed snapshot
\* nor a step under way refers to: expiry reclaims all there is to reclaim.
THEOREM NoFileIsForgotten == HistorySpec => []StorageAccountedFor
<1>1. HistoryInvariant => StorageAccountedFor
  BY DEF HistoryInvariant, FilesSound
<1> QED  BY <1>1, HistoryIsSound, PTL

\* Expiry keeps what maintenance.py promises to keep.
THEOREM RetentionIsKept == HistorySpec => []PromisedHistoryKept
<1>1. HistoryInvariant => PromisedHistoryKept
  BY PromiseFollows DEF HistoryInvariant
<1> QED  BY <1>1, HistoryIsSound, PTL

\* A reader is disturbed by a rollback or by RetainLast later commits, and by
\* nothing else.
THEOREM ReadersAreSafe == HistorySpec => []ReadersKeepTheirFiles
<1>1. HistoryInvariant => ReadersKeepTheirFiles
  BY ReadersFollow
<1> QED  BY <1>1, HistoryIsSound, PTL

\* expirable() counts what expiry would remove.
THEOREM ReportIsTrue == HistorySpec => []ReportIsExact
<1>1. HistoryInvariant => ReportIsExact
  BY ReportFollows DEF HistoryInvariant
<1> QED  BY <1>1, HistoryIsSound, PTL

\* Compaction leaves the rows of the table as they are.
THEOREM CompactionIsHarmless == HistorySpec => CompactionKeepsContent
<1>1. HistoryInvariant /\ [HistoryNext]_tableVars => [CompactionStep]_tableVars
  BY CompactionStepHolds
<1> QED  BY <1>1, HistoryIsSound, PTL DEF HistorySpec, CompactionKeepsContent, CompactionStep
=============================================================================
