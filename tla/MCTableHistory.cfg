CONSTANTS
    Partitions = {p1, p2}
    RetentionDays = 1
    RetainLast = 2
    LastDay = 2
    MaxCommits = 4
    MaxFiles = 4
    MaxDeaths = 1
SYMMETRY PartitionSymmetry
SPECIFICATION HistorySpec
INVARIANTS
    NothingDangling
    StorageAccountedFor
    PromisedHistoryKept
    ReadersKeepTheirFiles
    ReportIsExact
PROPERTIES
    CompactionKeepsContent
CHECK_DEADLOCK FALSE
