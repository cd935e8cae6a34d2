CONSTANTS
    Null = Null
    MaxCents = 100000
    Threshold = 200
    StructuringWindow = 3
    MinCount = 2
    GridOffset = 1
    VelocityWindow = 2
    CountThreshold = 3
    AmountThreshold = 350
    Csvs <- MCCsvs
    Limit = 0
    Partitions = {1, 2}
    PartitionOf <- MCPartitionOf
    QueueCapacity = 2
    FlushEvery = 3
    MaxFaults = 1
    MaxMessages = 6
    MaxCrashes = 1
    MaxLosses = 1
    MaxMishaps = 1
SPECIFICATION DetectedSpec
INVARIANTS
    FlushedMeansWritten
    AccountsInOrder
    BurstsAreFlagged
    AlarmsAreDeserved
CHECK_DEADLOCK FALSE
