CONSTANTS
    Null = Null
    NoPartition = NoPartition
    NoSlot = NoSlot
    Slots = {s1}
    MaxQuarantinePct = 50
    MaxMoney <- MCMaxMoney
    HundredPercent = 100
    Dates <- MCDates
    MonthEnds <- MCMonthEnds
    SourceRows <- MCSourceRows
    Deliveries <- MCDeliveries
    EngineFaults <- MCNoFaults
    Retries = 1
    MaxDeliveries = 3
    MaxCrashes = 1
    MaxReruns = 1
SPECIFICATION DagSpec
INVARIANTS
    TypeOK
    DagTypeOK
    ReportFollowsDelivery
PROPERTIES
    EvidenceOnDisk
    OtherDatesUndisturbed
    BackfillCompletes
    RerunRecovers
CHECK_DEADLOCK FALSE
