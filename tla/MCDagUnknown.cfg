CONSTANTS
    Null = Null
    NoPartition = NoPartition
    NoSlot = NoSlot
    Slots = {s1}
    MaxQuarantinePct = 50
    MaxMoney <- MCMaxMoney
    HundredPercent = 100
    Dates <- MCDates
    MonthEnds <- MCMonthEnds
    SourceRows <- MCSourceRows
    Deliveries <- MCUnknown
    EngineFaults <- MCNoFaults
    Retries = 1
    MaxDeliveries = 2
    MaxCrashes = 0
    MaxReruns = 0
SPECIFICATION DagSpec
INVARIANTS
    NoExposureLost
CHECK_DEADLOCK FALSE
