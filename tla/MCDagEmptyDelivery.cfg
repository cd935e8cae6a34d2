CONSTANTS
    Null = Null
    NoPartition = NoPartition
    NoSlot = NoSlot
    Slots = {s1}
    MaxQuarantinePct = 50
    MaxMoney <- MCMaxMoney
    HundredPercent = 100
    Dates <- MCDates
    MonthEnds <- MCMonthEnds
    SourceRows <- MCSourceRows
    Deliveries <- MCEmptyToo
    EngineFaults <- MCNoFaults
    Retries = 1
    MaxDeliveries = 3
    MaxCrashes = 0
    MaxReruns = 1
SPECIFICATION DagSpec
INVARIANTS
    EmptyDeliveryIsCaught
CHECK_DEADLOCK FALSE
