CONSTANTS
    Null = Null
    NotDelivered = NotDelivered
    AllDates = AllDates
    SnapshotDates = {1, 2}
    FileNames = {1, 2}
    Deliveries <- MCMonitored
    BatchSize = 1
    MaxDeliveries = 3
    MaxRuns = 2
    MaxDeaths = 1
    MonthEnds = {1, 2}
    Dates = {1, 2}
    MaxMoney <- MCMaxMoney
    HundredPercent = 100
    EngineFaults = {}
    MaxQuarantinePct = 40
    MaxOutputQuarantinePct = 0
SPECIFICATION MonitoredSpec
INVARIANTS
    CompletedLoadAgrees
    OneDeliveryAtATime
    TransfersArePaidFor
    LossIsReported
    UniformFaultsShowUpAsDrift
CHECK_DEADLOCK FALSE
