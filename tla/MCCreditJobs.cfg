CONSTANTS
    Null = Null
    NoPartition = NoPartition
    Slots = {s1, s2}
    MaxQuarantinePct = 50
    MaxMoney <- MCMaxMoney
    HundredPercent = 100
    Dates <- MCDates
    MonthEnds <- MCMonthEnds
    SourceRows <- MCSourceRows
    Deliveries <- MCDeliveries
    EngineFaults <- MCFaults
SYMMETRY SlotSymmetry
VIEW MCView
SPECIFICATION Spec
INVARIANTS
    EngineInputSound
PROPERTIES
    PublicationIsEffective
    ChainPublishesFigures
    ExposureForExposure
