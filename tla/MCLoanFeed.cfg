CONSTANTS
    ShortTerm = 10
    Null = Null
    Absent = Absent
    Unparsable = Unparsable
    MaxMoney <- MCMaxMoney
    HundredPercent = 7
    MonthEnds <- MCMonthEnds
    MonthLength <- MCMonthLength
    RawLoans <- MCRawLoans
SPECIFICATION FeedSpec
INVARIANTS
    FeedIsAcceptable
    WriteOffIsReported
    InstalmentsAreLevel
PROPERTIES
    LifecycleInOrder
    DefaultDateNeverMoves
    BalanceFollowsPayments
CHECK_DEADLOCK FALSE
