CONSTANTS
    ShortTerm = 10
    Null = Null
    Absent = Absent
    Unparsable = Unparsable
    MaxMoney <- MCMaxMoney
    HundredPercent = 7
    MonthEnds <- MCMonthEnds
    MonthLength <- MCMonthLength
    RawLoans <- MCRawLoans
SPECIFICATION FeedSpec
PROPERTY
    ClosingIsShown
CHECK_DEADLOCK FALSE
