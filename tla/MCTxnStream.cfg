CONSTANTS
    Null = Null
    Partitions = {p1, p2}
    MaxCents <- MCMaxCents
    Transactions <- MCTransactions
    MaxMessages = 2
    MaxCrashes = 1
    MaxLosses = 1
SYMMETRY PartitionSymmetry
SPECIFICATION StreamSpec
INVARIANTS
    BronzeExactlyOnce
    NothingDropped
    RepeatsOnlyOnReplay
    ScreenedRowsAreMeaningful
