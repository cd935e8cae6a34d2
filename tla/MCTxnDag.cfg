CONSTANTS
    Null = Null
    Partitions = {p1, p2}
    MaxCents <- MCMaxCents
    Transactions <- MCTransactions
    MaxMessages = 2
    MaxCrashes = 2
    MaxLosses = 0
    Retries = 1
SPECIFICATION DagSpec
INVARIANTS
    DagTypeOK
PROPERTIES
    BronzeLandsTheLog
    AlertsFollowTopic
    EveryMessageScreened
