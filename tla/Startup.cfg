\* Two processes: Jobs beside serving pods, beside each other, run again.
SPECIFICATION Spec
CONSTANTS
    Process = {p1, p2}
    SKU = {1}
    Demo <- MCDemo
    MaxOnHand = 3
    Clusters <- MCClusters
INVARIANTS
    ServesOnlyWhenAsked
    OnHandIsBooked
PROPERTY RowsChangeByLedger
CHECK_DEADLOCK FALSE
