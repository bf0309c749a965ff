\* Two projectors share a partition through failures, restarts and rebalances.
SPECIFICATION Spec
CONSTANTS
    E1 = E1
    E2 = E2
    E3 = E3
    Junk = Junk
    Projectors = {P1, P2}
    Partition <- MCPartition
    MaxAttempts = 3
    MaxFailures = 6
INVARIANTS
    TypeOK
    CountedOnce
    NothingSkipped
    ConsumedWasCounted
PROPERTIES
    SettledUnlessStopped
