\* One relay or two drain four rows through two failures.
SPECIFICATION Spec
CONSTANTS
    S1 = S1
    S2 = S2
    Relays = {P1, P2}
    MaxId = 4
    AggregateOf <- MCAggregateOf
    BatchSize = 2
    MaxFailures = 2
INVARIANTS
    TypeOK
    PublishedWasSent
    DuplicatesOnlyFromFailures
    OrderedWithOneRelay
    NewestHeardLast
PROPERTIES
    EveryRowPublished
