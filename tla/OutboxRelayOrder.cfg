\* Two relays at work keep the events of an aggregate in order, as the comment on OutboxRelay has it: refuted.
SPECIFICATION Spec
CONSTANTS
    S1 = S1
    S2 = S2
    Relays = {P1, P2}
    MaxId = 4
    AggregateOf <- MCAggregateOf
    BatchSize = 2
    MaxFailures = 2
INVARIANTS
    OrderedPerAggregate
