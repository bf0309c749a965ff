\* A poison message does not keep the event behind it from flowing, as ADR 0020 has it: refuted.
SPECIFICATION Spec
CONSTANTS
    E1 = E1
    E2 = E2
    E3 = E3
    Junk = Junk
    Projectors = {P1, P2}
    Partition <- FlowPartition
    MaxAttempts = 3
    MaxFailures = 1
PROPERTIES
    NoMessageBlocksTheNext
