\* Three calls race for two connections and the same keys.
SPECIFICATION Spec
CONSTANTS
    None = None
    K1 = K1
    K2 = K2
    B1 = B1
    B2 = B2
    Calls = {C1, C2, C3}
    MaxConns = 2
    Requests <- MCRequests
INVARIANTS
    TypeOK
    AppliedOncePerKey
    NoHalfWrittenRow
    HeardIsTheOutcome
PROPERTIES
    EveryCallAnswered
