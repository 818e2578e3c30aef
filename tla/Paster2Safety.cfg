\* Two producers and two consumers, one failed transfer, one lost child.
CONSTANTS
    p1 = p1
    p2 = p2
    c1 = c1
    c2 = c2
    Producers <- TwoProducers
    Consumers <- TwoConsumers
    BufSize = 2
    NumParts = 3
    MaxFailures = 1
    MaxDeaths = 1
SPECIFICATION Spec
SYMMETRY Interchangeable
INVARIANTS
    TypeOK
    SlotAccounting
    StackNeverFails
    OneCopy
    ParentWaitsForAll
\* the program ends, and a lost child leaves the others waiting for ever
CHECK_DEADLOCK FALSE
