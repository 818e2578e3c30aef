\* Two consumers add to the height without a lock.
CONSTANTS
    p1 = p1
    p2 = p2
    c1 = c1
    c2 = c2
    Producers <- TwoProducers
    Consumers <- TwoConsumers
    BufSize = 2
    NumParts = 2
    MaxFailures = 0
    MaxDeaths = 0
SPECIFICATION Spec
CHECK_DEADLOCK FALSE
INVARIANT
    HeightExact
