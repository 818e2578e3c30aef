\* Two producers and two consumers, one failed transfer: the strips are assembled.
CONSTANTS
    p1 = p1
    p2 = p2
    c1 = c1
    c2 = c2
    Producers <- TwoProducers
    Consumers <- TwoConsumers
    BufSize = 1
    NumParts = 2
    MaxFailures = 1
    MaxDeaths = 0
SPECIFICATION FairSpec
CHECK_DEADLOCK FALSE
PROPERTY
    Assembles
