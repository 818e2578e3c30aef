\* Rounds of two transfers, failed transfers and errors of curl_multi_wait.
CONSTANTS
    a = a
    b = b
    c = c
    d = d
    e = e
    f = f
    g = g
    h = h
    t = 2
    m = 2
    StackSize = 8
    Urls <- EightUrls
    Seed = a
    Links <- WebLinks
    Kind <- WebKind
    Redirect <- Moved
    MaxFailures = 3
    MaxWaitErrors = 2
SPECIFICATION FairSpec
INVARIANTS
    TypeOK
    RoundsComplete
    Overshoot
    FetchedOnce
    OutputComplete
PROPERTIES
    Crawls
    Termination
\* the program ends
CHECK_DEADLOCK FALSE
