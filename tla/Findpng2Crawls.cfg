\* Two threads: a page that two pages link to, four images of which two are
\* wanted, one of them by a second address, a failed transfer, a spurious wakeup.
CONSTANTS
    t1 = t1
    t2 = t2
    a = a
    b = b
    c = c
    d = d
    e = e
    f = f
    Threads <- TwoThreads
    m = 2
    StackSize = 6
    Urls <- SixUrls
    Seed = a
    Links <- TwinLinks
    Kind <- TwinKind
    Redirect <- Moved
    MaxFailures = 1
    MaxSpurious = 1
SPECIFICATION FairSpec
INVARIANTS
    TypeOK
    WaitAccounting
    NoStrandedWork
    LogExact
    PushRoom
    OutputComplete
    Overshoot
PROPERTIES
    Crawls
    CrawlSettles
\* the threads may all sleep for ever, and main ends
CHECK_DEADLOCK FALSE
