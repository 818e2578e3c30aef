\* Two threads may both sleep when nothing is left.
CONSTANTS
    t1 = t1
    t2 = t2
    a = a
    b = b
    c = c
    d = d
    e = e
    f = f
    Threads <- TwoThreads
    m = 5
    StackSize = 5
    Urls <- FiveUrls
    Seed = a
    Links <- FanLinks
    Kind <- FanKind
    Redirect <- NoRedirect
    MaxFailures = 0
    MaxSpurious = 0
SPECIFICATION FairSpec
PROPERTY
    Termination
\* the threads may all sleep for ever, and main ends
CHECK_DEADLOCK FALSE
