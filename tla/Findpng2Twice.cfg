\* Two addresses that end at one image.
CONSTANTS
    t1 = t1
    t2 = t2
    a = a
    b = b
    c = c
    d = d
    e = e
    f = f
    Threads <- OneThread
    m = 3
    StackSize = 5
    Urls <- FiveUrls
    Seed = a
    Links <- FanLinks
    Kind <- FanKind
    Redirect <- Moved
    MaxFailures = 0
    MaxSpurious = 0
SPECIFICATION Spec
INVARIANT
    NoDuplicatePng
\* the threads may all sleep for ever, and main ends
CHECK_DEADLOCK FALSE
