\* Two threads, one of which finds no memory.
CONSTANTS
    thread_count = 2
    NumParts = 2
    MaxFailures = 0
    MaxNoMemory = 1
SPECIFICATION FairSpec
PROPERTY
    NoMemoryReported
\* the program ends, and a thread that returns with the mutex stops the others
CHECK_DEADLOCK FALSE
