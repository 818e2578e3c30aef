\* Three threads and three strips, curl errors and a failed malloc.
CONSTANTS
    thread_count = 3
    NumParts = 3
    MaxFailures = 3
    MaxNoMemory = 1
SPECIFICATION FairSpec
INVARIANTS
    TypeOK
    CounterExact
    ImageComplete
PROPERTIES
    AssemblesSafely
    Finishes
\* the program ends, and a thread that returns with the mutex stops the others
CHECK_DEADLOCK FALSE
