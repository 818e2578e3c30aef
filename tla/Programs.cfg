\* pastersingle with three strips and two failures; a CRC of four bits over
\* buffers of up to three bytes of two bits; findpng with six or seven descriptors;
\* each small program with one failing call and bodies around the buffer's size.
CONSTANTS
    NumParts = 3
    BUF_INC = 8
    BUF_SIZE = 8
    StripSize = 7
    HeightEnd = 2
    LengthEnd = 4
    TypeEnd = 4
    DataEnd = 6
    NumberSize = 2
    StripHeight = 2
    RowSize = 1
    MaxFailures = 2
    Slot = 2
    STACK_SIZE = 2
    BodyLengths = {0, 2, 7, 8, 10}
    MaxFaults = 1
    Width = 4
    Byte = 2
    Poly = {2, 3}
    MaxLen = 3
    Root = "r"
    Dirs <- TreeDirs
    Files <- TreeFiles
    Holds <- TreeHolds
    Content <- TreeContent
    Limits = {6, 7}
    MaxUnreadable = 1
SPECIFICATION ProgramsSpec
INVARIANTS
    TypesOK
    MemorySafe
    DamageBounded
    ChecksumSound
    SearchComplete
    Delivered
    NothingLeftBehind
PROPERTIES
    AssemblesSafely
    ProgramsEnd
\* the programs end
CHECK_DEADLOCK FALSE
