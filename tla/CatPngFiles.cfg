\* Two runs of catpng on up to two of six pictures, pnginfo in between.
CONSTANTS
    Pictures <- SixPictures
    CHUNK = 5
    MaxArgs = 2
    MaxRuns = 2
    Deflated = {2, 5, 6}
SPECIFICATION Spec
INVARIANTS
    TypeOK
    StripsInPlace
    IDATSound
    PnginfoAccepts
\* the programs end and nobody need run them again
CHECK_DEADLOCK FALSE
