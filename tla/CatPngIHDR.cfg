\* Two runs of catpng into the same all.png.
CONSTANTS
    Pictures <- SixPictures
    CHUNK = 5
    MaxArgs = 1
    MaxRuns = 2
    Deflated = {1}
SPECIFICATION Spec
INVARIANT
    IHDRSound
\* the programs end and nobody need run them again
CHECK_DEADLOCK FALSE
