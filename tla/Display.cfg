SPECIFICATION DFairSpec
CONSTANTS
    LOW = 4
    COL = 1
    ROW = 2
    HIDDEN = 1
    HIGH = 1
    Byte = {0, 1}
    Lens = {1, 2}
    Colors = {5}
    NCOLOR = 1
INVARIANTS
    PictureSound
    PaletteApplied
PROPERTIES
    FinallyShown
CHECK_DEADLOCK FALSE
