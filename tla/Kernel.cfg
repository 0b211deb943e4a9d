SPECIFICATION KSpec
CONSTANTS
    NR_FILES = 2
    size <- MCSize
    disk_offset <- MCDiskOffset
    MOD = 32
    Lens = {0, 1, 3, 31}
    Offsets <- MCOffsets
    NR_IRQ_HANDLE = 4
    PG = 2
    Frames = 5
    StackPage = 6
    Images <- MCImages
    HeapEnds = {7, 8, 10}
INVARIANTS
    ResourcesSound
    DispatchComplete
    ImageLoaded
    FileCallsRight
CHECK_DEADLOCK FALSE
