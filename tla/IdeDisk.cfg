\* Two sectors share a slot; the write-back may come anywhere, also in the driver,
\* where the machine can hang (no step) or abort.
SPECIFICATION FairSpec
CONSTANTS
    NR_SECTOR = 2
    NR_SEC_CACHE = 1
    WORDS = 2
    Word = {0, 1}
    WB_TICKS = 2
INVARIANTS
    DriverCorrect
    AnywhereSound
PROPERTIES
    OnlyReadsAssert
    DriverProgress
CHECK_DEADLOCK FALSE
