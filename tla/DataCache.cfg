\* Three marks compete for the two ways of one group; reads cross blocks.
SPECIFICATION Spec
CONSTANTS
    NR_MARK = 3
    GRP_NUM = 1
    GRP_SIZE = 2
    CACHE_BLOCK_SIZE = 2
    Byte = {0, 1}
    Lens = {1, 2}
    CrossWrites = FALSE
INVARIANTS
    TypeOK
    Coherent
    NoReadError
PROPERTIES
    ImplementsMemory
CHECK_DEADLOCK FALSE
