\* The kernel half and two pages of the lower half, one for init, one for the program.
SPECIFICATION Spec
CONSTANTS
    NR_PTE = 2
    NR_FRAME = 3
    PAGE_SIZE = 2
    Byte = {0, 1}
    Lens = {2}
    NR_TLB = 2
    KernelPages = {0}
    UserPages = {1}
INVARIANTS
    TranslationSound
    AccessesLinear
CHECK_DEADLOCK FALSE
