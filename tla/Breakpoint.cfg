\* Three breakpoints or watchpoints, a BREAK_POINT of the program, an interrupt
\* handler at the last address.
SPECIFICATION Spec
CONSTANTS
    LastAddr = 3
    InCode = {1}
    NR_BP = 3
    Counts = {1, 2}
    SetTwice = FALSE
    Interrupts = TRUE
INVARIANTS
    ListAndCodeSound
PROPERTIES
    Rearmed
    StopsOnOriginal
