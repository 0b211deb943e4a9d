\* Timer, keyboard, disk, and the monitor thread of HAS_DEVICE_AUDIO, which raises
\* IRQ 2 at any time.
SPECIFICATION FairSpec
CONSTANTS
    PolledIrqs = {0, 1, 14}
    MonitorIrqs = {2}
    IDE_IRQ = 14
    MaxAt = 1
INVARIANTS
    TypeOK
    IntrHasNumber
    OneIrqHandler
    Precise
    PolledKept
PROPERTIES
    HltWakes
