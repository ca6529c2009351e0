CONSTANTS
    c1 = c1
    si = si
    so = so
    z1 = z1
    x1 = x1
    x2 = x2
    None = None
    Channels <- MCChannels
    InSlots <- MCInSlots
    OutSlots <- MCOutSlots
    Zygotes <- MCZygotes
    Execs <- MCExecs
SPECIFICATION Spec
INVARIANTS
    TypeOK
    OutputSlotReadyWhenTouched
PROPERTIES
    TouchEventuallyReturns
CHECK_DEADLOCK FALSE
