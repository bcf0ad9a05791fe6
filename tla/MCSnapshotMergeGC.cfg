SPECIFICATION Spec
CONSTANTS
    a = a
    b = b
    Devices = {a, b}
    Founder = a
    Limit <- Two
    MaxHLC = 3
    MaxDeletes = 1
    GCFlags = {TRUE}
    BusyCompactor = FALSE
INVARIANT
    DeletesStick
