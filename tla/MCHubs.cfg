CONSTANTS
    a = a
    b = b
    c = c
    Device = {a, b, c}
    Revoked = {c}
    None = None
    World <- CarrierWorlds
    Omens <- OmenWorlds
    MaxSeq = 3
    Limit = 2
    Attempts = 3
SPECIFICATION HubsSpec
CHECK_DEADLOCK FALSE
INVARIANTS
    HubsSafe
PROPERTIES
    NoSilentRewind
    ImplementsHub
    EventsLand
    NeverAccused
    WithholdingFound
