CONSTANTS
    a = a
    b = b
    c = c
    Device = {a, b, c}
    Revoked = {c}
    None = None
    World <- OnlyStill
    Omens <- Compactions
    MaxSeq = 3
    Limit = 2
    Attempts = 3
SPECIFICATION HubsSpec
PROPERTY NeverAccusedAtAll
CHECK_DEADLOCK FALSE
