SPECIFICATION Spec
CONSTANTS
    a = a
    b = b
    c = c
    Devices = {a, b, c}
    Active = {a, b, c}
    Revocable = {}
    Start <- StartNew
    Offline <- LimitOne
    Limit <- LimitOne
    KeepSnapshots = 2
    MaxCompactions <- OnceEach
    MaxCrashes = 0
    SlowHolders = FALSE
    None = None
INVARIANT
    NothingLost
