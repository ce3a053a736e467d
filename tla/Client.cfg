CONSTANTS
    AutoLock = 3
    EnrolWindow = 2
    MaxGeneration = 4
    Users = {A, B}
    MaxSwitches = 2
    MaxFaults = 1
    MaxPassphrases = 2
    MaxFails = 3
    MaxLocks = 2
    People = {me, p2}
    Households = {h1}
    Me = me
    H = h1
    MaxUnlocks = 2
    Null = Null
SPECIFICATION MCSpec
CHECK_DEADLOCK FALSE
INVARIANTS
    KeysInWindow
    
PROPERTIES
    NothingLateCounts
    IdleLocks
    ImplementsSession
    
    GateHolds
    NobodyWaits
