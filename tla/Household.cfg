CONSTANTS
    d1 = d1
    d2 = d2
    other = other
    Ids = {r1}
    Devices = {d1, d2}
    Tabs = {d1, d2}
    Engines = {d1, d2}
    DeviceOf <- DeviceOfTab
    TabOf <- OneTabEach
    AuthorOf <- TwoMembers
    PullPage = 2
    PushBatch = 2
    MaxRounds = 2
    Clocks = {1, 2}
    Deletions = {FALSE, TRUE}
    EarlyWrites = FALSE
    MaxEdits = 2
    MaxVersion = 9
    MaxFaults = 1
    People = {m1, m2, m3}
    Households = {h1}
    TTL = 1
    MaxTime = 1
    MaxAtOnce = 2
    Null = Null
SYMMETRY Symmetry
SPECIFICATION MCSpec
CHECK_DEADLOCK FALSE
INVARIANTS
    TypeOK
    StoreIsLog
    CursorSkipsNothing
    BuiltOnHistory
    OverwritesSeenOrEarlier
    
    CaughtUpIsShown
    AdmittedRightly
PROPERTIES
    
    ImplementsLog
    ImplementsStanding
