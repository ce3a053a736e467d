CONSTANTS
    d1 = d1
    d2 = d2
    other = other
    Ids = {r1}
    Devices = {d1}
    Tabs = {d1, other}
    Engines = {d1, other}
    DeviceOf <- DeviceOfTab
    TabOf <- OneTabEach
    AuthorOf <- TwoMembers
    PullPage = 2
    PushBatch = 2
    MaxRounds = 2
    Clocks = {1}
    Deletions = {FALSE}
    EarlyWrites = FALSE
    MaxEdits = 1
    MaxVersion = 3
    MaxFaults = 1
SPECIFICATION Spec
INVARIANT
    CaughtUpIsShown
