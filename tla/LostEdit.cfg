CONSTANTS
    d1 = d1
    d2 = d2
    other = other
    Ids = {r1}
    Devices = {d1}
    Tabs = {d1}
    Engines = {d1}
    DeviceOf <- DeviceOfTab
    TabOf <- OneTabEach
    AuthorOf <- TwoMembers
    PullPage = 2
    PushBatch = 2
    MaxRounds = 2
    Clocks = {1}
    Deletions = {FALSE}
    EarlyWrites = FALSE
    MaxEdits = 2
    MaxVersion = 9
    MaxFaults = 0
SPECIFICATION Spec
INVARIANT
    LastEditStays
