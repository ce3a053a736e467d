CONSTANTS
    d1 = d1
    d2 = d2
    other = other
    Ids = {r1}
    Devices = {d1, d2}
    Tabs = {d1, d2}
    Engines = {d1, d2}
    DeviceOf <- DeviceOfTab
    TabOf <- OneTabEach
    AuthorOf <- TwoMembers
    PullPage = 2
    PushBatch = 2
    MaxRounds = 2
    Clocks = {1, 2}
    Deletions = {FALSE}
    EarlyWrites = FALSE
    MaxEdits = 2
    MaxVersion = 9
    MaxFaults = 1
    Edits = {e1, e2}
    MaxHandles = 2
    Writing = {1, 2}
    MaxDay = 1
    MaxUnlocks <- TwoAndOne
    Home = Home
    Null = Null
SPECIFICATION MCSpec
CHECK_DEADLOCK FALSE

    
    
PROPERTIES
    EnginesConverge
    EditsArrive
    DayIsRecorded
