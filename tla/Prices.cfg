CONSTANTS
    Kinds = {k1}
    Dates = {0, 1}
    Stamps = {1, 2, 3}
    Tabs = {t1, t2}
    Days = {0, 1}
    MaxFaults = 1
    MaxPublished = 3
    Counts = {1, 3}
    RetentionDays = 1
    MaxDay = 3
    MaxStored = 3
    Null = Null
SPECIFICATION MCSpec
CHECK_DEADLOCK FALSE
PROPERTIES
    
    NeverWorse
    GoesOn
