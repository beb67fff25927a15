SPECIFICATION FairSpec
CONSTANTS
    t1 = t1
    t2 = t2
    Tasks <- TwoTasks
    NoTask = NoTask
    InitialDelay = 500
    MaxDelay = 750
INVARIANTS
    WatchFollowsState
PROPERTIES
    DisconnectStops
    Reconnects
