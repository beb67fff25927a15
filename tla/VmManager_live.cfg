SPECIFICATION FairSpec
CONSTANTS
    v1 = v1
    v2 = v2
    v3 = v3
    Vms <- TwoVms
    NoVm = NoVm
    Garbage = Garbage
    MaxTries = 2
    MaxPending = 3
    Faults = {"pidwrite"}
PROPERTIES
    StartSettles
    StopSettles
