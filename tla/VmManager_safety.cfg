SPECIFICATION Spec
CONSTANTS
    v1 = v1
    v2 = v2
    v3 = v3
    Vms <- ThreeVms
    NoVm = NoVm
    Garbage = Garbage
    MaxTries = 2
    MaxPending = 2
    Faults = {"cancel", "waiterr", "pidwrite", "relaunch"}
SYMMETRY VmSymmetry
INVARIANTS
    NoLostVm
    SingleVm
    ControlsOwnVm
    AnsweredMeansAgreed
PROPERTIES
    NeverDropsLiveVm
    ImplementsLifecycle
