SPECIFICATION HSpec
CONSTANTS
    image = image
    disk = disk
    NoPath = NoPath
    NoOne = NoOne
    Paths = {image, disk}
    VmConfigs <- MCVmConfigs
    Backends = {"auto", "tap", "passt", "disabled"}
    Kvms = {"denied", "poor", "good"}
    Procs = {p1, p2}
SYMMETRY ProcSymmetry
INVARIANTS
    ReadyIsUsable
    SocketIsOwn
    NoStrayPasst
