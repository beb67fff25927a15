SPECIFICATION FairSpec
CONSTANTS
    w = w
    a = a
    z = z
    c = c
    m = m
    t = t
    grave = grave
    tap = tap
    map = map
    toggle = toggle
    drag = drag
    Keys = {w, a, z, c, m, t, grave}
    SwitchKey = grave
    AdsKey = z
    WheelKeys = {w, a}
    Named = {w, a}
    Clicks = {tap, map}
    SwitchMap = {map}
    Toggles = {toggle}
    Drags = {drag}
    Bound <- BoundKeys
    MaxThreads <- Threads
INVARIANTS
    FlagsMatchTouches
    HeldIsHeld
    OffMeansReleased
PROPERTIES
    TapsEnd
