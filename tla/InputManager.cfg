SPECIFICATION TSpec
CONSTANTS
    HostSizes <- MCHostSizes
    GuestSizes <- MCGuestSizes
    Points <- MCPoints
    Keys = {back}
    Back = back
    NoPoint = NoPoint
    MaxId = 1
    Names = {"w", "a", "s", "d", "i", "j", "k", "l", "mouse2", "q", "e", "f"}
    KnownKeys = {"w", "a", "s", "d", "i", "j", "k", "l", "mouse2", "q", "e", "f"}
    Files <- MCFiles
    NoKeymap = NoKeymap
    Video <- MCVideo
    MaxInt = 9
    LabelInset = 1
    LabelSize <- MCLabelSize
INVARIANTS
    NoGhostTouch
    TwoFingers
    PixelIsNearest
    TouchesAreNearest
    LabelCoversTouch
PROPERTIES
    MotionIsTravel
