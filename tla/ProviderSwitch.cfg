SPECIFICATION Spec
CONSTANTS
    Providers = {none, microg, gapps}
    Base = microg
    Downloaded = {gapps}
INVARIANTS
    OverlayKept
    NothingLost
    ConfigFollows
