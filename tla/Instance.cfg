SPECIFICATION Spec
CONSTANTS
    magisk = magisk
    kernelsu = kernelsu
    v = v
    None = None
    Unset = Unset
    Absent = Absent
    Garbled = Garbled
    Empty = Empty
    Cut = Cut
    Fields <- MCFields
    Options <- MCOptions
    Values <- MCValues
    Default <- MCDefault
    Edits <- MCEdits
    Order <- MCOrder
    Rooted = {magisk, kernelsu}
INVARIANTS
    SavedIsLoaded
    RootedHasImage
    RootedAsNamed
