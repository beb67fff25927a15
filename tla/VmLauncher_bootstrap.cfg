SPECIFICATION WSpec
CONSTANTS
    s1 = s1
    s2 = s2
    Starts <- TwoStarts
    NoStart = NoStart
    MaxInstalls = 2
INVARIANT BootstrappedMeansPerformed
