SPECIFICATION OrderlySpec
CONSTANTS
    Names = {a, b}
    NoName = NoName
    Requests = {r1, r2}
    Data = {x}
    Junk = Junk
    Sizes = {0, 1}
    MaxSize = 1
    MaxArtifactSize = 1
    MaxUploadAttempts = 1
    MaxNameAttempts = 1
    Faults = {"db", "crash"}
SYMMETRY Symmetry
INVARIANT ClosingInv SettledAfterClose
PROPERTY ClosedForGood
