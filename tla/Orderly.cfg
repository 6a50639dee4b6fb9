SPECIFICATION OrderlySpec
CONSTANTS
    Names = {a}
    NoName = NoName
    Requests = {r1, r2}
    Data = {x, y}
    Junk = Junk
    Sizes <- SomeSizes
    MaxSize = 2
    MaxArtifactSize = 1
    MaxUploadAttempts = 2
    MaxNameAttempts = 1
    Faults = {"db", "s3", "body", "crash"}
SYMMETRY Symmetry
INVARIANT IInv
INVARIANT AckedDurable
INVARIANT ChunksTile
INVARIANT UploadedWhole
PROPERTY UploadedIsTerminal
PROPERTY NeverShrinks
PROPERTY KeepsContract
