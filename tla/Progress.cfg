SPECIFICATION FairSpec
CONSTANTS
    Names = {a}
    NoName = NoName
    Requests = {r1, r2}
    Data = {x}
    Junk = Junk
    Sizes = {1}
    MaxSize = 1
    MaxArtifactSize = 1
    MaxUploadAttempts = 2
    MaxNameAttempts = 0
    Faults = {"s3", "db"}
PROPERTIES RequestsTerminate MergeShipsOrReports
