SPECIFICATION FairUploadSpec
CONSTANTS
    Names = {a, b}
    NoName = NoName
    Requests = {r1}
    Data = {x, y}
    Junk = Junk
    Sizes = {0, 1}
    MaxSize = 3
    MaxArtifactSize = 2
    MaxUploadAttempts = 1
    MaxNameAttempts = 1
    Faults = {"db","s3","body","crash"}
    Name = a
    NoRequest = NoRequest
    MAX_PENDING_REPORTS = 1
    MaxAppends = 3
    Network = {"lose"}
INVARIANTS ClientTypeOK FlushMeansSent PanicsOnlyAfterError FlushedStored UploadStoredUnlessError
PROPERTIES UsesServerOrderly FlushReturns AppendReturns UploadReturns CancelEndsRetries
CHECK_DEADLOCK FALSE
