SPECIFICATION UploadSpec
CONSTANTS
    Names = {a, b}
    NoName = NoName
    Requests = {r1, r2}
    Data = {x}
    Junk = Junk
    Sizes = {0, 1}
    MaxSize = 2
    MaxArtifactSize = 1
    MaxUploadAttempts = 1
    MaxNameAttempts = 1
    Faults = {}
    Name = a
    NoRequest = NoRequest
    MAX_PENDING_REPORTS = 1
    MaxAppends = 2
    Network = {"outlive"}
INVARIANT UploadedInEntirety
CHECK_DEADLOCK FALSE
