SPECIFICATION FollowSpec
CONSTANTS
    Names = {a}
    NoName = NoName
    Requests = {r1}
    Data = {l, t, o}
    Junk = Junk
    Sizes = {1}
    MaxSize = 2
    MaxArtifactSize = 1
    MaxUploadAttempts = 1
    MaxNameAttempts = 0
    Faults = {}
    Followed = a
    Lead = {l}
    Tail2 = {t}
    Limits = {0, 1}
    MaxChunkedRequestBytes = 2
    ReadFaults = {"db", "s3"}
INVARIANT CacheIsCurrent
