SPECIFICATION FairFollowSpec
CONSTANTS
    Names = {a}
    NoName = NoName
    Requests = {r1}
    Data = {l, t, o}
    Junk = Junk
    Sizes <- SomeSizes
    MaxSize = 2
    MaxArtifactSize = 1
    MaxUploadAttempts = 1
    MaxNameAttempts = 0
    Faults = {}
    Followed = a
    Lead = {l}
    Tail2 = {t}
    Limits = {0, 1}
    MaxChunkedRequestBytes = 2
    ReadFaults = {"db", "s3"}
INVARIANTS FollowerIsInStep EofIsTheEnd ReadersSeeTheLog
PROPERTIES WithheldOnlyByMerge FollowerFinishes FollowerCatchesUp
