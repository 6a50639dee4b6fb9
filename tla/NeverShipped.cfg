SPECIFICATION FairOrderlySpec
CONSTANTS
    Names = {a}
    NoName = NoName
    Requests = {r1}
    Data = {x}
    Junk = Junk
    Sizes = {1}
    MaxSize = 1
    MaxArtifactSize = 1
    MaxUploadAttempts = 1
    MaxNameAttempts = 0
    Faults = {"db"}
PROPERTY CompleteIsShipped
