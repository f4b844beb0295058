SPECIFICATION FairSpec
CONSTANTS
    u1 = u1
    u2 = u2
    s1 = s1
    Upload <- MCUpload
    Async <- MCAsync
    Size <- MCSize
    NoData = noData
    MaxTotalSize = 3
    MaxPoolSize = 1
    MaxLost = 1
    Cancellable <- MCCancellable
    MaxCleanups = 0
PROPERTIES
    CancelledAreAnswered
CHECK_DEADLOCK FALSE
