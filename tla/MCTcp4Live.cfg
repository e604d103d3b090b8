\* A firmware that may ignore Cancel, one handle: progress.
CONSTANTS
    MaxHandles = 1
    MaxBytes = 2
    RxCapacity = 1
    MaxRead = 1
    ConfigureRetry = 1
    ConnectTimeout = 3
    IoTimeout = 1
    CancelTimeout = 1
    CloseTimeout = 1
    PollDelay = 2
    CancelHonoured = FALSE
SPECIFICATION ReadingSpec
PROPERTIES CallsReturn ReadsEveryByte
CHECK_DEADLOCK FALSE
