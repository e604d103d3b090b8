\* Any firmware: three bytes through a buffer of two.
CONSTANTS
    MaxHandles = 2
    MaxBytes = 3
    RxCapacity = 2
    MaxRead = 2
    ConfigureRetry = 2
    ConnectTimeout = 3
    IoTimeout = 1
    CancelTimeout = 1
    CloseTimeout = 1
    PollDelay = 2
    CancelHonoured = FALSE
SPECIFICATION Spec
INVARIANTS TypeOK StreamIntegrity NothingLeaks EofIsFinal
PROPERTY ImplementsByteStream
CHECK_DEADLOCK FALSE
