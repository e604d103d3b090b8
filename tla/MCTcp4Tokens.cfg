\* A firmware that honours Cancel: who owns tokens and events.
CONSTANTS
    MaxHandles = 2
    MaxBytes = 2
    RxCapacity = 2
    MaxRead = 2
    ConfigureRetry = 2
    ConnectTimeout = 3
    IoTimeout = 1
    CancelTimeout = 1
    CloseTimeout = 1
    PollDelay = 2
    CancelHonoured = TRUE
SPECIFICATION Spec
INVARIANTS TokensQuiescent NoDanglingEvent
CHECK_DEADLOCK FALSE
