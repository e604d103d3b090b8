\* Two bytes per buffer, two tries of each retry loop, bursts of two reads.
CONSTANTS
    ConnectLimit = 2
    SendLimit = 2
    ShutdownLimit = 2
    BurstLimit = 2
    MaxBuffer = 2
    MaxExtended = 1
    MaxKeys = 2
    MaxOutput = 2
SPECIFICATION FairSpec
INVARIANTS TypeOK OutputInOrder ResourcesKept FailureReported
PROPERTIES ReturnsToShell
CHECK_DEADLOCK FALSE
