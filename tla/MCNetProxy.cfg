SPECIFICATION LiveSpec
CHECK_DEADLOCK FALSE
CONSTANTS
    Modulus = 10
    ServerIsn = 8
    GuestIsn = 8
    ChunkSize = 2
    HostBytes = 3
    GuestBytes = 2
    MaxRepeats = 1
    MaxSyns = 2
INVARIANTS StreamsInOrder OneInFlight
PROPERTIES EverythingArrives
