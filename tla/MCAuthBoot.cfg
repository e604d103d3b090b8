\* A second run of the program in the same boot.
CONSTANTS
    HostKeys = {k1, k2}
    Fingerprint = k1
    Chars = {a}
    Capacity = 2
    MaxRuns = 2
SPECIFICATION Spec
INVARIANTS AcceptedForThisBoot
