\* Two host keys, passwords of at most two characters, the program run twice.
CONSTANTS
    HostKeys = {k1, k2}
    Fingerprint = k1
    Chars = {a, b}
    Capacity = 3
    MaxRuns = 2
SPECIFICATION Spec
INVARIANTS TypeOK TrustBeforePassword AskedOnce NoPartialPassword
PROPERTIES DecisionFinal
