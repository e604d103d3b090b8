\* Allocator, C functions, command line and conversions.
SPECIFICATION Spec
CHECK_DEADLOCK FALSE
SYMMETRY Interchangeable
CONSTANTS
    Slots = {s1, s2, s3}
\* With a header of 2 and words up to 8, 6 is the largest size that fits.
    Sizes = {0, 1, 6, 7}
    MAX_UINTN = 8
    HeaderSize = 2
    MaxWrites = 2
\* 200 is negative as a signed char.
    Bytes = {0, 1, 200}
    ArrayLength = 4
    Words <- UsedWords
    MaxWords = 5
    Addresses <- OneAddress
    FingerprintLength = 1
    UsernameCapacity = 2
    PasswordCapacity = 3
    TargetCapacity = 5
    Calls <- ConversionCalls
    Capacity = 4
    DigestLength = 2
    MAX_UINT16 = 65535
INVARIANTS TypeOK ServicesKept AsStandardSays ReadAsMeant LoopsCompute
