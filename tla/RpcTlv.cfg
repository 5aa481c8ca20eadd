SPECIFICATION Spec
CONSTANTS
    BufSize = 8
    Words <- SmallWords
    Blobs <- SmallBlobs
    RxBytes = {0, 1, 128, 144, 224}
    RxMax = 7
    MaxParams = 2
    MaxStarts = 2
    MaxBlob = 2
INVARIANTS
    BufferIsEncoding
    RoundTrip
    ParseIsExact
    ReadersAgree
\* the program may be done with a buffer it has begun MaxStarts times
CHECK_DEADLOCK FALSE
