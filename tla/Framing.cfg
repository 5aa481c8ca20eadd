SPECIFICATION FairSpec
CONSTANTS
    HdrLen = 2
    MaxMsgLen = 6
    MaxWord = 7
    MaxPayload = 5
    MaxSends = 4
INVARIANTS
    LossNeedsLag
    GivenInOrder
    RecoversWhenDrained
PROPERTIES
    StreamIsRead
