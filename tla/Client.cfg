SPECIFICATION FairSpec
CONSTANTS
    Sessions = {s1, s2}
    NoSession = NoSession
    MaxMsgs = 2
    SendFailsInside = FALSE
INVARIANTS
    CloseToldOnce
    NoUseAfterFree
PROPERTIES
    NothingReadAfterClose
    CloseIsReported
    EndIsReported
