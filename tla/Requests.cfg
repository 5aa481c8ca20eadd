SPECIFICATION FairSpec
CONSTANTS
    Threads = {t1, t2}
    Requests = {r1, r2, r3}
    Slots = {s1, s2}
    MaxSeqId = 2
    NoTimeout = {}
    SlowSend = FALSE
    KeepWindow = TRUE
    TIMEOUT = TIMEOUT
    NoReq = NoReq
    NoSlot = NoSlot
INVARIANTS
    TypeOK
    AnswersMatch
    CalledAtMostOnce
    FailedSendIsSilent
    NoRequestLost
    CleanupOwnsRequest
    PendingIdsDistinct
PROPERTIES
    EveryRequestEnds
    ImplementsContract
