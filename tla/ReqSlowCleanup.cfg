SPECIFICATION Spec
CONSTANTS
    Threads = {t1, t2}
    Requests = {r1, r2}
    Slots = {s1, s2}
    MaxSeqId = 3
    NoTimeout = {}
    SlowSend = TRUE
    KeepWindow = TRUE
    TIMEOUT = TIMEOUT
    NoReq = NoReq
    NoSlot = NoSlot
INVARIANT CleanupOwnsRequest
