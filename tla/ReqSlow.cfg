SPECIFICATION Spec
CONSTANTS
    Threads = {t1, t2}
    Requests = {r1, r2, r3, r4}
    Slots = {s1, s2}
    MaxSeqId = 2
    NoTimeout = {r4}
    SlowSend = TRUE
    KeepWindow = TRUE
    TIMEOUT = TIMEOUT
    NoReq = NoReq
    NoSlot = NoSlot
SYMMETRY Symmetry
INVARIANTS
    AnswersMatch
\* a thread inside event_del and the event loop may wait for each other
CHECK_DEADLOCK FALSE
