SPECIFICATION Spec
CONSTANTS
    Conns = {c1, c2, c3}
    Threads = {t1}
    Loop = Loop
    NoConn = NoConn
    NoOne = NoOne
    MaxCid = 2
    MaxFds = 2
    MaxMsgs = 1
    CloseIn = {}
    ThreadsClose = FALSE
    EventFails = TRUE
    MayClose = TRUE
    KeepCids = TRUE
SYMMETRY Symmetry
INVARIANTS
    TypeOK
    ListedClientUsable
    NoUseAfterFree
    ClosedOnce
    AnswersGoHome
\* a failed event_new leaves the event loop waiting for a mutex it holds
CHECK_DEADLOCK FALSE
