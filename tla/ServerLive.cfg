SPECIFICATION FairSpec
CONSTANTS
    Conns = {c1, c2}
    Threads = {t1}
    Loop = Loop
    NoConn = NoConn
    NoOne = NoOne
    MaxCid = 3
    MaxFds = 2
    MaxMsgs = 2
    CloseIn = {}
    ThreadsClose = FALSE
    EventFails = FALSE
    MayClose = FALSE
    KeepCids = TRUE
PROPERTIES
    EndIsReported
    DataIsRead
    CloseCompletes
