SPECIFICATION FairSpec
CONSTANTS
    CharBits = 2
    ShortBits = 3
    IntBits = 4
    SizeBits = 3
    IPC_SEND_INSTR_MAX_LEN = 4
    Room = 10
    CommandLines <- MCCommandLines
    Answers <- MCAnswers
    Messages <- MCMessages
    Garbled = Garbled
    Nothing = Nothing
    IPC_SEND_MAX_PARAMS = 2
    TxRoom = 10
    MaxMsgs = 2
INVARIANTS
    ReleasedOnce
    RequestAsStated
    StatusTellsAnswer
    TextIsWhole
PROPERTIES
    ToolEnds
