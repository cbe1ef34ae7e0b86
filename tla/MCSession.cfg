SPECIFICATION FairSpec
CONSTANTS
    MAX_MESSAGE_SIZE = 32
    STRING_MAX = 40
    Asks <- AskSeq
    MaxWrite = 3
    NotFoundText <- TextBytes
    OtherText <- TextBytes
INVARIANTS TypeOK RequestIsUnderstood AnswerIsMine
PROPERTIES CallReturns LoopContinues
CHECK_DEADLOCK FALSE
