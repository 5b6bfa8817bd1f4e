SPECIFICATION FairSpec
CONSTANTS
    MaxSessions = 2
    MaxFrames <- Frames21
INVARIANTS
    AnswersInOrder
    NothingLostBeforeError
PROPERTIES
    ReaderEnds
    StopCompletes
CHECK_DEADLOCK FALSE
