SPECIFICATION FairSpec
CONSTANTS
    dir = dir
    a = a
    b = b
    Dir = dir
    Names <- TwoNames
    MaxBlocks = 2
    MaxRequests = 2
    MaxChanges = 1
    MaxCrashes = 1
INVARIANTS
    AnsweredWriteIsThere
    AnswerWasTrue
    ExecAnswerTrue
PROPERTIES
    RequestEnds
CHECK_DEADLOCK FALSE
