\* A worker of the 0.11 framework; the process ends.
SPECIFICATION FairSpec
CONSTANTS
    MaxSession = 1
    MsgLen = 2
    MaxSent = 3
    MaxMixed = 2
    MaxWrites = 2
INVARIANTS
    TypeOK
    DecodedInOrder
    ChunksInOrder
    AnswersInOrder
PROPERTIES
    AnswersGoOut
    LostConnectionEnds
CHECK_DEADLOCK FALSE
