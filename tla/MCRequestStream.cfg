\* One session's request, its worker and its handler.
SPECIFICATION FairSpec
CONSTANTS
    b1 = b1
    b2 = b2
    b3 = b3
    Byte <- MCByte
    Chunk <- MCChunk
    BadChunk = BadChunk
    Error = Error
    NoMsg = NoMsg
    BufSize = {1, 2}
    MaxPushed = 3
INVARIANTS
    BytesInOrder
    EofIsTheEnd
PROPERTIES
    ImplementsFifoChannel
    PushReturns
