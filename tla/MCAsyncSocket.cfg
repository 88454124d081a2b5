\* A buffer with its sender, its receiver and one caller of Stop or Drain, or a
\* socket with its goroutines and its peer; when all have ended it is at rest.
SPECIFICATION MCSpec
CONSTANTS
    good = good
    bad = bad
    m1 = m1
    m2 = m2
    Item <- MCItem
    MaxItems = 4
    Msg <- MCMsg
    Unencodable = {bad}
    NoMsg = NoMsg
    Sender = {s1}
    MaxSent = 2
    Script <- MCScript
INVARIANTS
    WrittenInOrder
    ReadInOrder
PROPERTIES
    ImplementsFifoChannel
    StopEndsTheLoop
    SendReturns
    DisconnectIsNoticed
    CloseReleases
CHECK_DEADLOCK FALSE
