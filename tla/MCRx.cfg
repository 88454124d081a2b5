\* One channel, its pushers and its reader; a panic stops it.
SPECIFICATION FairSpec
CONSTANTS
    root = root
    stream = stream
    Method <- MCMethod
    Node <- MCNode
    Root = root
    Tree <- MCTree
    Recursive = Recursive
    Empty = Empty
    Missing = Missing
    Idle = Idle
    Found = Found
    Pusher = {loop, reconnect}
    MaxPushed = 4
INVARIANTS
    ResultsInOrder
    NoMissedResult
PROPERTIES
    EveryResultReturned
CHECK_DEADLOCK FALSE
