\* One goroutine that calls and one that logs, over the first connection.
SPECIFICATION Spec
CONSTANTS
    Caller = {c1, c2}
    Forcer = {}
    Closer = {}
    None = None
    MaxEpoch = 0
    MaxSession = 3
INVARIANT
    SessionsOpenInOrder
CHECK_DEADLOCK FALSE
