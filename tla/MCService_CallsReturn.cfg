\* One caller, the first connection and one more.
SPECIFICATION FairSpec
CONSTANTS
    Caller = {c1}
    Forcer = {}
    Closer = {}
    None = None
    MaxEpoch = 1
    MaxSession = 2
PROPERTY
    CallsReturn
CHECK_DEADLOCK FALSE
