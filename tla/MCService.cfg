\* Two goroutines that call or log, a forced reconnection and a Close; when
\* all are done it stops.
SPECIFICATION Spec
CONSTANTS
    Caller = {c1, c2}
    Forcer = {f1}
    Closer = {x1}
    None = None
    MaxEpoch = 1
    MaxSession = 3
INVARIANTS
    TypeOK
    CallsOpenInOrder
    AnswersAreOwn
    DisconnectedIsTrue
    StrayCallsWereTold
SYMMETRY CallerSymmetry
CHECK_DEADLOCK FALSE
