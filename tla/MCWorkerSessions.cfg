\* Dispatch and handlers; everything may be done, so the system may stop.
SPECIFICATION Spec
CONSTANTS
    Session = {2, 3}
    MaxArrived = 4
    MaxWrites = 1
INVARIANTS
    OneFinalMessage
    DoneIsAnswered
    StreamsAreClosedOnce
    RoutedAsSent
CHECK_DEADLOCK FALSE
