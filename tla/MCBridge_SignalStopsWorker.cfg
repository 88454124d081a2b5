\* A bridge, its child and one request.
SPECIFICATION FairBridgeSpec
CONSTANTS
    BodyLen = 1
PROPERTY
    SignalStopsWorker
CHECK_DEADLOCK FALSE
