\* A bridge, its child and one request; the process ends.
SPECIFICATION FairBridgeSpec
CONSTANTS
    BodyLen = 3
INVARIANTS
    BridgeTypeOK
    ReplyIsTheChilds
PROPERTIES
    ChildExitEndsBridge
CHECK_DEADLOCK FALSE
