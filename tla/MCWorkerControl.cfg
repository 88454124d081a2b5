\* The whole life of a worker; Run returns, so the system may stop.
SPECIFICATION FairSpec
CONSTANTS
    User = {u1}
    MaxInbox = 2
INVARIANTS
    StopIsNotALoss
    ClocksAreWatched
PROPERTIES
    StopEndsRun
    HeartbeatGoesOn
CHECK_DEADLOCK FALSE
