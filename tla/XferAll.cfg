SPECIFICATION Spec
CONSTANTS
    Modes = {"record", "edge", "edgeCL", "fifo"}
    Requests = {0, 2, 4}
    RecStops = {TRUE, FALSE}
    Nrevents = 2
    DWordMax = 7
    MaxLost = 1
    MaxImages = 6
INVARIANTS PlaybackExact CountMatches
PROPERTIES UncopiedImageKept StopReturns
