SPECIFICATION Spec
CONSTANTS
    Modes = {"edge", "edgeCL", "fifo"}
    Requests = {0, 1, 3, 5}
    RecStops = {FALSE}
    Nrevents = 3
    DWordMax = 9
    MaxLost = 1
    MaxImages = 7
INVARIANTS FrameHasItsImage ImagesInOrder
PROPERTIES Returns ImplementsStream
