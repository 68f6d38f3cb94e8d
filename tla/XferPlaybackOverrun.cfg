SPECIFICATION Spec
CONSTANTS
    Modes = {"record"}
    Requests = {3}
    RecStops = {FALSE}
    Nrevents = 2
    DWordMax = 9
    MaxLost = 1
    MaxImages = 7
INVARIANT FrameHasItsImage
