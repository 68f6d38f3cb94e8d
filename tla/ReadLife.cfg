SPECIFICATION Spec
CONSTANTS
    Modes = {"last", "edge", "first", "live", "double"}
    Requests = {0, 1, 2, 5}
    LimaBuffers = 3
    DWordMax = 6
    MaxImages = 4
INVARIANTS FrameHasItsImage HeldFramesKept ResultIsTrue StopIsPrompt
PROPERTIES StopReturns
