SPECIFICATION Spec
CONSTANTS
    Requests = {1, 5, 8, 12}
    Retries = {0, 2}
    Nrevents = 3
    LimaBuffers = 7
    DWordMax = 13
    MaxImages = 6
INVARIANTS FrameHasItsImage OnlySecondOverwrites
PROPERTIES TimeoutsEnd
