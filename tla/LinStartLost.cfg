SPECIFICATION Spec
CONSTANTS
    Kinds = {"Dimax"}
    Requests = {0, 2}
    HwMax = 2
    MaxFrames = 2
    Switches = FALSE
    Destroys = FALSE
PROPERTY StartRunsThread

