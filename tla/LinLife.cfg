SPECIFICATION Spec
CONSTANTS
    Kinds = {"Edge", "Dimax"}
    Requests = {0, 2, 3}
    HwMax = 2
    MaxFrames = 3
    Switches = TRUE
    Destroys = TRUE
INVARIANTS FramesRecorded
PROPERTIES EdgeImplementsAcquisition SwitchIsExclusive OrphansComeFromStart IgnoredOnlyAtEnd WakeKept StopEnds AcqEnds
CHECK_DEADLOCK FALSE
