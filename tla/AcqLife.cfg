SPECIFICATION Spec
CONSTANTS
    Kinds = {"Edge", "EdgeCL", "Dimax", "Pco4k"}
    TrigModes = {"IntTrig", "ExtTrigMult", "ExtTrigSingle"}
    Requests = {0, 2, 3, 4}
    ForcedFifo = {FALSE, TRUE}
    HwMax = 3
    CalcMax = 3
    WordSize = 3
    MaxFrames = 4
    Tids = {t1, t2}
INVARIANTS EndCountsFrames
PROPERTIES ThreadsClearStarted StopEnds AcqEnds ImplementsAcquisition
