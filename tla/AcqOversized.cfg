SPECIFICATION Spec
CONSTANTS
    Kinds = {"Dimax"}
    TrigModes = {"IntTrig"}
    Requests = {2}
    ForcedFifo = {FALSE}
    HwMax = 1
    CalcMax = 2
    WordSize = 4
    MaxFrames = 3
    Tids = {t1, t2}
PROPERTIES StopEnds
