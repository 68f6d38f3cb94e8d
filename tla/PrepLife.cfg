SPECIFICATION Spec
CONSTANTS
    Kinds = {"edge", "dimax", "pco2k"}
    Requests = {0, 1}
    TrigModes = {"IntTrig", "ExtTrigSingle"}
    Widths = {1, 2}
    WidthHigh = 1
    Rates = {1, 2}
    RateHigh = 2
    DefaultRate = 1
    MaxEvents = 1
INVARIANTS RunFitsRecorder RateHonoured FormatIsStaleOnlyAfterResize
PROPERTIES ConflictNeedsRefusal
