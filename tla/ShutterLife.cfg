SPECIFICATION Spec
CONSTANTS
    Setups = {"rolling", "global", "reset"}
    Switches = {s1, s2}
    s1 = s1
    s2 = s2
INVARIANTS RunKeepsCamera ModeReached
PROPERTIES ConfigEnds
CHECK_DEADLOCK FALSE
