CONSTANTS
    p = 7
    n = 5
    t = 1
    Blocks = 2
    Sharings <- MCSharings
    FaultySets <- MCFaultySets
    Answers = {3}
SPECIFICATION Spec
INVARIANTS
    ErrorsEmptyAtCall
