SPECIFICATION Spec
CONSTANTS
    Handlers <- MCHandlers
    Lines = 60
    Size = 5
INVARIANTS
    TypeOK
    DominanceIsReal
    CutIsReal
    PassIsBacked
CHECK_DEADLOCK FALSE
