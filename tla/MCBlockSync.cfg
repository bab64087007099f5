SPECIFICATION SyncSpec
CONSTANTS
    A = A
    B = B
    C = C
    Node = {A, B}
    Block <- MCBlock
    Genesis = "g"
    NoBlock = "none"
    hashPrevBlock <- MCPrev
    StartAt <- TwoStart
    Minable <- TwoMine
    Limit = 1
    Dials <- TwoDials
    MaxBreaks = 1
CHECK_DEADLOCK FALSE
PROPERTIES CatchesUp
