SPECIFICATION OrphanSpec
CONSTANTS
    EXPIRE_UNIT = 4
    BUG_WORKAROUND_BLOCK = 5
    STRICT_BLOCK = 6
    FEE_PERIOD = 4
    FEE_START = 0
    SUBSIDY = 3
    HALVING = 10
    Block <- Blocks
    Blocks = {"g", "a1", "a2", "b2", "b3", "b4", "x3"}
    Genesis = "g"
    NoBlock = "none"
    hashPrevBlock <- MCPrev
    vtx <- MCVtx
    BlockWork <- MCWork
    HeaderOK <- Blocks
    Tx <- MCTx
    vin <- MCVin
    vout <- MCVout
    isNameTx <- MCIsNameTx
    Name = {"n"}
    COINBASE_MATURITY = 0
    MIN_FIRSTUPDATE_DEPTH = 1
    MIN_AMOUNT = 1
    NoTx = "notx"
    MaxFaults = 0
    MaxOrphans = 2
INVARIANTS PointersMatchOrphans
PROPERTIES OrphansFollow CsMainReleased HeavierChainAdopted OrphansAccepted
