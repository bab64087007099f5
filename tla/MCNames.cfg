SPECIFICATION NamesSpec
CONSTANTS
    EXPIRE_UNIT = 2
    BUG_WORKAROUND_BLOCK = 0
    STRICT_BLOCK = 0
    FEE_PERIOD = 4
    FEE_START = 2
    SUBSIDY = 9
    HALVING = 10
    Block <- Blocks
    Genesis = "g"
    NoBlock = "none"
    hashPrevBlock <- MCPrev
    vtx <- MCVtx
    BlockWork <- MCWork
    HeaderOK <- Blocks
    Tx <- MCTx
    vin <- MCVin
    vout <- MCVout
    isNameTx <- MCIsNameTx
    Name = {"n"}
    COINBASE_MATURITY = 0
    MIN_FIRSTUPDATE_DEPTH = 1
    MIN_AMOUNT = 1
    NoTx = "notx"
    MaxFaults = 1
    MaxOrphans = 0
    Mine <- MCMine
    Outgoing = {"P"}
    Commands = {"F1", "U1", "U2"}
    Blocks = {"g", "a1", "a2", "a3", "b2", "b3", "x3"}
INVARIANTS NoFalseConfirmation UpdateRefusedOnlyWhenLost
PROPERTIES ForgetsOnDelete ReloadRemembers
