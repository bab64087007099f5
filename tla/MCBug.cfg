SPECIFICATION Spec
CONSTANTS
    EXPIRE_UNIT = 4
    BUG_WORKAROUND_BLOCK = 5
    STRICT_BLOCK = 6
    FEE_PERIOD = 4
    FEE_START = 0
    SUBSIDY = 3
    HALVING = 10
    Block <- MCBlock
    Genesis = "g"
    NoBlock = "none"
    hashPrevBlock <- MCPrev
    vtx <- MCVtx
    BlockWork <- MCWork
    HeaderOK <- MCBlock
    Tx <- MCTx
    vin <- MCVin
    vout <- MCVout
    isNameTx <- MCIsNameTx
    Name = {"n", "k", "m"}
    COINBASE_MATURITY = 1
    MIN_FIRSTUPDATE_DEPTH = 1
    MIN_AMOUNT = 1
    NoTx = "notx"
    MaxFaults = 0
    MaxOrphans = 1
CONSTRAINT BlocksOnly
INVARIANTS NameIndexReconstructs
