SPECIFICATION Spec
CONSTANTS
    EXPIRE_UNIT = 1
    BUG_WORKAROUND_BLOCK = 0
    STRICT_BLOCK = 0
    FEE_PERIOD = 4
    FEE_START = 2
    SUBSIDY = 6
    HALVING = 10
    Block <- MCBlock
    Genesis = "g"
    NoBlock = "none"
    hashPrevBlock <- MCPrev
    vtx <- MCVtx
    BlockWork <- MCWork
    HeaderOK <- MCHeaderOK
    Tx <- MCTx
    vin <- MCVin
    vout <- MCVout
    isNameTx <- MCIsNameTx
    Name = {"n", "m"}
    COINBASE_MATURITY = 1
    MIN_FIRSTUPDATE_DEPTH = 1
    MIN_AMOUNT = 1
    NoTx = "notx"
    MaxFaults = 0
    MaxOrphans = 0
CONSTRAINT OneChain
INVARIANTS OneLiveCoin CustodyChain NoInflation
PROPERTIES ImplementsLedger
