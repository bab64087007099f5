SPECIFICATION Spec
CONSTANTS
    EXPIRE_UNIT = 2
    BUG_WORKAROUND_BLOCK = 0
    STRICT_BLOCK = 0
    FEE_PERIOD = 4
    FEE_START = 2
    SUBSIDY = 9
    HALVING = 10
    Block <- MCBlock
    Genesis = "g"
    NoBlock = "none"
    hashPrevBlock <- MCPrev
    vtx <- MCVtx
    BlockWork <- MCWork
    HeaderOK <- MCBlock
    Tx <- MCTx
    vin <- MCVin
    vout <- MCVout
    isNameTx <- MCIsNameTx
    Name = {"n"}
    COINBASE_MATURITY = 0
    MIN_FIRSTUPDATE_DEPTH = 1
    MIN_AMOUNT = 1
    NoTx = "notx"
    MaxFaults = 1
    MaxOrphans = 0
INVARIANTS SetSpentAssertion ReorgCanUndo InPointsValid PendingInPool OnHeaviestValidChain NodeInv CommittedTogether MemoryMatchesDisk
PROPERTIES ImplementsLedger
