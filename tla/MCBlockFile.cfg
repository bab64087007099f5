SPECIFICATION FileSpec
CONSTANTS
    g0 = g0  a1 = a1  a2 = a2  b1 = b1  b2 = b2
    NoBlock = NoBlock
    Genesis = g0
    Block <- MCBlock
    hashPrevBlock <- MCPrev
    Size <- MCSize
    BLOCKFILE_MAX_SIZE = 6
    BLOCKFILE_CHUNK_SIZE = 3
    IsInitialBlockDownload = FALSE
    SyncEvery = 3
    MayFail <- All
    MaxFiles = 3
    MaxFails = 1
    MaxKills = 1
    MaxPowerFails = 1
CHECK_DEADLOCK FALSE
CONSTRAINT PowerAlone
INVARIANTS StoredWhole TreeRootedAtGenesis
