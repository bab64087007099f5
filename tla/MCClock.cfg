SPECIFICATION ClockSpec
CONSTANTS
    EXPIRE_UNIT = 6
    BUG_WORKAROUND_BLOCK = 50
    STRICT_BLOCK = 70
    FEE_PERIOD = 4
    FEE_START = 500
    SUBSIDY = 50
    HALVING = 60
    MaxHeight = 72
CHECK_DEADLOCK FALSE
INVARIANTS FreeForRpcIsFree DisplayedExpiry
PROPERTIES ExpiredStaysExpired NetworkFeeNeverRises
