SPECIFICATION Spec
CONSTANTS
    Key = {k1, k2, k3, k4, k5}
    Holder = {h1, h2, h3}
    NoKey = NoKey
    Nobody = Nobody
    nTargetSize = 1
    Encrypts = TRUE
    MaxRestarts = 2
SYMMETRY Symmetry
CHECK_DEADLOCK FALSE
INVARIANTS KeyUsedOnce KeysRecoverable
