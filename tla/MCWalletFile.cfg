SPECIFICATION Spec
CONSTANTS
    msg = msg
    rpc = rpc
    gui = gui
    Thread = {msg, rpc}
    Nobody = Nobody
    Paths <- DaemonPaths
    MaxUpdates = 3
CHECK_DEADLOCK FALSE
INVARIANTS HandleInUseStaysOpen WalletSomewhere
PROPERTIES EncryptEnds ShutdownEnds
