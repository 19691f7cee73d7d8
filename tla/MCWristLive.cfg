SPECIFICATION FairSpec
CONSTANTS
    CLOCK_WRAP = 3
    STRATAGEM_INPUT_TIMEOUT_MS = 1
    POST_MATCH_LOCKOUT_MS = 1
    MAX_STRATAGEM_LEN = 2
    LAUNCH_POOL_SIZE = 1
    STRATAGEM_DB <- MCStratagemDB
    POOL_BUILT = TRUE
    HEARTBEAT_INTERVAL_MS = 2
    LAUNCHER_TIMEOUT_MS = 1
    MAX_ITER_MS = 1
    MAX_RX_MS = 1
    GHOST_CAP = 0
VIEW LiveState
PROPERTIES
    EntryEnds
    LockoutEnds
