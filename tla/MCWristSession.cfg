SPECIFICATION Spec
CONSTANTS
    CLOCK_WRAP = 5
    STRATAGEM_INPUT_TIMEOUT_MS = 1
    POST_MATCH_LOCKOUT_MS = 2
    MAX_STRATAGEM_LEN = 2
    LAUNCH_POOL_SIZE = 2
    STRATAGEM_DB <- MCStratagemDB
    POOL_BUILT = TRUE
    HEARTBEAT_INTERVAL_MS = 2
    LAUNCHER_TIMEOUT_MS = 2
    MAX_ITER_MS = 1
    MAX_RX_MS = 1
    GHOST_CAP = 5
VIEW SessionState
PROPERTY NoFireAcrossDisarm
