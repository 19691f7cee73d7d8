SPECIFICATION Spec
CONSTANTS
    CLOCK_WRAP = 16
    IGNITION_PULSE_DURATION_MS = 4
    POST_FIRE_COOLDOWN_MS = 8
    CONTINUITY_CHECK_INTERVAL_MS = 2
    STATUS_BROADCAST_INTERVAL_MS = 4
    SHORT_THRESHOLD = 80
    OPEN_THRESHOLD = 800
    PRESENT_THRESHOLD = 1500
    MAX_ITER_MS = 1
    GHOST_CAP = 4
    Tokens <- MCOneToken
    RawReadings <- MCTwoReadings
VIEW ObservedState
PROPERTY ContinuityCheckedBeforeFiring
