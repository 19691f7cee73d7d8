SPECIFICATION Spec
CONSTANTS
    CLOCK_WRAP = 8
    IGNITION_PULSE_DURATION_MS = 2
    POST_FIRE_COOLDOWN_MS = 4
    CONTINUITY_CHECK_INTERVAL_MS = 1
    STATUS_BROADCAST_INTERVAL_MS = 2
    SHORT_THRESHOLD = 80
    OPEN_THRESHOLD = 800
    PRESENT_THRESHOLD = 1500
    MAX_ITER_MS = 1
    GHOST_CAP = 4
    Tokens <- MCOneToken
    RawReadings <- MCTwoReadings
VIEW ObservedState
INVARIANT GateOnlyWhileFiring
