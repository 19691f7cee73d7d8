SPECIFICATION Spec
CONSTANTS
    CLOCK_WRAP = 2
    IGNITION_PULSE_DURATION_MS = 1
    POST_FIRE_COOLDOWN_MS = 1
    CONTINUITY_CHECK_INTERVAL_MS = 1
    SHORT_THRESHOLD = 200
    OPEN_THRESHOLD = 300
    PRESENT_THRESHOLD = 1000
    Readings = {"PRESENT"}
    UPLINK = 1
    DOWNLINK = 2
    MAX_REQUESTS = 2
VIEW LiveState
INVARIANTS
    TypeOK
    AckIsTruthful
    Agreement
    OnePulsePerRequest
    EachPulseIsArmed
