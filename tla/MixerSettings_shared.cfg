CONSTANTS
    Threads = {"joystick", "udp"}
    AUDIOMIXER_MAX_VOLUME = 20
    AUDIOMIXER_MAX_TEMPO = 15
    DEFAULT_VOLUME = 10
    DefaultTempo = 10
    Step = 5
    HardwareMax = 7
    ModeBound = 5
SPECIFICATION SettingsSpec
INVARIANTS
    SettingsInRange
    ModeUnlessRaced
    CardUnlessRaced
