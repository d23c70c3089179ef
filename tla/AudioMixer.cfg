CONSTANTS
    MAX_SOUND_BITES = 3
    NULL = NULL
    Sound <- MCSound
    Pcm <- MCPcm
    playbackBufferSize = 5
    SAMPLE_SIZE = 2
    SHRT_MAX = 7
SPECIFICATION Spec
INVARIANTS
    TypeOK
PROPERTIES
    VoicesSpec
