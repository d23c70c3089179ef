CONSTANTS
    MAX_SOUND_BITES = 2
    NULL = NULL
    NumSamples <- MCNumSamples
    playbackBufferSize = 5
    SAMPLE_SIZE = 2
SPECIFICATION FairSpec
INVARIANTS
    SlotCount
    SlotsExclusive
    GoodSounds
    UdpSoundsSafe
    DeviceLive
    PeriodReady
    OnlyStreamsLeft
PROPERTIES
    TerminateEnds
    SoundsFinish
