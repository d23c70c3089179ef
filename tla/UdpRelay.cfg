SPECIFICATION FairSpec
CONSTANTS
    Slots = {s1, s2}
    MaxVolume = 1
    Default = 0
PROPERTIES AnsweredOnce PageCatchesUp
