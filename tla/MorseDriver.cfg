SPECIFICATION FairSpec
CONSTANTS
    FIFO_SIZE = 4
    Texts <- MCTexts
    Around <- MCAround
INVARIANTS TypeOK ReadersGetTheText OverflowOnlyLoses
PROPERTIES DarkAsLongAsTold WriteReturns
CHECK_DEADLOCK FALSE
