SPECIFICATION FairSpec
CONSTANTS
    WaitTimes = {1, 2}
    Limit = 3
INVARIANTS DarkUnlessReacting
PROPERTIES BestIsEarned QuitStaysDark HoldingEnds NoInputEnds
