CONSTANTS
    Header = 2
    WordSize = 2
    Start = 1
    Sizes <- MCSizes
    TabSizes <- MCTabSizes
    MaxAddr = 24
    MaxLive = 3
SPECIFICATION Spec
INVARIANTS
    LiveDisjoint
    ListSound
CHECK_DEADLOCK FALSE
