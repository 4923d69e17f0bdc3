CONSTANTS
    ROWS = 3
    COLS = 3
    MaxPrints = 4
    MaxStrokes = 3
    MaxTicks = 2
    MaxInput = 2
SPECIFICATION ConsoleSpec
INVARIANTS
    TextIsShown
    StoresInside
CONSTRAINT Bounded
CHECK_DEADLOCK FALSE
