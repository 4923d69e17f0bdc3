CONSTANTS
    a = a
    b = b
    Space = space
    Slash = slash
    Nul = nul
    Letters <- MCLetters
    Cap = 5
    Commands <- MCCommands
    Files <- MCFiles
    Dirs <- MCDirs
    MaxKeys = 6
SPECIFICATION Spec
INVARIANTS
    LineIsTyped
    BufferIsTyped
    CopyStops
    NoPhantomLine
PROPERTIES
    HandedOver
CHECK_DEADLOCK FALSE
