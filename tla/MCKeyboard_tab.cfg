CONSTANTS
    a = a
    b = b
    Space = space
    Slash = slash
    Nul = nul
    Letters <- MCLetters
    Cap = 5
    Commands <- MCTabCommands
    Files <- MCNoNames
    Dirs <- MCNoNames
    MaxKeys = 6
SPECIFICATION Spec
PROPERTIES
    TabCompletesWord
CHECK_DEADLOCK FALSE
