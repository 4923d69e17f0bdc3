CONSTANTS
    M = 16
    OurISN = 13
    PeerISN = 14
    Stream = 3
    BufSize = 4
    RequestLen = 2
    MaxLines = 2
    MaxConnects = 2
    MaxRepeats = 2
    MaxQueue = 2
SPECIFICATION Spec
INVARIANTS
    AckedIsShown
    ShownInOrder
    AckHonest
    FinAcked
PROPERTIES
    CommandsEnd
CHECK_DEADLOCK FALSE
