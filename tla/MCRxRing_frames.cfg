CONSTANTS
    Ring = 32
    Slack = 16
    Lengths <- MCLengths
    MaxLen = 11
    MaxFrames = 6
SPECIFICATION FairSpec
INVARIANTS
    UnreadIntact
    HeldIntact
PROPERTIES
    ImplementsQueue
    Drained
CHECK_DEADLOCK FALSE
