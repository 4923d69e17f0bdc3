CONSTANTS
    Ring = 32
    Slack = 16
    Lengths <- MCLengths
    MaxLen = 11
    MaxFrames = 6
SPECIFICATION Spec
INVARIANTS
    HeldWhole
CHECK_DEADLOCK FALSE
