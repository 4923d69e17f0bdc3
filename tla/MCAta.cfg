CONSTANTS
    Digit <- MCDigit
    REGS = 2
    WORDS = 2
    POLLS = 1
    FatCopies <- MCFatCopies
    Fresh = fresh
    Entry = entry
    Free = free
    Junk = junk
    Identity = identity
    Drive = drive
    None = none
    MaxCalls = 2
    MaxTabs = 1
SPECIFICATION FairSpec
INVARIANTS
    EntriesKept
CONSTRAINT Bounded
PROPERTIES
    ImplementsSectors
    SectorCallsEnd
CHECK_DEADLOCK FALSE
