SPECIFICATION FairSpec
CONSTANTS
    BlockLen = 2
    Counts = {0, 2, 3}
    MaxSent = 6
INVARIANTS
    FreedUnused
    FileWhole
PROPERTIES
    Ends
    BlockSeen
