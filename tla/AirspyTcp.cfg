SPECIFICATION FairSpec
CONSTANTS
    LLBufNum = 2
    BufLen = 2
    MaxBuffers = 4
    MaxSessions = 2
    MaxSignals = 2
INVARIANTS
    QueueCounted
    OneOwner
PROPERTIES
    StreamIntact
    ExitAnswered
