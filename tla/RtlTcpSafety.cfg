SPECIFICATION Spec
CONSTANTS
    LLBufNum = 1
    Channel = TRUE
    Systems = {"windows"}
    BufLen = 2
    CmdLen = 1
    Faults = FALSE
    MaxBuffers = 5
    MaxSessions = 2
    MaxSignals = 1
INVARIANTS
    TypeOK
    QueueBound
    OneOwner
    SessionOver
    StopsOnlyOnSignal
PROPERTIES
    StreamIntact
