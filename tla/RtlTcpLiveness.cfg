SPECIFICATION FairSpec
CONSTANTS
    LLBufNum = 1
    Systems = {"posix", "windows"}
    Channel = FALSE
    BufLen = 1
    CmdLen = 1
    Faults = TRUE
    MaxBuffers = 1
    MaxSessions = 2
    MaxSignals = 1
PROPERTIES
    ExitAnswered
    ClientGoneEndsSession
INVARIANTS
    LateByChannel
