SPECIFICATION FairSpecAll
CONSTANTS
    command = command
    control = control
    other = other
    none = none
    Threads = {command, control, other}
    Setters = {command, other}
    Control = control
    MaxTransfers = 2
    NoThread = none
    FrameLen = 2
    MaxClients = 2
    MaxToggles = 1
INVARIANTS
    HeardByTuner
    Exclusive
    ClosedAtRest
    NoSocketLost
PROPERTIES
    FramesWhole
    ReadReturns
    EndsUnlessIdle
