SPECIFICATION FairSpec
CONSTANTS
    c1 = c1
    c2 = c2
    NumXfers = 2
    BufNums <- OneLater
    Cancelers = {c1}
    Handlers = {c1}
    Systems = {"posix"}
    Faults = {"transfer", "submit", "events"}
    MaxReads = 2
    MaxCancels = 1
PROPERTIES
    ImplementsAPI
