SPECIFICATION Spec
CONSTANTS
    c1 = c1
    c2 = c2
    NumXfers = 2
    BufNums <- OneLater
    Cancelers = {c1}
    Handlers = {}
    Systems = {"windows"}
    Faults = {}
    MaxReads = 1
    MaxCancels = 1
INVARIANTS
    AllCancelledWhenFreed
