SPECIFICATION FairSpec
CONSTANTS
    a = a
    b = b
    closer = closer
    none = none
    Threads = {a, b}
    Closer = closer
    NoOne = none
    MaxTransfers = 1
    MaxCloses = 1
INVARIANTS
    NoneWaitsInVain
    TimeoutReported
    TransferAlive
PROPERTIES
    Returns
