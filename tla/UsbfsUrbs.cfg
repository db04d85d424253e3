SPECIFICATION FairSpec
CONSTANTS
    NumUrbs = 4
    UrbLength = 2
    StallModes = {"continuation", "plain"}
INVARIANTS
    ReportedLast
    DataWhole
    StatusTrue
PROPERTIES
    Reported
