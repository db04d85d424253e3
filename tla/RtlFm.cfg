SPECIFICATION FairSpec
CONSTANTS
    Conseq = 1
    NumMeas = 2
    LongMute = 2
PROPERTIES
    SlotsServed
    ExitCompletes
    HopAnswered
