SPECIFICATION Spec
CONSTANTS
    Chips = {"R828D"}
    CalImr = TRUE
    Freqs = {24000, 881430}
    Xtals = {28800, 16000}
    Bandwidths = {300}
    SdmBase = 16
    Width = 4294967
    MaxFailures = 1
INVARIANTS
    Receives
    PathFits
