SPECIFICATION Spec
CONSTANTS
    Tuners = {"R82xx", "E4000"}
    TunerMin = 21
    IfDefault = 3
    Freqs = {10, 30, 100}
    Rates = {2, 4}
    Bandwidths = {0, 2}
    Corrections = {0, 1}
    Xtals = {28, 29}
    NarrowIf <- MCNarrowIf
    Inputs = {0, 1}
    Modes = {"IQ", "Q_BELOW"}
    Thresholds = {24}
INVARIANTS
    TunedToFreq
PROPERTY
    ClockCurrent
